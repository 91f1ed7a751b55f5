# Verification of RILL

RILL keeps terminals alive behind a daemon: `rilld` owns the PTYs, windows come
and go and *attach* to them over a Unix socket. This directory models the
daemon's attach plane, the kernel session it serves, the byte history it
replays, the kernel's graph of leaves and containers, the terminal engine with
the window's viewport over it, the control process and the cold sockets, and
the task and attention types of the orchestration crate, in TLA+. TLC checks
small instances; TLAPS proves, for every instance, the central invariants of
the daemon, its queues, the history, the graph and the terminal, and all
safety properties of the processes, the cold sockets, the tasks and the
attention queue.

## 1. The system

| component | state | operations | talks to |
|---|---|---|---|
| attach plane, `rilld/src/lib.rs` | `clients` (a Vec of stream, decoder, outbox, leaf, observe, protocol, credit), the kernel, a VT chip | `step` = reap, `poll_io` (accept, `read_client`, `dispatch_frame`, PTY drain, `fanout_pty_bytes`), `flush_outbound`, `maybe_resync` | windows by frames, the kernel by calls |
| kernel session, `rill-kernel/src/session.rs` | claim, credit, observers, lease, child exit, repaint request, outbound queue, ring | `on_frame`, `on_pty_readable`, `drain_pty_at_most`, `poll_child`, `detach`, lease methods | the PTY |
| byte history, `ring.rs`, `checkpoint.rs` | bytes, base, end, a stored checkpoint | `append`, `deltas_after`, `install_checkpoint`, `recovery` | called by the session |
| window client, `rill-host/src/lib.rs` | decoder, chip, granted credit | `connect_session`, `pump`, `grant_credit`, input | the daemon's socket |
| kernel graph, `kernel.rs` | leaves, container nodes, event log | create, attach, reparent, close, terminate, poll, reap | sessions |
| frame codec, `rill-attach` | bytes of an incomplete frame | `encode`, `decode`, `Decoder::push` | both ends of a socket |
| control proxy, `proxy.rs`, `main.rs` | pipes with one outbox per direction; socket files, the worker's lock file | start a worker, accept, splice | public sockets, the worker |
| cold sockets, `rilld/src/lib.rs`, `rill-host` `content.rs`, `nav.rs` | requests being read, answers being written, a content timeline per leaf | identity, navigation and content requests | windows through the proxy, graph, content store |
| content, transcript | items, sections, bounds | append, validate, evict | the cold sockets; the rest is a library |
| task, `rill-orchestrate/src/task.rs` | sections, decisions, prompt queue, a saved document | append, edit, decide, answer, fork, send, persist, restore | callers only: no other crate uses it yet |
| attention, `rill-orchestrate/src/attention.rs` | entries with target, state, read | enqueue, observe a view, roll up | as above |
| terminal engine, `vt-engine` | parser state, two grids, cursor, pens, modes, damage, replies | feed, resize, snapshot, checkpoint, repaint | daemon and window |
| scrollback, `rill-host/src/scroll.rs` | history rows, offset | ingest, compose | engine and view |
| macOS host | the mirror of instances, AppKit objects | render a frame, events | window client |
| look, surface | configuration | parsing | window client |

The daemon is one thread. What runs beside it is the environment: windows and
other peers that send, read slowly and disconnect at any moment, and shells
that write and exit at any moment. Nothing is persisted; recovery means that a
new window takes up a session the previous one left. The hard parts are
therefore

* *the client table*: indices into a Vec that accept and drop change while a
  poll result or a batch of decoded frames still refers to them;
* *the claim*: held by a connection, recorded in the session, and released on
  four paths (end of file, malformed bytes, a frame without ATTACH, a failing
  write);
* *exit and repaint across detach*: frames that must survive the window they
  were queued for, and others that must not;
* *credit*: the window that paces a PTY read, replenished by the consumer;
* *eviction*: offsets that stay valid although the bytes behind them go;
* *damage*: a frame rebuilds only what the engine called damaged, through an
  extract that is cached, dropped and taken again in between;
* *bytes cut anywhere*: an escape sequence, a UTF-8 character or a flag is split
  over chunks, a checkpoint falls between them, a socket takes half an answer;
* *processes that start, crash and start again* over socket files that nobody
  removed;
* *indices used again*: a fork or a restart cuts a task's log and goes on
  counting from there.

What makes each component correct is stated by the properties of section 3;
`PROJECT.json` lists the hazards with the line each one bites at.

## 2. Modules

| module | models | composes |
|---|---|---|
| `ByteRing` | `ring.rs`, and the checkpoint and recovery of `session.rs` | |
| `ByteRingProofs` | proofs about the ring | `ByteRing` |
| `Session` | `session.rs`: each method as an operator on the session record, with a second operator for the frames it queues | |
| `Daemon` | `rilld/src/lib.rs`, the window client and the children | `Session` |
| `DaemonProofs` | proofs about the attach plane: types, claims, observers | `Daemon` |
| `QueueProofs` | proofs about what is queued for clients | `DaemonProofs` |
| `Graph` | `kernel.rs`: leaves, container nodes, event log | |
| `GraphProofs` | proofs about the graph | `Graph` |
| `VtParser` | `parser.rs`: one operator per parser state | |
| `VtScreen` | `screen.rs` and `color.rs`: the control functions | `VtParser`'s calls |
| `VtEngine` | `vt-engine/src/lib.rs`, resize, snapshot, checkpoint, repaint | `VtParser`, `VtScreen` |
| `Terminal` | the window's side: `pump`, viewport, scrollback, probes, `renderFrame` | `VtEngine` |
| `TerminalProofs` | proofs about the terminal | `Terminal` |
| `Startup` | `main.rs`, the start of `run_control` and of `Daemon::bind` | |
| `ColdRequest` | what the cold sockets promise a window: a request is carried out at most once, in one step, and success is told only after it | |
| `ColdPath` | the cold sockets from window to worker | `Startup`; refines `ColdRequest` |
| `ColdPathProofs` | proofs about processes and cold sockets | `ColdPath` |
| `Task` | `task.rs` | |
| `TaskProofs` | proofs about tasks | `Task` |
| `Attention` | `attention.rs` | |
| `AttentionProofs` | proofs about the attention queue | `Attention` |
| `MCDaemon`, `MCTerminal`, `MCColdPath` | constants for TLC | |
| `MCKernel`, `MCOrchestration` | constants for TLC; each runs two components that share no state, so no behaviour needs both | `ByteRing` and `Graph`; `Task` and `Attention` |

### State and actions of `Daemon`

`order` is the Vec `clients`, `cl` the fields of its entries, `outbox` their
outboxes; `sess` and `outbound` are the kernel's leaves and their queues. The
loop's position is `pc`, the flags poll returned are `ready` (slots) and
`readable` (leaves), and `batch` holds the frames of one read still to be
dispatched with the *slot* they are dispatched to. `At` is whoever is in that
slot when a frame's turn comes, as `self.clients.get(idx)` is.

| action | code |
|---|---|
| `Reap` | `Kernel::reap` for every leaf |
| `Poll` | `poll_with_extras`, then `accept_client` |
| `ReadFrames`, `ReadMalformed`, `ReadEof`, `ReadWouldBlock` | `read_client` |
| `DispatchRefused`, `DispatchAttach`, `DispatchUnattached`, `DispatchIgnored`, `DispatchCredit`, `DispatchData`, `DispatchResize` | the arms of `dispatch_frame` |
| `DrainFanout`, `DrainDirect`, `DrainStop` | one turn of the drain loop |
| `Flush` | `flush_outbound`, with the drop of the first client whose write fails |
| `Resync` | `maybe_resync` |
| `Connect`, `Send`, `Close` | any peer |
| `Greet`, `ClientRecv` | `Client::connect_session`, `Client::pump` |
| `ChildWrite`, `ChildExit`, `LeaseDue` | the shell, the clock |

PTY output is counted, not stored: a DATA or DELTA frame is a half-open range
of byte numbers and a repaint or checkpoint is the number of bytes it shows.
`mirror` is what a client made of the frames it received: how far its picture
reaches and whether bytes were missing (`torn`). `written` is a history of who
wrote to which PTY: the sender of the frame and the client it was taken for.

What a peer may do is the constant `Freedom`: `overlap` (several connections
at once), `close`, `exit`, `clock`, `type`, `eager` (frames before the ATTACH
was honoured) and `late` (ATTACH later than first). Each run names the set it
uses, so that what a property rests on can be read from its configuration.

Abstractions: frames travel whole (short reads and writes are the codec's and
the outbox's matter); the history of a session fits its ring (`ByteRing`
models eviction); leaves exist from the start; the `mutate` feature's
branches, the cold sockets and the io journal are left out; one read takes all
the peer has sent, since frames past the 8 KiB buffer cannot be told from
frames sent later.

### State and actions of `Graph`

`nodes` maps a live id to its kind, its parent, its child nodes and its leaves;
`next_node` is the allocator's counter, which runs from 1 to `IdMax` and starts
again. `leaves` keeps what became of each child: running, dying (killed, and
the two seconds of `Pty::terminate` are over) or dead, whether it was
terminated and whether it was reaped. `events` is the log, leaf by leaf.

| action | code |
|---|---|
| `SpawnLeaf` | `spawn_leaf_with`, `allocate_id` |
| `CreateNode`, `AttachLeaf` | `create_node`, `attach_leaf` |
| `ReparentNode` | `reparent_node` |
| `CloseNode` | `close_node` with `collect_subtree`, `leaves_in`, `remove_subtree`; a termination that times out ends it early |
| `Terminate` | `Kernel::terminate`, `Session::terminate`, `Pty::terminate` |
| `Reap` | `Kernel::reap` |
| `ChildExit` | the child |

`collect_subtree` is the least set that holds the root and is closed under
children. On a cycle the code's walk never returns, so `CloseNode` is not a
step there. `AnyMove` says whether callers also move a node below itself.
The order of children, a leaf attached twice to one node, the order of events
of different leaves and the attach event are left out.

### State and actions of `Terminal`

`engine` is the parser and the screen `s` (both grids, cursor, saved cursors,
region, pen, modes, open cluster, damage, replies, rows scrolled off);
`client` is the window's history, scroll offset and cached view; `mirror` is
the instance buffer of the view. Bytes go through the parser one by one
(`FeedByte`), each giving at most one call (`PrintCall`, `Execute`, `Csi`,
`Esc`) that `Apply` carries out, as `Actions` does.

| action | code |
|---|---|
| `Pump` | `Client::pump`: feed, ingest the rows scrolled off, drop the view |
| `SendInput`, `SendPointer`, `ScrollLines`, `Resize` | the methods of that name |
| `Probe` | `cursor_cell`, `cell_codepoint`: an extract that nobody draws |
| `RenderFrame` | `renderFrame` of `TerminalView.m` |

A cell keeps its first code point, the number of further ones, its pen and
which half of a pair it is; the width table is the set `Wide`, combining marks
the set `Mark`. The tables overlap, and so do the sets: a wide mark
extends an open cluster and takes two cells where there is none. OSC strings are parsed and their payload ignored.

### State and actions of `Startup` and `ColdPath`

`control` and `worker` say how far each process is in `run_control` or
`Daemon::bind`; `workerPath` and `publicPath` whose socket lies at a path,
`Stale` for a file whose process is gone. A kill leaves the file and frees the
lock; a worker whose loop fails removes its files. A connection is one request
in one record, with the four socket buffers it crosses and what the proxy and
the worker hold of it (the module's header draws it). A unit is a header, a
payload, an item, or a word or a leaf of a navigation line: what a read or a
write may be cut between. A cut through the middle of a unit is not modelled.
A navigation line is read as the code does: `NavMax` units at once, and what
is left waits for the next read.

| action | code |
|---|---|
| `StartControl` ... `BindPublic`, `WorkerMissing` | `main`, `run_control` step by step |
| `TakeLock` ... `BindWorker` | `Daemon::bind` |
| `Open`, `Send`, `ReadContent`, `ReadNav`, `GiveUp` | `content_submit`, `nav_new_tab`, their timeouts |
| `Accept`, `Splice` | the loop of `run_control`, `splice`, `splice_content` |
| `ServeAccept`, `AnswerContent`, `PollContent`, `FlushContent`, `PollNav` | `accept_cold_*`, `poll_content_commands`, `poll_nav_commands` |
| `ControlDies`, `WorkerDies` | a process ends, with what it held |

### State and actions of `Task` and `Attention`

A task is its sections, its decisions by index and the next index. Of a
section's text only the answer marker it starts with is kept. Kinds and
decisions go to the saved document as names and come back through `from_tag`
and `decision_from_str`. Operations keep the code's names; `AppendSection` is
also one turn of `ReplayAdapter::drive`, and `Restart` restores what was saved
last, which may be older than the task or nothing at all. `Attention` has
`Enqueue` with the cap and `ObserveView`; `Rollup` and `BadgeCount` are the
projections, for one target.

## 3. What TLC checks

| run | instance | shows |
|---|---|---|
| `kernel` | the ring: 2 byte values, capacity 3, chunks up to 4, 7 bytes; the graph: 3 ids, 2 leaves, moves that make no cycle | `RingTypeOK`, `Suffix`, `RecoveryExact`, `EvictionOnly`; `TypeOK`, `TreeInv`, `EventInv`, `CloseExact`, `StableNodes` |
| `window` | 2 windows one after the other, 1 leaf, 2 bytes, window 1 | `TypeOK`, `ExitKept`, `ExitLast`; under fairness `OutputShown`, `ExitLearned` |
| `claims` | 2 peers, 2 leaves, 10 frames of every kind, 2 frames each | `ClaimInv`, `AttachInv`, `ObserverNeverWrites` |
| `worker` | a window and a protocol-2 observer with at most 1 byte of credit | `ExitLast`, `WriterUnbroken`; under fairness `DrainIndependent` |
| `terminal` | a 4 by 3 grid, 4 first chunks and 3 feeds from 27 chunks cut inside sequences and characters, 3 sizes (one with a zero side), history of 2 rows | `TypeOK`, `MirrorShows`, `PairsIntact`, `PendingAtMargin`, `CheckpointExact`, `RepaintExact`, `AltKeepsPrimary` |
| `cold` | 2 control processes and their workers, 1 crash, 2 requests (3 requests and starts together), sockets of 1 unit, responses of 2 | `AnswerWhole`, `StreamWhole`, `RecordedOnce`, `WorkerKept`, refinement of `ColdRequest`; under fairness `ConnectionsEnd` |
| `orchestration` | 2 tasks of up to 3 sections, 5 operations; 2 targets, cap 2, 4 entries | `IndexedLog`, `NoSilentApproval`, `RestartExact`, `ClosedKept`, `AttentionKept` |
| `second_writer`, `stray_input`, `lease_expiry`, `output_lost`, `torn_repaint` | one or two connections | a counterexample each: section 5 |

Bounds. A ring of three with chunks of up to four has a chunk that fits, one
that evicts part, one that fills and one that overruns; seven bytes evict
twice over. Two connections are enough for a drop to shift another client into
the freed slot, for a claim to be contended and for a reopened window to meet
its predecessor's queue. Two bytes against a window of one exhaust the credit
in both the direct and the fanned-out drain; a socket that buffers two frames blocks a third. In `claims` sockets take
nothing (`SockCap = 0`), because the claim does not depend on delivery; the
other runs deliver. The two peers of `claims` are interchangeable, so it uses
symmetry; it checks no liveness.

Three ids are a chain, a fork and a wrap of the allocator past live nodes; two
leaves let one of a subtree time out while the other is terminated, or one lie
inside and one outside of what is closed.

Four columns hold a pair in each of three places, a full row and a wrap; the
chunks contain every group of control functions, and each first chunk sets up
one of the hard cases (pairs on every row, a saved pending wrap, an alternate
screen over a primary with pairs, half a flag above a pair). `TypeOK` of
`Terminal` is about positions: every cursor, region and cluster the code
indexes cells with lies in the grid.

The shipped binary serves windows from a worker (`IsWorker`), where output is
fanned out to the clients; a `Daemon` without that flag uses the session's own
queue. `window` is the second, `worker` the first. With `IsWorker` the instance
of `window` satisfies `ExitKept`, `ExitLast` and `ExitLearned` as well, and not
`OutputShown` (section 5). `DrainDirect` fires in `window` alone.

Sockets of one unit cut every content request and response in two; responses
of two units are too short for the second item, which is the 1 MiB limit. A
navigation line has two units (the workspace; the list of tabs with the first
leaf) and one for each tab made, so with reads of two an answer is cut, and so
is the greeting once a tab was made. The
budget of three starts and requests allows two requests under one control, or
one under two controls, with a crash at any moment. Five operations are the
shortest sequence in which a fork is cut below a decided approval and grows a
new one at its index; four entries against a cap of two overflow a target
twice.

Deadlock is checked in the runs of the daemon and the kernel: the daemon's
loop never stops, and a graph can always be changed. In `terminal`,
`cold` and `orchestration` the bounds on a behaviour end it.

Fairness. `DaemonStep` is weakly fair: the loop calls `poll` with at most
50 ms and every other call in it is non-blocking. A window is weakly fair in
finishing its greeting and in receiving: `pump` runs from the window's display
timer. Nothing is assumed of other peers, of the shells or of the clock.
In `ColdPath` the steps of one connection are weakly fair together: while the
window, the proxy or the worker can do something for it, something is done.
The window's calls have timeouts of two seconds, and the loops of
`run_control` and `Daemon::run` come round at least every 50 ms. Nothing is
assumed of processes starting.

Every property has a mutant of the code it is about, listed in
`PROJECT.json`, that makes TLC report it violated.

## 4. What is proved

`ByteRingProofs`, for every byte set, capacity of at least one and chunk bound:
`TypeCorrect`, `RingIsSuffix` and `RecoveryIsExact`. `RingTypeOK`, which says
that the ring stays within its capacity and that base, length and end agree,
is inductive only together with `Suffix`: `end` is the length of the log and
the ring holds its last `min(end, Cap)` bytes; the lemma `RetainKeepsSuffix` carries
the argument that either branch of `append` keeps the newest bytes.

`DaemonProofs`, for every finite set of connections, every set of leaves,
every frame set and every bound:

* `TypeCorrect`: `[]TypeOK`. The arithmetic part is that no credit goes below
  zero and that a session delivers no more than its child wrote; it rests on
  `GotBounds`, which ties one read to the window that paces it.
* `ClaimsHold`: `[]ClaimInv` if `"late"` is not in `Freedom`. `ClaimInv` alone
  is not inductive: that a writer ATTACH is honoured for the connection that
  sent it needs the slot to be still its own, and that the connection held no
  claim before needs ATTACH to be its first frame. The strengthening is
  `TypeOK /\ AttachInv /\ ClaimInv`, where `AttachInv` says both of every
  ATTACH still in an inbox or a batch. TLC checks it in `claims`.
* `AttachFirst`: `[]AttachInv` under the same hypothesis.

The hypothesis is needed: section 5 describes what a late ATTACH does.

* `ObserverNeverWritesHolds`: `[]ObserverNeverWrites` if `"late"` is not in
  `Freedom`. The daemon asks the slot, not the sender, whether it observes.
  That is enough because, while the sender of a batch is in the table, it
  still holds the slot the batch was read from (`OwnSlot`), and because nobody
  with an ATTACH still to come, and no observer, has written (`Quiet`).
  `ObserverIInv` adds both to the invariants above and to `TableIInv`: a
  connection is in at most one slot or waits for one, and has a leaf only in a
  slot. That `Vec::remove` keeps this is `RemoveAtElements`, used once for a
  drop while frames are read and once for a drop in the flush.

`QueueProofs`, if `"late"` is not in `Freedom`:

* `ExitLastHolds`: `[]ExitLast`. The inductive `QueueIInv` adds to the claim
  and table invariants that every queue holds frames (`QueuesTyped`) and
  `QueueInv`: once a client has taken an EXIT or has one on its way, nothing
  live is behind it, and a session whose child was not reaped has queued no
  EXIT. The hypothesis is what makes a client's outbox that of one leaf.
* `WriterUnbrokenHolds`: `[]WriterUnbroken`, in a worker (`IsWorker`). Its
  `WorkerInv` adds that in a worker output reaches a client by the fan-out
  alone, never through the session's queue, so that each chunk begins where
  the last one queued for the writer ended.

What a queue has left when it is filtered by kind is a recursive function of
it (`Only`). The first lemmas unfold it: a function that satisfies the
equation exists, by induction, so the one TLA+ chooses does, and the filter
of `a \o b` is that of `a` followed by that of `b`. Induction on a natural
number is put as a statement about a set, whose least missing number is
neither 0 nor a successor (`Induct`).

`GraphProofs`, for every set of kinds, number of ids and number of leaves:

* `TypeCorrect`: `[]TypeOK`, by induction on its own.
* `NodesStable`: `StableNodes`. It rests on `AllocatedFresh`: the first free
  id at or after the counter exists if any is free, and is free.
* `EventsHold`: `[]EventInv`, inductive with `TypeOK`: `StoryGoesOn` shows that
  no step tells one leaf's story wrongly, `CountAppend` counts its log.
* `TreeHolds`: `[]TreeInv` if `AnyMove` is false. `TypeOK /\ TreeInv` is
  inductive. The step that matters is `ReparentNode`: a set of nodes closed
  under the new parents, less the moved subtree, would have been closed under
  the old ones. `SubtreeFacts` says what `collect_subtree` returns.
* `CloseIsExact`: `CloseExact` under the same hypothesis, since that a node's
  leaves exist is part of `TreeInv`.

`ColdPathProofs`, for every set of control processes, socket size, response
limit and bound on crashes and requests:

* `ProcInvariant`, `WorkerKeptHolds`: `ProcInv` says that every worker past
  the lock holds it and that the worker path is a process's exactly while that
  process serves. It is inductive, and `WorkerKept` is two states of it.
* `ColdInvariant`: `[]ColdInv`. For each connection it says that no socket
  holds more than it has room for; what the window has, the buffers and the
  worker's output make up the answer, in order, while the pipe is open, and a
  start of it once something was dropped (`Whole`, `Ordered`); the same of the
  request upstream; until a navigation command is answered, what is left of
  the greeting names no workspace, so no read takes it for a line (`NavParts`,
  `LineRead`); an answer is as long as its header says (`Framed`). Of the worker it says that
  only handled submissions are in the timeline, each once.
* `ColdImplementsRequest`: the refinement of `ColdRequest`. A request is asked
  when its connection is made, done when the worker has answered it, and told
  what its window knows; one lemma for each group of steps says which step of
  `ColdRequest` it is. That a window is told of success only after its request
  was done is `AnswerWhole` for content, and for a tab the part of `ColdInv`
  about what is left of the greeting.
* `AnswerWholeHolds`, `StreamWholeHolds`, `RecordedOnceHolds` follow from it.
  `AnswerWhole` alone is not inductive: that a response of the length its
  header announces is the answer needs the lost part to be at its end.
  `MoveFirst` carries the splice: moving units from one of five buffers to the
  next leaves their concatenation as it was.

`TaskProofs`, for every set of tasks, tags, prompts and decisions and every
bound:

* `TaskInvariant`: `[]TaskInv`. Every task, and every task in a saved
  document, is a log whose indices are its places, whose decisions lie on
  closed approvals that somebody decided, and whose written answers point at
  an earlier question. The saved documents belong to it because a restart
  makes one the task again; `DocumentBack` says that names and kinds
  translate there and back.
* `IndexedLogHolds`, `NoSilentApprovalHolds`, `RestartExactHolds` and the
  action property `ClosedKeptHolds` follow from it. That a fork of a log is a
  prefix of it, so that the next index is again its length, is where `Placed`
  is used.

`AttentionProofs`, for every set of targets, cap (zero too) and number of
entries: `AttentionKeptHolds`. `AttentionInv` says that the queue is a
subsequence of what was raised, with ids increasing and an entry read exactly
if it was seen, and what the cap may have taken of each target. Enqueueing
past the cap removes one entry, the oldest of those that may go; the lemmas
count the entries of a target before and after.

`TerminalProofs`, for screens of any size, chunks of any bytes, any sizes of
the window and any bound, over every state of the parser and every control
function of the screen:

* `TypeOKHolds` and `PendingAtMarginHolds`, from the inductive `TermInv`: the
  parser and the screen are well formed (`ParserOK`, `ScreenOK`), no reply and
  no scrolled-off row waits between two steps, the viewport's offset lies in
  its history, and a wrap is pending, here or in a saved cursor, only at the
  margin unless the ghost `widened` says otherwise. `TypeOK` alone is not
  inductive: that a restored cursor's wrap is at the margin, or that a
  parameter is a number, has to be known of what was saved before.
* `MirrorShowsHolds`, from the second invariant `MirrorInv`: at the live tail
  every row the mirror has wrong is damaged in the engine, in a view not yet
  drawn, or in the ghost `lost`.
* `CheckpointExactHolds`, from `TermInv` by simulation: two screens that agree
  on all but damage and the count of dropped replies (`Like`) agree after any
  call, and two parsers that were idle together (`Alike`) make the same calls.
  Here the probe is any sequence of bytes, and the run's few are instances.

Both invariants rest on one relation, `Good`, between a screen and what an
operation makes of it: well formed, of the same size, wraps where they were
allowed, and with damage over every row that changed. It is transitive, and
there is one lemma for each operation of `VtScreen` (`ScrollUpGood` ...
`ApplyGood`), then for a byte and, by induction, for a chunk (`FeedGood`).

The assumptions on constants are named in the modules that declare them:
connections are finitely many, bounds are natural numbers, a chunk is a
sequence of bytes and a window's size two natural numbers (either may be
zero), the ring and the cold sockets have room for at least one unit, and `Decisions` holds names that
`decision_to_str` knows, which is the whole of the enumeration in the code.

Only model-checked, and why:

* Liveness under fairness (`OutputShown`, `ExitLearned`, `DrainIndependent`,
  `ConnectionsEnd`): out of the prover's reach.
* `ExitKept` of `Daemon` holds only of the clients its runs name (section 5),
  so no theorem for every client is true.
* `AltKeepsPrimary` of `Terminal` holds of chunks that do not leave the
  alternate screen and enter it again, which those of the run do not; for any
  chunk it is false of the primary saved in between.
* `PairsIntact`: the ghost `split` asks whether a chunk holds ICH and whether
  a flag was open when the chunk began, which is enough for the run's chunks.
  In a longer chunk a flag may open and go stale within it.
* `RepaintExact`: a fold over the rows and cells of the grid that has to be
  followed through wrapping, pens and skipped blanks. Its proof would be an
  induction over cells with the state of the second screen spelled out.

## 5. Where the code and its documents disagree

Five runs end in a counterexample.

* `second_writer`: an observer that sends a writer ATTACH to its own leaf
  becomes a second writer (`SPEC-ATTACH` section 6).
* `stray_input`: frames decoded in the same read as the one that closed their
  connection are dispatched to the client that moved into its slot.
* `lease_expiry`: the input lease runs out although its holder is connected
  (`SPEC-CLIENT-AUTHORITY` section 4).
* `output_lost`: output in the PTY at the moment the child is reaped is never
  read (`NFR-DROP`).
* `torn_repaint`: in a worker output goes to the client's outbox and the
  repaint of a new window to the session's queue, which is flushed behind it.
  What is read between the two reaches the window first and is painted over
  (`TEST-CASES.md`, T-ATTACH and T-RESYNC). `OutputShown` fails the same way,
  and `WriterInSync` also fails beside a protocol-2 client, where
  `maybe_resync` takes the request and queues nothing. With neither, in
  the instance of `window`, it holds.

Others are seen with the same modules and other constants:

* `ClaimInv` fails with `late`: a client that moves to another leaf leaves the
  claim of the first behind.
* `ExitKept` fails with overlapping connections: `flush_outbound` empties the
  session's queue and stops at the first client whose write fails.
* A refused window seldom sees REFUSED: its CREDIT, in the same read, closes
  the connection before the outbox is flushed.
* CREDIT is added to the session's window whoever grants it, an observer too.
* `TreeInv` fails with `AnyMove`: `reparent_node` refuses a node as its own
  parent and accepts its descendants. The cut-off cycle has no root, and
  `close_node` of any of its nodes never returns.
* A termination whose wait times out has set the session's flag already
  (`session.rs:278`): a retry does nothing and the leaf never gets its
  Terminate event, though its Exit is still recorded.

In the terminal, each bounded away in the property it would break:

* A view extracted for a probe (`cursor_cell`) and dropped by the next `pump`
  takes its damage with it; the rows stay stale until they change again
  (`MirrorShows`, the ghost `lost`).
* ICH and a narrower window leave half a wide character behind, and a cluster
  left open across a line feed, an erase or DECRC lets a second regional
  indicator widen whatever stands there (`PairsIntact`, the ghost `split`;
  ADR 0035 says "No orphan tail").
* DECSC with a wrap pending, a wider window and DECRC leave a wrap pending
  away from the margin (`PendingAtMargin`, the ghost `widened`).
* A repaint cannot say a flag, a mark in a cell of its own or half a pair;
  such a row comes out shifted (`RepaintExact`, `Sayable`).
* Below the scroll region IND scrolls the region; `renderFrame` leaves the old
  instance on the tail of a pair; `import_checkpoint` keeps the rows scrolled
  off; the scroll offset stays fixed while output arrives.

On the cold path:

* At an end of file the proxy drops the pipe with what it has read and not yet
  written, although `read_into`'s comment says "Never discards a successful
  read because the peer is not writable". The window notices (`AnswerWhole`).
* The worker drops a complete request if it sees the end of file in the same
  poll; a submission or a tab whose window gave up may still be carried out,
  so a retry repeats it.
* A full response keeps the oldest items, so a window may not find its own
  submission in it (`RecordedOnce` says so).
* `run_control` still has the sequence exists, connect, remove, bind that the
  comment in `Daemon::bind` calls racy: of two controls starting over a stale
  file one can lose its public socket to the other. Workers are safe
  (`WorkerKept`).
* `read_line` takes a navigation line with one read of 512 bytes, and
  `parse_nav_line` accepts a list that was cut. Past about eighty tabs the
  window that made a tab is given an older leaf, where `ffi.rs:163` says of
  `rill_nav_new_tab` that it writes "the new leaf id". Content responses are
  read to their end and checked (`AnswerWhole`).
* What is left of a long greeting is found by the read that expects the
  answer; it names no workspace, so the window fails although its tab is made
  (`ColdRequest` allows a window to give up). A failing spawn ends the daemon's
  loop.

In tasks and attention:

* The comment on `decide` says nothing else "can advance a blocked task";
  `answer`, a marker written by `append` or `mutate_content`, even before the
  question was asked, and a newer decided approval do.
* Editing the open section that answers a question blocks the task again; a
  fork cut between question and answer has a question that is closed and
  unanswered; a second decision replaces the first.
* A read approval is never removed, so a target's entries can grow without
  bound; once they fill the cap a new `Failed` is dropped at once.

## 6. Plan

Left to do, the modules staying as they are:

1. Proofs: `RepaintExact`, by induction over the cells painted; `PairsIntact`
   and `AltKeepsPrimary`, with ghosts kept per byte instead of per chunk.
2. A byte-level frame codec (`Decoder::push`) over the outbox of `ColdPath`,
   refining a FIFO of frames.
3. The ring's eviction inside `Daemon`, for histories longer than the ring.

## 7. Not modelled

* AppKit events, chrome and the C interface: they call the methods modelled.
* Look and surface configuration, redaction, the width table: parsing and
  plain data. The automation registry: a bounded queue with field validation.
* Transcript ledger, durable transcript, retention policy and the other
  constructors of `content.rs`: library types nothing in the program calls.
* Ephemeral sessions (`Session::detach` kills their child): only the kernel's
  tests spawn one. The TOML text of a saved document, which is taken as what
  was written.
* fork, exec, signals, socket permissions and peer authorisation: operating
  system calls. The identity socket: one fixed answer.
* The io journal, read by tests only, the `mutate` feature's branches, and the
  diff of `vt-engine`, used by tests.
* The resync replay of a history in the engine, palette changes after connect,
  OSC payloads, and the byte layout of a checkpoint.
