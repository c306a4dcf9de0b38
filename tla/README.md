# Rayland: a verification development

TLA+ models of rayland's relay, checked with TLC and, where it matters most,
proved with TLAPS. Every definition is a translation of the source under
`crates/`; `PROJECT.json` maps each to its lines. What the code only *uses* (Mesa's
Venus driver, virglrenderer, the GPU, the processor) is modelled from how the
code and its comments use it, and marked external there.

Contents: 1 the system, 2 the modules, 3 the runs, 4 fairness, 5 the proofs,
6 what disagrees with the documentation, 7 what is not modelled, 8 the plan.

## 1. The system

Rayland runs an unmodified Vulkan application on machine **C** and renders it on
machine **S**, whose GPU and screen are used. Mesa's Venus driver writes commands
into a ring in shared memory and sends almost nothing over its vtest socket, so
the two daemons mirror memory; the few vtest commands and the application's
Wayland requests are relayed beside it:

```
 machine C (rayland-c)                          machine S (rayland-s)
 ---------------------                          ---------------------
 application + Mesa Venus                       virglrenderer: ring thread, GPU
   | ring words, commands, blob memory            ^ ring words, blob memory
   v                                              |
 ring watcher thread  ==== C2S: BlobData*, ====>  message thread (serve)
 vtest thread              RingDelta, SubmitCmd     | Applier, under its lock
   (serve_vtest,           CreateBlob, ...          |        `--> engine actor
    RelayEngine)           WaylandRequest           |        `--> Wayland replay --> compositor
 Wayland proxy                                      |                                   |
                                                    v                                   v
 reader thread        <=== S2C: BlobData*, =====  progress thread        compositor reader
   | Progress, blob table  RingProgress, answers    | LiveFrame
   | replies, events       WaylandEvent             v
   v                                              window thread
 ring watcher publishes head
```

### Components, their state and operations

| component | state | operations | hard because |
|---|---|---|---|
| ring watcher, C (`rayland-c/src/main.rs`, `ring.rs`) | `RingWatcher.last_tail`, `published_head`, `idle_published` | take_delta, note_relayed, messages_for_delta, ship and note_shipped, stall check, advance_head, set_alive, publish_idle, decide_park, clear_idle | five threads and Mesa share its words; parking is Dekker's algorithm on plain memory |
| `Progress`, C | relayed, shipped, consumed tails, `outstanding_since` | note_relayed, note_shipped, note_consumed, outstanding_for | each field is written by a different thread; cursors wrap |
| vtest server, C (`rayland-vtest`) | the command being served, the timelines | one case per vtest command: reply, engine call, or end of the session | Mesa matches replies by order alone |
| `RelayEngine`, C (`relay_engine.rs`) | `PendingBlob`, the ring slot, the reply channel | create_blob_resource, submit behind flush_ring, unref_resource, venus_capset, request | an answer names no request; one program order takes two paths to S |
| reader thread, C | blob table, `Progress` | apply_blob_data, RingProgress, commit_pending_blob, answers, errors and events routed on | it writes memory that the watcher diffs, and wakes a thread that reads the table |
| blob mirror, C (`shm.rs`, `blob_sync.rs`) | mapping, `baseline` | ensure_baseline, take_changed_runs, note_s_wrote | nobody announces a store |
| message thread, S (`rayland-s/src/main.rs`, `apply.rs`) | `Applier` | apply: one case per message; answers sent under the applier lock | what it sends must precede what the progress thread sends; a creation may fail half way |
| ring mirror, S (`ring_mirror.rs`) | `applied_tail`, `reported_head` | apply_delta, take_progress | it feeds a ring whose consumer it does not control |
| blob mirror, S (`blob.rs`) | mapping, `shadow` | take_bytes_s_wrote, copy_in, coalesce_ranges | the GPU writes at any time |
| progress thread, S | nothing between passes | take_ring_progress, take_venus_blob_writes and the fence scan, take_app_blob_writes, ship x3 | the order of reads and of sends is the whole argument for whole frames |
| live frame and window, S (`present.rs`, `rayland-present`) | `LiveFrame`, `FrameCapture`, session_over | apply_runs, frame, observe_replies; first frame, redraw, close, present_the_frame | fed by the same cue without the release; the first frame may arrive as the session ends |
| engine actor, S (`rayland-engine`) | one in-flight fence, contexts, resources, the retirement table | one command per engine call, poll, deadline, teardown | a caller blocks, the actor must not; fences retire on the library's threads |
| link (`rayland-relay/src/frame.rs`, `rayland-transport`) | the two ways of one stream, a send mutex on each machine | write_msg, read_msg, ship | three threads write on each way, a write may block with locks held, either way may end first |
| Wayland proxy, C; replay, S | object tables, two id maps, dmabuf state | requests, buffer interception, binds, events, wake-up | both id spaces reuse ids while messages are under way |

### What makes it correct

* The application is released (head) only when the reply is in its own memory,
  and its ring is never overwritten before S has run it.
* A command S runs finds memory as new as the application's when it issued it.
* Inline commands and ring commands keep the application's order.
* No byte is echoed to the side that wrote it, or rolled back to an older one.
* A watcher that sleeps misses nothing; an application that waits on a ring that
  moves is not aborted; an S that is wedged is noticed.
* A frame the application reads is whole and current, and the window catches up with it.
* The answer a vtest command gets is its own; the blob behind a descriptor is the
  one it was asked for; what is refused half way leaves nothing behind.
* Every caller of the engine is answered once, and a wait that succeeded is true.
* A Wayland request reaches the object it was made on; no event sleeps.
* Frames and batches of threads that share a way do not mix, and two daemons that are both stuck in a write do not wait for each other.

`PROJECT.json` lists each hazard at its line, with the property that would catch it.

## 2. The modules

| module | models | abstraction |
|---|---|---|
| `RingService` | what the relay promises: a ring in order, with bounded room, answered before it is released | four counters |
| `RelayRing` | the command ring end to end: every thread of both daemons, both links, Mesa and virglrenderer | a ring unit is one command; one blob's memory is its version; cursors do not wrap |
| `RelayRingProofs` | the proofs about `RelayRing` | |
| `BlobSync` | one blob: creation, both diffs, unref | a cell is the number of its writes; one writer per cell; a diff is one step |
| `BlobSyncProofs` | the proofs about `BlobSync` | |
| `RingPark` | the status word and the nap, each load and store its own step | note_relayed and the sending are one step |
| `RingParkProofs` | the proofs about `RingPark` | |
| `StallClock` | `Progress` with words that wrap, and time | S says anything at any time |
| `StallClockProofs` | the proofs about `StallClock` | |
| `Readback` | a frame's way back: poll, answer, cue, diff, live frame | a pixel is its frame's number; C to S is immediate |
| `Window` | `Readback` with S's window, the main thread's end and the compositor | a frame on screen is an image of pixels |
| `ReadbackProofs` | the proofs about `Readback` under `Window` | |
| `VtestServer` | Mesa's vtest client and `serve_vtest` | a command is one message; its engine is a pair of actions |
| `EngineActor` | the engine's thread, its clients, virglrenderer's retirement threads | the library refuses whatever it likes |
| `Session` | `VtestServer` and `EngineActor` joined by `RelayEngine`, both links, the reader, `Applier` | memory contents and the ring are left out |
| `SessionProofs` | the proofs about `EngineActor` and `Session` | |
| `Wayland` | the proxy's and the replay's object tables and the way between them | a request has at most one object argument |
| `WaylandProofs` | the proofs about `Wayland` | |
| `Channel` | what the link promises: messages whole, once, in order, batches in one piece | a log for each way |
| `Link` | `write_msg` and `read_msg` on the two ways of one QUIC stream, the send mutexes, flow control, the end of a way | a frame is two cells; of a message only its sender, its batch and whether it is too large |
| `LinkProofs` | the proofs about `Link` | |

The modules are separate because their questions are: `RelayRing` is about the order
of messages, `RingPark` about single loads and stores of one word, `StallClock`
about arithmetic and time, `Session` about who answers whom. Each takes from the others what they
establish: `Readback` takes the release protocol from `RelayRing`; `RelayRing` may use unbounded
cursors because `StallClock` shows that the wrapped comparisons agree with them, and may
leave the nap out because `RingPark` shows that it delays and never loses; `Session` need not
carry the barrier of `submit` because `RelayRing` has it; and all of them may take a way of the link for a queue in which a batch
stays in one piece, because `Link` implements `Channel`. A batch is one append wherever what its sender does next does not depend on
how much of it has been read; `RelayRing`, where a cursor is stored after the batch, appends message by message. Three are compositions:
`RelayRing` of all threads around the ring, `Session` of `VtestServer` and `EngineActor`,
`Window` of the main, window and progress threads of S.

### RelayRing: state and actions

| code | TLA+ |
|---|---|
| ring words and slots on C; on S | `tail`, `head`, `cbuf`; `applied`, `shead`, `sbuf` |
| `RingWatcher.last_tail`, the delta, the messages | `lastTail`, `delta`, `batch` |
| `Progress` | `relayed`, `shipped`, `consumed`; the ghost `sent` is how far the deltas put on the link reach |
| reply arena on C; on S; `HostBlob.shadow` of it | `crep`; `srep`; `srepShadow` |
| `LocalBlob.baseline`, `HostBlob` memory | `base`, `smem` (versions) |
| the two QUIC streams | `c2s`, `s2c` |
| watcher loop | `TakeDelta`, `NoteRelayed`, `MessagesForDelta`, `ShipMessage` once for each message, `NoteShipped`; on a pass that finds nothing `ReadProgress`, `AdvanceHead` |
| `RelayEngine::submit`, `flush_ring` | `FlushTarget`, `SubmitFlushed`, `SubmitTimedOut` |
| reader thread | `ReadReplyData`, `ReadRingProgress` |
| `serve`, `Applier::apply` | `ApplyBlobData`, `ReceiveDelta`, `PublishTail`, `ApplySubmitCmd` |
| progress thread | `TakeRingProgress`, `TakeVenusBlobWrites`, `ShipVenus`, `ShipProgress` |
| vkr_ring_thread (external) | `Dispatch`, `StoreHead` |

A lock is a program counter: the message thread holds the applier lock while `spc # "recv"`,
and the progress thread's lock sections ask for `spc = "recv"`. The watcher holds C's link lock (`LinkHeld`)
from a batch's first message to `NoteShipped`, and the vtest thread's sends wait for it; S shares no lock of C's and
may receive, run and acknowledge each message as soon as it is sent, before the next one and before `NoteShipped`.
What the progress thread ships at a time is at most one message here.

### Session: state and actions

| code | TLA+ |
|---|---|
| Mesa's handshake and its calls (external) | `Greet`, `AskBlob`, `AskUnref`, `AskSubmit`, `AskSync`, `ReadReply`, `Exit`; `awaited` is what it waits for, `mapped` the descriptors it has |
| `serve_vtest`: read_command, dispatch, end of stream | `ServeLocal`, `BeginCall`, `FinishCall`, `EndOfStream`; `serving`, `syncs`, `outcome` |
| `RelayEngine` as the server's engine | `CreateVenusContext`, `Submit`, `Unref`, `VenusCapset`, `CreateBlobResource` up to the send; `ReceiveAnswer`, `NoAnswer` from the `recv` on |
| `PendingBlob`, `BlobTable`, `RingSlot`, the reply channel | `pending`, `cblobs`, `ringSlot`, `replies` |
| reader thread: commit_pending_blob, then the answer | `Reader`, `ReaderEnds` |
| `serve` and `Applier::try_apply` | `Receive`, `Applied`, `Undo`, `Undone`, `SendAnswer`, `ServeEnds`; the lock is held while `spc # "recv"` |
| `EngineClient::request`: send, then a blocking recv | `Request`, `Collect` |
| `run_actor`, `handle_command` | `Construct`, one `Handle...` for each command, `Drained`, `PollFence`, `Teardown` |
| `FenceState`, `write_context_fence` | `highest`, `WriteContextFence` |
| virglrenderer's resources and fences (external) | `hosted`, `unsignalled`, `signalled` |
| the link | `LinkFails`, at any time, with any part of what is on the way lost |

The engine's clients are `Serve`, the daemon's message thread, and `Waiters`: threads of a program that uses `rayland-engine` as a
library. Only the latter call `wait_for_work_retired`; neither daemon does, so what the model says of fences, deadlines and
retirement (`AnsweredOnce`, `WaitIsTrue`, part of `EveryCallEnds`) is about the library's interface.

The watcher is there as one batch between its diff and its send (`batch`), since its bytes may arrive
for a blob S has forgotten. Messages carry, besides what the code sends, the number of the vtest command
behind them, which is what the properties compare.

### The others

`BlobSync` keeps `phase`, `pending`, `reply` for the vtest thread; `inTable`, `cmem`, `base`,
`hasBase` for the blob table; `sphase`, `smem`, `shadow` for S's entry; and `written`, a
ghost: the last version each cell's writer wrote. `internal`, chosen at `Init` from `Internals`, is
`blob_id = 0`: no baseline until the first diff, no coalescing, and S writes it only for a command that names it.

`RingPark` splits each update of the status word into `Load` and `Store`; `tso`, chosen at
`Init`, says whether the store of IDLE may wait in `buffer` past the load of tail
(ring.rs, Gap 2). `moved` is a ghost: whether head has moved since Mesa last cleared ALIVE.

`StallClock` pairs each word with a count that does not wrap (`count`), and the clock
(`since`) with the silence it is meant to measure (`silence`).

`Readback` keeps the frame in the GPU's memory (`sres`, landing a pixel at a time), S's
shadow, C's copy and the live frame; `replies` are answers to polls that stay in the arena until
`forgotten`. `Window` adds the main thread (`mpc`), the window thread (`wpc`), the window and the frame it
holds (`win`, `image`), the callback that is owed, and `FrameCapture`'s copy (`candidate`).

`Link` has one program counter for each thread that sends (vtest, watcher and proxy on C; serve, progress and the compositor's reader on S)
and one for C's reader. `HandOver` is the moment a thread has something to send, `Lock` its taking of `tx`, `WriteLength` and `WriteBody` the two
`write_all` of a frame, `ReadLength` and `ReadBody` the two `read_exact`; `stream` is what QUIC holds between them, and a write waits while it
is full. `applier` is what S's message thread keeps locked while it answers, `blobs` what C's reader needs to route bytes.

`Wayland` numbers objects (`k`) so that two with one id can be told apart: `objects` is the proxy's table,
`made` the replay's proxies, alive or not, `forward` and `reverse` its two maps; between
send_request's return and the maps' insert there is `inserting`. `astray` is a ghost: whether a request or an event was
taken for another object's.

## 3. The runs

| run | question | bounds | result |
|---|---|---|---|
| `relay_ring` | do cursors, replies, memory and inline commands keep their order; is `RingService` implemented; does every call return? | ring of 2, 4 commands, 1 memory write, 1 inline command | 711,399 states |
| `blob_sync` | do the two mirrors of a blob agree without echo or rollback? | 4 cells, 2 writes each, 2 deltas, both kinds of blob | 2,002,057 |
| `blob_gap` | is every byte S returns one S wrote? | an application's cell between two of S's | violated |
| `ring_park` | does the nap lose anything, does the heartbeat lie? | 3 commands | 56,885 |
| `stall_clock` | do comparisons survive the wrap; is the stall real? | words of 16 values, 20 commands, limit 2 ticks | 12,101 |
| `readback` | does the application read whole frames, does the window catch up? | 2 pixels, 2 frames, 4 polls | 1,349,127 |
| `live_torn` | is the live frame whole? | 2 pixels, 2 frames | violated |
| `live_fold` | is only the frame folded into it? | a second blob | violated |
| `session` | whose answer is it, do the tables agree, does every call end? | 2 turns (commands and GPU waits), 1 batch of the watcher's | 305,606 |
| `wayland` | do requests reach their object, do the maps drift, does an event sleep? | 2 ids on each side, 3 objects, 5 requests, 2 events | 578,941 |
| `link` | are messages whole, in order, and batches in one piece; does anyone wait for ever? | streams of 1 cell, 2 hand-overs on C, 1 on S and its answers, batches of 2 | 494,029 |
| `wayland_stale` | does an event reach its object? | the same | violated |

**Why these bounds.** A ring of two with four commands laps twice, so every slot is reused and a
delta is split at the end of the buffer; one inline command and one memory write are enough for each
to race every other step once. `stall_clock`'s words wrap after 16 and 20 commands go
past that. `blob_sync` has two cells of the application's between two of S's, further apart
than the gap; `blob_gap` has one, within it; a third delta changes nothing (that instance also holds, and is
only too large to keep). Two frames are enough for `readback` because what lingers of an
older frame is only that it was answered; the same properties without the window also held with three frames
and six polls. `session` starts with the whole handshake, so its two turns are on top of seven
commands; two are what it takes for a command, its refusal or the link's failure to leave something that
another command meets, and for two waits to be in flight together. `wayland` has more objects than ids, on both
sides, so that both reuse them. In `link` one cell fills a stream, so that a thread can be stuck in the middle of a frame with the other way full as well;
two hand-overs put any two threads of C against each other. The proofs of section 5 remove the bounds of `RelayRing`,
`BlobSync`, `RingPark`, `StallClock`, `Window`, `Session`, `Wayland` and `Link` for their safety properties.

**What the properties say**, beyond types: the comment above each states it. In short:
`FrontierOrder` is the whole chain `head <= consumed <= ... <= tail <= head + BufSize`. In it S's applied tail is bounded by what was
*sent*, and so by `relayed_tail`, which is noted before the send; `shipped_tail` is noted after it, S may be past it, and it bounds nothing of S's;
`ReplyBeforeHead`, `MemoryBeforeCommand`, `StreamIntact`, `InlineInOrder` and `NothingRefused`
are the relay's promises, and `EveryCallReturns` that they are kept in time; `NoEcho`, `NoRollback`, `AgreeWhenQuiet` and `KnownBeforeFed` the mirror's;
`ParkIsAPromise`, `AbortIsDeserved` and `EveryWriteIsDrained` the status word's; `AssertsHold`,
`ComparisonsSurviveTheWrap`, `StallIsReal`, `WedgeIsNoticed` the clock's; `ReadIsWhole`, `WindowAgrees` and
`WindowCatchesUp` the frame's; `AnswerIsForTheRequest`, `OneBlobBehindTheDescriptor`, `TablesAgree`,
and `EveryCallEnds` the session's; `AnsweredOnce` and `WaitIsTrue` the engine's; `ImplementsChannel` and `NobodyWaitsForEver` the link's;
`RequestsReachTheirObject`, `MapsNeverDrift` and `NoEventSleeps` the Wayland replay's.

`ParkIsAPromise` holds only without the store-load reordering, as ring.rs itself says;
`EveryWriteIsDrained` holds with it, because the sleep is bounded. `InlineInOrder` is claimed
only of commands whose barrier was satisfied: after FLUSH_TIMEOUT the code lets the command
cross, and says so. `AbortIsDeserved` leaves out the instant between the store of head and the
store of ALIVE, which the code cannot close. `RequestsReachTheirObject` is claimed until an event has gone astray (section 5). The part of `TablesAgree` about C says nothing of a session whose link
has failed: both processes end then.

Every property has a **mutant** in `PROJECT.json`: a plausible bug in one mapped definition
under which TLC finds the property violated. Mutants are the operators commented `Mutant:`,
just before the definition they change.

Deadlock is checked where the system loops for ever (`RelayRing`, `RingPark`). `StallClock`, `Window` and
`Session` may end their processes, and the bounded histories of `BlobSync`, `Readback`, `Wayland` and `Link` end, so there it is not; `Link` has
`NobodyWaitsForEver` instead, which tells an end from a deadlock.

## 4. Fairness

Weak fairness of each daemon thread: each is an OS thread in a loop whose only sleeps are timed
(PARK_SLEEP, FLUSH_POLL, PROGRESS_POLL) or wait for a channel, a socket or a stream. Weak
fairness of virglrenderer's ring thread: S's message thread rings its doorbell after each delta.
No fairness of the application, of Mesa, of the FLUSH_TIMEOUT, or (in `StallClock`) of S. In
`RelayRing` the progress thread waits for a lock the message thread takes again and again; weak
fairness still serves, because an application whose calls are not released fills its ring
and stops, and the lock is then free. `RingPark` adds that a store buffer drains.

`Session` adds that Mesa reads the replies it waits for; it may exit at any time and need never send another command, and
the link need never fail. `EveryCallEnds` needs the clock only for a GPU wait (its deadline passes): the GPU itself need never
reach a fence. In `Wayland` the threads of both daemons run, and neither the application nor the compositor has to say anything.
In `Link` a thread that has begun to send or read goes on; nobody need have anything to send, and the connection need not be lost.
`EveryCallReturns` and `NobodyWaitsForEver` are written `[]<>`, "comes to rest again and again", which in a bounded history is that it ends at rest.
In `Window` the compositor configures a window and calls back one that asked; nobody has to close it, and C may stay for ever.

## 5. What is proved

`RelayRingProofs` proves, for every ring size, number of commands, memory writes and inline
commands (from `RingAssumption`, which asks only that they are natural numbers and the ring holds at
least one command):

| theorem | statement |
|---|---|
| `Inductive` | `Spec => []IInv` |
| `TypeCorrect` | `Spec => []TypeOK` |
| `CursorsInOrder` | `Spec => []FrontierOrder` |
| `RepliesBeforeHead` | `Spec => []ReplyBeforeHead` |
| `Accepted` | `Spec => []NothingRefused` |
| `InlineKeepsOrder` | `Spec => []InlineInOrder` |
| `Implements` | `Spec => ServesTheRing`: every step is a step of `RingService` or a stutter |

None of these is inductive: each depends on what is in hand or in flight. `IInv` adds

* `Cursors`: the order of the cursors in local variables, as well as the published ones;
* `Acks`: acknowledgements in flight lie between `consumed` and `reported` and never go back,
  which is why none is refused;
* `Watcher`: what is left of a batch at each step between the drain and `NoteShipped`;
* `Chain`: the deltas in flight join end to end, from S's applied tail to the last one sent,
  which is why S's length check never fails;
* `Replies`: every acknowledgement in flight travels behind the replies it promises, and S's
  shadow of the arena is on its way to C;
* `Inline`: every inline command in flight travels behind the deltas it depends on.

The last four are predicates of a *link*; each has a lemma for one more message at its end and one for
one fewer at its front, and the steps of the threads reduce to those. `Implements` then takes
one step of `RelayRing` at a time: `AppIssue`, `Dispatch`, `ReadReplyData` and `AdvanceHead` map to
`Issue`, `Execute`, `Answer` and `Release`; all others stutter.

Its second part adds, from the same assumption and on top of `IInv`, what travels behind those cursors:

| theorem | statement |
|---|---|
| `StreamInvariant`, `StreamArrives` | `Spec => []Contents`, `Spec => []StreamIntact` |
| `MemoryInvariant`, `MemoryArrives` | `Spec => []Memory`, `Spec => []MemoryBeforeCommand` |

* `Contents` follows the commands: those between two cursors are, in order, in C's ring, in the watcher's hands, on the
  link, or in S's ring. It survives the reuse of a slot only because the cursors stay within one lap (`FrontierOrder`).
* `Memory` follows the versions: wherever a command is, the memory it needs is on S or in a message ahead of it. Its last
  conjunct is why the order in `batch_messages` matters: between the diff and the sending, only the batch in hand keeps it true.

`BlobSyncProofs` proves, for a blob of any size, any division of its cells between the two sides, any gap, and any number of writes and
deltas (`BlobAssumption`):

| theorem | statement |
|---|---|
| `MirrorInvariant`, `MirrorTypes` | `Spec => []IInv`, `Spec => []TypeOK` |
| `NothingEchoed` | `Spec => []NoEcho` |
| `KnownFirst` | `Spec => []KnownBeforeFed` |
| `MappingsAgree` | `GapIsTheirs`: `Spec => []AgreeWhenQuiet` |
| `NothingRolledBack` | `GapIsTheirs`: `Spec => NoRollback` |

`GapIsTheirs` says that no cell of the application's lies between two of S's that are no more than the coalescing gap apart. It is what
`blob_gap` shows the code not to ensure; without it a merged run carries S's old copy of a cell back over the application's newer one.
A blob of Venus's own is diffed with a gap of 0, which satisfies it. `IInv` consists of

* `Handshake`: how far the creation and the giving up have come on each machine, and what is then on each way; `BlobCreated` is ahead of all data;
* `Ownership`: C's mapping differs from its baseline, and S's from its shadow, only in cells which that side writes. This alone gives
  `NoEcho`, but for a blob that has no baseline yet;
* `Untouched`: such a blob is unwritten on S, because no delta that names it gets there before the watcher's first diff;
* `Mirror`, where the gap holds no cell of the application's: for each cell what a way says of it (`Feeds`) begins at what the receiver
  holds, never goes back and ends at what the sender takes the receiver to hold. `ToC` and `ToS` chain the two mappings through the link
  and the thread about to send. The answer to a creation counts as sent while it is in hand (`Way`): the applier lock keeps the progress
  thread out.

`Feeds` has a lemma for each thing that can happen to a way: a message of something else, the first message leaving, a batch
joining, and a diff made (`DiffFeeds`, `CreatedFeeds`).

`StallClockProofs` proves, for every width of a cursor, every ring of at most half a width that divides it and every limit
(`ClockAssumption`; 2^32 and Mesa's ring are one instance), whatever S sends:

| theorem | statement |
|---|---|
| `ClockInvariant`, `ClockTypes` | `Spec => []IInv`, `Spec => []TypeOK` |
| `AssertsNeverFail` | `Spec => []AssertsHold` |
| `WrapIsHarmless` | `Spec => []ComparisonsSurviveTheWrap` |
| `StallsAreReal` | `Spec => StallIsReal` |

The code sees words. `IInv` puts a number under each (`Wrapped`), in order and within one ring of each other (`Ordered`), so that a
wrapping difference is the difference of the numbers; `Clock` then relates the clock to S's silence. The facts about `%`
come first, because the provers know little of it.

`RingParkProofs` proves, for any number of commands (`ParkAssumption`):

| theorem | statement |
|---|---|
| `ParkTypes` | `Spec => []TypeOK` |
| `ParkKeepsPromise` | `Spec => []ParkIsAPromise` |
| `AbortsAreDeserved` | `Spec => AbortIsDeserved` |

* `Promise` is Dekker's argument: from the store of IDLE until the watcher is awake, IDLE is in the word, so a writer whose tail the watcher
  missed finds it there.
* `Evidence` follows ALIVE through every copy of the word: the word, the store buffer, and the value a read-modify-write has in hand.

`SessionProofs` begins with the engine's actor. It proves, for every set of clients, contexts and rings (from `EngineAssumption`: "none" is no
client's name):

| theorem | statement |
|---|---|
| `ActorTypes` | `ActorSpec => []ActorTypeOK`: types; the engine's resources are exactly the library's |
| `CallersAreAnswered` | `ActorSpec => []AnsweredOnce` |
| `WaitsAreTrue` | `ActorSpec => []WaitIsTrue` |

`ActorInv` adds to the types

* `Channel`: a command in the channel is its blocked client's own call, and the only one (`QueueOwes`,
  `QueueOnce`); an answer belongs to a blocked client and is the only one (`AnswerOwes`); a blocked client is
  owed something (`Owed`);
* `FenceOwes` and `BlockedHolds`: the client of the fence in flight is blocked on a wait for that
  context and ring, and nobody leaves while blocked;
* `PollsAFence`: the actor looks at a fence only when there is one;
* `FencesInOrder`: a ring's retirement mark and what its GPU has reached lie below every fence of that ring
  still to be reached, which is why `highest >= id` proves that fence `id` was reached.

These theorems are about `ActorSpec`, where any client may ask anything at any time. Then comes the session, for any number of commands,
waiters, rings and batches of the watcher's, whatever S refuses and whenever the link fails (from `SessionAssumption` besides):

| theorem | statement |
|---|---|
| `SessionHolds` | `Spec => []SessionInv` |
| `SessionTypes` | `Spec => []TypeOK` |
| `AnswersMatch` | `Spec => []AnswerIsForTheRequest` |
| `OneBlob` | `Spec => []OneBlobBehindTheDescriptor` |
| `TablesMatch` | `Spec => []TablesAgree` |
| `SessionIsAClient` | `Spec => ActorSpec`: what S does with the engine is what the actor allows its clients |
| `SessionIsAnswered` | `Spec => [](AnsweredOnce /\ WaitIsTrue)` |

`SessionInv` has `ActorInv` as a conjunct, since the applier's tables follow the engine's answers, and adds

* `InOrder`: the replies written, the one being made and those to the commands not yet read are, in order, those Mesa awaits. `Awaiting` says
  it with a function from commands to the replies before them, since most commands have none;
* `OneInFlight` and `Matching`: a request is on its way, or in hand, or its answer is on its way back, or in the channel, and never twice. An
  answer on the link or in the channel is to the request RelayEngine waits for. The code's messages carry no number, so this rests on there
  being one request in flight, and on `message_is_solicited`, which keeps an Error about any other message from being taken for its answer;
* `SlotIsForIt`: until its answer is there, the pending slot holds the blob of that very request, so that the reader commits the right one;
* `InPhase` and `EngineHolds`: the message thread has a call in the engine exactly for its message, and the engine's table is the applier's,
  but for the one resource that is just being made (`Orphaned`), dropped (`Dropped`) or taken back (`TakingBack`);
* `Accounts`: `Tables`, who has an entry and of which command; `Apart`, that a resource is Mesa's, or coming to it, or given back, and
  nothing is two of these, because ids are never used again; `NoneForgotten`, that while the session lives nothing else is in the tables.

`SessionInv` was checked by TLC on the instance of `session` first. `VtestServer` has no theorems of its own: its properties are those of the composition.

`LinkProofs` proves, for streams of any size, batches of any length and any number of hand-overs (from `LinkAssumption`: a stream holds a cell, a
batch a message):

| theorem | statement |
|---|---|
| `LinkInvariant` | `Spec => []Inv` |
| `LinkImplements` | `Spec => ImplementsChannel` |

What `Channel` promises is about messages, and what is on the way is cells, so `Inv` counts cells:

* `Locks`: a thread is in "write" exactly while it holds the mutex of its way, is within a frame only then, and has a batch of its own left;
* `Whole`: the cells taken and those in the stream are twice the messages sent, and one more exactly while the holder is within a frame
  (once a way has failed, that one may stay for good);
* `Bodies`: cell 2j of a way is the body of its j-th message. A reader that has a length has taken an odd number, so what it reads next
  is the body of the next message, whoever else is waiting to write;
* `Unfinished`: a batch that is not finished is that of the mutex's holder, or the way has failed.

`WaylandProofs` proves, for any number of ids on either side and of objects, requests and events (from `WaylandAssumption`: the
application's ids are 1, 2 and so on):

| theorem | statement |
|---|---|
| `Inductive` | `Spec => []IInv` |
| `TypeCorrect` | `Spec => []TypeOK` |
| `RequestsArrive` | `Spec => []RequestsReachTheirObject` |
| `MapsAgree` | `Spec => []MapsNeverDrift` |

`IInv` adds to the types

* `Order`: objects are made on S once each, in the order of their creation;
* `Retired`: a callback whose event is on the way back is already dead on S;
* `Maps`: no two live objects have one id of S's connection, and what is about to be inserted is S's newest object, so an insert
  overwrites no entry of a live one;
* `SameMeaning`: an id has a meaning in the proxy's table, one in each message on the link and one in S's maps (`Means`, `Names`). Wherever
  S's differs from the application's, a destructor of what S takes it for is between the two places on the link. An id is free again only after a
  destructor was forwarded, or after the event of the callback that had it, which found the callback dead on S; and the link is a queue.

The last is claimed until an event has gone astray. The attempt to prove it without that condition failed, and for a reason that is the code's:
with more ids than the run has (three, with six objects) TLC finds a request that reaches another object. The event of a callback
is read before the maps' insert and is named by an older application id, that of another callback; the proxy ends that one and frees its
id, though its object on S is alive; a bind that S's compositor refuses takes the id; and a request on it reaches the live callback. The property says so now.

`ReadbackProofs` proves, for any set of pixels and any number of frames and polls (from `ReadbackAssumption`), and whatever the window and the
end of the session do:

| theorem | statement |
|---|---|
| `Inductive` | `WindowSpec => []IInv` |
| `TypeCorrect` | `WindowSpec => []TypeOK` |
| `ReadsAreWhole` | `WindowSpec => []ReadIsWhole` |
| `WindowShowsIt` | `~ Word`: `WindowSpec => []WindowAgrees` |

That a read is whole is nobody's promise in particular: the cue may be an old answer, and a diff may catch the copy half done. `IInv` adds to the types

* `Heads`: heads go up on the link, and the last thing on it is a head whenever the progress thread is idle. So when C's head has reached the
  application's last command, nothing moves on S and nothing is on the way (`Settled`);
* `Commands`: the application has at most a submission and a poll outstanding, so an answer to the last poll is about the last frame;
* `Frames`: what was written to a pixel, what the GPU still has to write, and the submission not yet run add up to the frame's number;
* `Replies` and `Answers`: one answer for each poll run; they travel once and in order (`Joined`); and the answer that the application waits
  for lies in a pool it has not given back, so S still scans it;
* `Mirror`: the last message about a pixel, in hand or on the link, says what S's shadow says, and where there is none C's buffer does;
* `Fresh`: once the ring thread has answered yes, the GPU is done, and the pass that reports that answer finds it in the arena, whatever
  else is there, and diffs before it ships. After that S's shadow is S's memory.

`Teed` is for `WindowShowsIt`: the live frame is the shadow, as long as nothing but the frame is folded into it. `~ Word` is that condition, and `live_fold`
shows that the code does not ensure it.

**Only model-checked**: liveness, which is out of the prover's reach: `EveryCallReturns`, `EveryWriteIsDrained`, `WedgeIsNoticed`, `WindowCatchesUp`,
`EveryCallEnds`, `NoEventSleeps` and `NobodyWaitsForEver`. Every invariant and every other property of a passing run is also a theorem.

## 6. Where code and documentation disagree

Shown by a run:

* `blob_gap`: `take_app_blob_writes` merges runs up to 256 bytes apart in every application blob, so it
  ships bytes S never wrote; `blob.rs` and C's `blob_sync.rs` say that it never does, and the latter
  builds its no-echo argument on it. Harmless for a readback buffer that the application only reads, which is
  what the comment at the constant assumes.
* `live_torn`: the cue for folding the live frame may be an earlier frame's answer, so the window can show a
  frame half new and half old; `main.rs` and `present.rs` say it is known to be complete.
  What the *application* reads is whole (`ReadIsWhole`).
* `live_fold`: `apply_runs` folds the runs of any application blob, although its comment says that other sizes are
  ignored.
* `wayland_stale`: an event of an object that the application has destroyed meanwhile is delivered to
  the object that reused its id; `deliver_event`'s comment says that it is dropped.

Met while modelling, and modelled as the code has it:

* A `Hello` of another version yields an unsolicited `Error` and nothing else: S goes on applying what follows.
* `SyncWait` and the signals of `SubmitCmd2` store the value they name, so a timeline may go back.
* A send of an answer to C that fails ends `serve` with an error, and the process, window included; the comment on the window in
  S's `main.rs` says that it must outlive the session. It does when the link ends between messages (`Window`'s `ServeEnds`).
* Between `send_request`'s return and the maps' insert, another thread may read an event of the new object: the maps then lack it,
  or hold an older application id, and the event is dropped or misnamed, after which a request may go astray as well (section 5). A comment
  in `wayland_client.rs` says that a reverse entry only ever matches a live S-side object.
* `ship`'s comment on S says that the link is locked for each message; it is held for the whole batch, which is what the models rely on.
* The runs of a diff are not chunked, and the vtest server takes commands of up to 64 MiB. A message of more than MAX_FRAME_BYTES is written by
  `write_msg` and refused by `read_msg`, which ends that direction; `Link` has such messages (`large`).

## 7. Abstractions, and what is not modelled

* In `RelayRing`, `BlobSync`, `RingPark` and `Wayland` the link does not fail. `Session` has its failure for requests, `Window` for the
  end of a session, `Link` for each way by itself. A watcher that stops on a failed send, with its stall check, is in none.
* More than one ring or one context: the session sets Mesa's `no_multi_ring`.
* ring.rs's Gap 1 (the load of tail against the loads of the command bytes, on a weakly ordered C): loads are in order here.
* A store torn by a diff: cells are atomic.
* vtest: framing and field decoding, `accept_client`, the wire fence and the statistics.
* Wayland: arguments that are not one object, events that create objects, the list of globals, the accept path.
* The window: the dmabuf probe and path, pixel conversion, `FrameCapture`'s choice among several blobs.
* virglrenderer's bindings: `create_resource`, `read_back` and repacking, which no relayed session calls, and the EGL set-up.
* Transport: the runtime, TLS and QUIC itself, from which `Link` takes a reliable ordered stream of bytes each way that blocks when it is
  full; the bytes of a frame beyond its two parts.
* Diagnostics (the ring dump, the Venus decoder, metrics, trace): they decide nothing the relay depends on.
* The superseded first path (`rayland`, `rayland-client`, `rayland-server`, `rayland-wire`), the
  fixtures, and the encoders generated from Mesa's headers.

`PROJECT.json` maps about a seventh of the repository's Rust and C. Of the rest, a sixth is tests inside the source
files, and most is the superseded path, fixtures, diagnostics, and the set-up of Vulkan, EGL and TLS; the relay itself,
its engine, its vtest server, its Wayland replay and its window are what is modelled.

## 8. Plan

Done: `RelayRing` with `RingService`, `RingPark` and `StallClock`, each with its proofs; `BlobSync` with its proofs; `Readback` with `Window` and its proofs;
`VtestServer`, `EngineActor` and `Session` with their proofs; `Wayland` and `Link` with `Channel`, each with its proofs.

Left, in this order:

1. The failure of the link in `RelayRing`, with the watcher's stall clock: is the application released or ended?
2. The diff, the coalescing and the split at the buffer's end as functions, against their definitions.
