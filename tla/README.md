# A verification of zdh's HTTP/2 server

`zdh` is an HTTP/2 server written in Go with no dependencies outside the standard
library. This directory holds TLA+ models of its core, the TLC configurations that
check them, and machine-checked proofs about eleven of them. Every definition is a
translation of code under `src/`; `PROJECT.json` maps each one to its lines.

To check a run: `tlc -config Conn.cfg MCConn.tla`. To check the proofs about a
module: `tlapm Conn_proofs.tla`, and so on for the modules named `..._proofs`.

## The system

A process accepts connections (`server.Server`). Each connection has

- one **reader goroutine** (`server.conn`), which reads frames, handles those of the
  connection itself and hands those of a stream to the stream table;
- one **writer goroutine** (`server.frameWriter`), which takes frames from the
  scheduler and writes them in bursts;
- one **handler goroutine** per request (`exchange.Requests.start`), which reads the
  request's body, reports what it consumed and writes the response.

| Component | State | Operations | Called by |
|---|---|---|---|
| Accept layer, `server/server.go` | listeners, connections, slots, a wait group, `quit`, `closed` | `Serve`, `Shutdown`, `Close` | the command, one goroutine per connection |
| TLS handshake, `server/tls.go` | the socket's deadline | `handshake` | the accept layer |
| Connection, `server/conn.go` | read deadline and what it stands for, settings in force, `lastStreamID`, `quit` | `Serve`, `Shutdown`, `Close` | accept layer |
| Frame reader, `frame/reader.go`, the codecs in `frame` | the open header block: its stream, octets and frames | `ReadPreface`, `ReadFrame`, a parser per frame type | reader |
| Frame writer, `server/writer.go`, `frame/writer.go` | stop flags, queue bound, burst buffer, peer's frame size | `Enqueue`, `Shutdown`, `Close`, `Prioritize`, `Forget` | everybody |
| Scheduler, `server/scheduler.go` | control lane, incomplete field blocks, per-stream DATA, rings per urgency | `Push`, `Pop`, `SetPriority`, `Forget` | frame writer, under its mutex |
| Priority signals, `priority/pending.go` | signals for streams not opened yet | `Put`, `Take`, `Prune` | reader |
| Stream table, `stream/table.go` | live streams, the block under assembly, receive windows, credit ledgers, reported send-ends | `HandleFrame`, `ReportSendEnd`, `ReportConsumed` | reader; handlers |
| Exchange, `exchange/*.go` | requests still arriving, bodies | `Headers`, `Data`, `Trailers`, `Canceled`, `Close`, `Body.Read` | stream table; handlers |
| Send flow control, `flow/*.go` | the connection's and every stream's send window | `Reserve`, `Credit*`, `SetInitialSize`, `Open`, `Retire`, `Close` | handlers; reader |
| Response writer, `response/*.go` | the phase of one response; the shared HPACK encoder and the peer's list limit | `WriteHeader`, `Write`, `Trailers`, `Close`; `SetMaxDynamicTableSize`, `SetMaxHeaderListSize` | handlers; stream table |
| Reset limiter, `limits/bucket.go` | tokens and the time they were counted | `Allow` | stream table |
| HPACK, `hpack`, `huffman` | the dynamic table | `Decode`, `Encode`, `SetMaxDynamicTableSize` | stream table; response writer |
| Static files, `static/*.go` | a cache of entity tags and the hashes in progress, shared by all requests of the process | `Serve` | handlers |
| Stateless rules: `request`, `response/fields.go`, `static/conditional.go`, `ranges.go`, `path.go`, `priority/priority.go`, `sfv`, `h2` | none between calls | | |
| `certgen`, `cmd/zdh`, `attack` | tooling and composition | | |

The goroutines share four locks per connection (`Sender.mu` and `frameWriter.mu`, each
with a condition variable, `Table.mu` for what handlers report, and `Encoder.mu`, which
a response holds while it waits for room in the frame queue), one for the server and one
for the tag cache. Values cross goroutines in two deferred ways: a
handler *reports* (a finished response, consumed octets) and the reader *drains* the
reports when it handles its next frame. What makes the program hard is here:

- a condition variable with several kinds of waiters, in the sender and in the writer;
- a report that is drained late, while the peer already acts on what it implies;
- four maps of four owners keyed by stream, which must lose an entry together;
- a header block that takes several frames, with reports drained between them;
- HPACK tables at two ends, which must change in one order although many handlers
  encode, the peer resizes the table meanwhile, and frames wait in a queue;
- a cache keyed by coarse time stamps, filled from files that change while they are read;
- one socket deadline that stands for three timeouts and for an interrupt;
- stops that race with starts: of writers, of connections, of listeners.

`PROJECT.json` lists each hazard at its line with the properties aimed at it.

## Modules

Each specification module that TLC runs has an `MC` module with its model values and
one `.cfg` per run. `Next` has one action per operation, or per critical section where an
operation has several. Operators named `M_...` are variants with a plausible bug in
them; the specifications do not use them.

| Module | Models | Left to other modules |
|---|---|---|
| `FlowSender` | `flow.Sender` and `flow.Window`: an action per critical section of `Sender.mu`; `Reserve` is split at the points where a writer parks or returns | |
| `StreamTable` | the stream states, block assembly, admission, `exchange.Requests` and `Body`, the handlers. `HandleFrame` reads a frame and drains the reports; the action of the frame's type then does all that `dispatch` does with it | receive windows (a verdict on the frame here), send windows (their key set) |
| `Bucket` | the limiter of resets, as operators on a bucket and a time | what it limits (`StreamTable`, where a refill may happen at any time) |
| `RecvFlow` | receive windows and the two credit ledgers, with the wire in both directions and a peer that keeps to its windows | states and errors |
| `Outbox` | the abstract specification of a frame queue: order per stream, field blocks whole, and blocks and control frames in the order they were completed (`GetInTurn`) | which stream's content goes next |
| `Scheduler` | `server/scheduler.go`, an action per branch of `Pop` | |
| `FrameWriter` | `frameWriter` and `frame.Writer`, over `Outbox` in the scheduler's place | |
| `Priorities` | how priority signals reach the writer, by PRIORITY_UPDATE and by a request's Priority field: `conn`, `Pending`, `Requests.Headers` and the table's answers | |
| `Conn` | the reader goroutine from accept to close: handshake, preface, loop, `readError`, `Serve`'s endings, `gracefulClose`; `Shutdown` and `Close` of the connection; the read deadline | the stream layer (its verdict is in the frame's type), the writer (a bounded FIFO that is drained, cut off or lost) |
| `Server` | `server/server.go`, a step per section under `Server.mu` | connections (when they may end) |
| `FieldBlocks` | the abstract specification of a frame reader: blocks contiguous and bounded | everything else in a frame |
| `FrameCodec` | every parser in `frame` as an operator from a header and a payload to a frame or an error with its scope and code, and every `PayloadLen` | octets, which are counted |
| `FrameReader` | `frame.Reader`: preface, header, payload, and a peer that may close between any two octets | |
| `Hpack` | `Encode`, `Decode` and the dynamic table as operators on a table | integer and string codings, Huffman |
| `ResponseFields` | `checkSection` and all it calls, with a definition of a legal section beside it | |
| `Response` | the writers of one connection's responses, the encoder they share, SETTINGS that resize it, and the peer: its decoder and its reading of the message grammar | credit (`FlowSender`), which stream's content goes next |
| `Conditional`, `Ranges`, `Paths` | preconditions, `Range` evaluation and path resolution as operators, each beside a definition of what its RFC asks | spelling of dates, positions and escapes |
| `RequestRules` | `request.Parse` and `ValidateTrailers` likewise | |
| `Static` | `static.Handler`: requests of several clients over one tag cache and a file system that changes under them | media types, multipart layout |

The proofs about a module `M` are in `M_proofs`, which EXTENDS it: `FlowSender`, `FrameReader`,
`FrameWriter`, `Server`, `StreamTable`, `Conn`, `Priorities` and `Scheduler` have one.
Three modules have their proofs in another's: `Bucket` in `StreamTable_proofs`, with the
component it limits; `RecvFlow` in `FrameWriter_proofs`, whose lemmas about sums it needs;
and `Static` in `Server_proofs`, as both are shared by all connections of a process.

How they compose. `Scheduler` is shown to implement `Outbox` by the refinement
`Promise == INSTANCE Outbox WITH ...`, and `FrameWriter` and `Response` EXTEND `Outbox`,
so what holds of them holds for every order in which the scheduler may hand frames out:
`FrameWriter` for any order of lanes, `Response` for the order of completed blocks that
HPACK rests on. `FrameReader` is shown to implement `FieldBlocks`, which is what the
block assembly of `StreamTable` takes for granted. `Response` runs both ends of `Hpack`
against each other, and `Static` applies `Conditional`, `Ranges` and `Paths` in its steps.
`Conn` uses of the writer what `FrameWriter` checks (`GracefulStopDrains`,
`EnqueueReturns`), and `Server` uses of a connection what `Conn` checks
(`ShutdownEnds`): these are assumptions of the models, stated in their heads.

Abstractions shared by all modules. Octets of payload are counts, header blocks are
decodable or not and well formed or not (but in `Response`, where they are sequences of
representations), and errors are named by their kind. In the field rules a name or a
value is a sequence of tokens: an octet that some rule looks at, or a word of octets that
none does. A step of a goroutine that touches no shared state is merged with the next one.

## Runs

One passing run per component checks its invariants, its action properties and its
liveness properties together. The state counts are of distinct states; the longest run
(`static`) takes about three minutes.

| Run | States | Asks |
|---|---|---|
| `flow_sender` | 464 k | ledgers, bounds and wake-ups of the sender for two streams; every parked writer is released; spendable credit is spent |
| `stream_table` | 998 k | the table against a peer that breaks every rule it checks; the end of the connection releases every handler; the bucket of resets holds its rate (`RateIsHeld`) |
| `recv_flow` | 815 k | neither end loses count of receive credit; a quiet connection leaves the peer all but the threshold |
| `scheduler` | 361 k | the indexes agree; `Outbox` is implemented; urgency, signals and turns count |
| `frame_writer` | 402 k | stops drain, the wire ends whole unless a write failed, nobody sleeps through work, `Enqueue` always returns |
| `priorities` | 424 k | nothing is kept for a stream that cannot use it; the last frame about a live stream, or else the field of its request, governs it |
| `conn` | 917 k | deadlines, GOAWAY, farewell and release on every path; a connection asked to stop stops |
| `server` | 199 k | slots, stops that race with accepts, what `Shutdown` returns; every loop and every stop ends |
| `frame_reader` | 161 k | frames end where the peer meant them to; `FieldBlocks` is implemented; what is accepted would be written back with the same header |
| `response` | 1.2 M | the peer decodes what handlers meant, in messages it can parse; secrets stay out of the tables; the shared mutex holds nobody up for good |
| `static` | 5.2 M | the tag cache is true, clients are told the truth about their copies although reads fail, and the pure rules agree with their definitions on all short inputs |

Several properties are conjunctions of named parts that say one thing of one piece of
state; each part has its own comment in the module.

| Property | Parts |
|---|---|
| `FlowSender!WindowsAreSound` | `TypeOK`, `WithinBounds` |
| `FlowSender!WritersAreServed` | `CloseReleasesWriters`, `RetireReleasesWriter`, `CreditIsSpent` |
| `StreamTable!TableIsSound` | `TypeOK`, `ConcurrencyBound`, `OwnersAgree` (= `MapsInStep`, `ArrivingIsOpen`) |
| `StreamTable!BlocksAreHonoured` | `TrailersHaveTheirStream`, `EveryBlockDecoded` |
| `RecvFlow!CreditIsConserved` | `RecvTypeOK`, `NoFalseOverrun`, `ConnAgreement`, `ConnConserved`, `WithinInitial` |
| `Scheduler!IndexesAgree` | `TypeOK`, `RingsMatchQueues`, `CountsAreExact`, `NothingIsStuck`, `SignalsApply` |
| `FrameWriter!StopsEndWhole` | `GracefulStopDrains`, `WireEndsWhole` |
| `FrameWriter!WaitsAreRight` | `TypeOK`, `QueueIsBounded`, `NobodySleepsThroughWork` |
| `Priorities!NothingIsKept` | `TypeOK`, `BufferIsIdle`, `PrioritiesAreOfLiveStreams` |
| `Conn!DeadlinesAreTrue` | `TypeOK`, `InterruptStands`, `TimeoutsAreTrue` |
| `Conn!SaysWhatItMust` | `SettingsFirst`, `NothingUnsaid`, `GoAwayCovers` |
| `Server!StopSeesEveryConn` | `NoAddAfterZero`, `NobodyIsOverlooked` |
| `Server!NothingLeaks` | `TypeOK`, `SlotsAreExact`, `NoListenerLeaks` |
| `Server!StopsEnd` | `LoopsEnd`, `StopsReturn` |
| `FrameReader!FramesAreWhole` | `TypeOK`, `InStep`, `EOFIsClean`, `BlockIsKnown` |

One more run, `response_body`, is expected to fail: see "Where the source says something
else".

### Bounds, and why they are enough

- `FlowSender`: windows of at most 4 with an initial size of 2 and three frames of
  credit or SETTINGS. That reaches zero, negative and maximal windows, an overflow on
  each kind of window, and a SETTINGS that fails half-way through two streams. The
  safety proofs remove every one of these bounds.
- `StreamTable`: two request streams and an even identifier, one stream at a time, a
  reset bucket of one token, five frames: a request, its trailers over two frames, and
  a second stream that is refused or reset. The bucket's own arithmetic has no state but
  its own: it is evaluated once, where the exploration starts, on every sequence of four
  times from -1 to 7, for buckets of one and two tokens whose interval is one, two or
  four, with 6 as the longest duration there is.
- `RecvFlow`: windows of five octets with a threshold of two, the ratio of 65535 to
  32767; six octets on each of two streams, which is more than a window in total, so
  credit must go round for them all to be sent.
- `Scheduler`: five pushes (a section of several frames, DATA, a control frame and
  trailers) and one priority signal; two long responses of one urgency fit in them.
- `FrameWriter`: a queue of one frame, a high water of two, and three goroutines: two
  control frames, a field block of two frames, and another followed by content. Every
  caller meets a full queue, every field block the high water, and two blocks compete
  for the encoder. A write that fails may have put any part of its burst on the wire.
- `Priorities`: four streams, two at a time, each with a Priority field or without one. A
  field that says what its absence says is not applied (`exchange.go`, "The zero Params is
  skipped"), and neither is that of a request that is malformed: both are no field.
- `Conn`: a TLS connection, so that the handshake is there, the preface and three
  frames, a receive buffer of one frame, a queue of one frame, and timeouts of one or
  two ticks, the idle one the longer. The reader may be delayed past any deadline.
- `Server`: one listener, two connections, two slots, and one call each of `Shutdown`
  and `Close`, which may overlap. A connection may outlive any request to end.
- `FrameReader`: frames of up to 13 octets, enough for two settings or for a HEADERS with
  padding and priority; a limit of 15 octets and two CONTINUATIONs on a block, so that
  each limit is met and passed by its last frame; both sides of every bound in a setting.
  The number of frames is not bounded.
- `Response`: two responses of four calls together, a table of two entries, so that it
  evicts, blocks of two frames, a queue of one, and one SETTINGS, which shrinks the table
  and limits the lists, or empties the table. One section holds a sensitive
  field; two are malformed. `ResponsesAreMessages` is about what has been sent: that
  `finish` ends every response is not claimed, and of one the encoder refused it is not so.
- `Static`: two clients of three requests together, two files that several targets
  name, one of them rewritten in place or replaced, with the same size or another, at any
  step of any request; three ticks, a settling window of one, a cache of one entry, so that it evicts, and one
  read that fails, of a file that is being hashed or sent. Stale entries need a write between the stat of a file and the end of
  its hash, or two writes in one tick; both happen. Two writes and two requests pass too
  (7.7 M states). The pure rules are properties of no state: they are evaluated once,
  where the exploration starts (`AtStart`). Dates are in seconds of two ticks, so that a
  date may be older than the time stamp it stands for.

`CHECK_DEADLOCK FALSE` is in every configuration because every instance stops: inputs
are bounded, and connections, responses and servers end.

### Fairness

Only the program's goroutines are treated fairly, never the peer, a handler's decision
to return, or a caller of `Shutdown`. Weak fairness of a goroutine's step says that the
Go scheduler runs every runnable goroutine and that `sync.Mutex` hands itself to a
starving waiter. Beyond that: `FlowSender` and `StreamTable` assume that the deferred
`Close` follows the end of `run`; `FrameWriter` and `Conn` assume that a socket write
ends, because each burst has a write deadline; `Conn` assumes that time passes;
`Server` assumes that `Accept` returns when its listener is closed, and nothing of the
connections: `StopsEnd` holds although one may never end.

The other modules need no fairness. What would be liveness there is stated of states:
`TurnsComeRound` bounds the turns a response is passed over, `HalfWindowOnHand` says what
a peer has when nothing more can happen, and `WaitsEnd` that whoever waits for room in
the queue waits for a frame that can leave. `CacheIsTrue` says that whoever waits for a
hash waits for one that somebody runs.

## Where the source says something else

One run, `response_body`, checks a sentence of the repository's own comments, and TLC shows
an execution in which the code does otherwise: a header section that the peer's limit
refuses counts as written, so a body follows a header that was never sent. The sentence and
the lines are quoted in `PROJECT.json`.

Other disagreements are stated at the end of their modules, each beside the sentence it
quotes. They have no run of their own: TLC refutes them when the operator takes the place
of the properties in the module's passing configuration, with the constants that the
comment names, if any.

| Operator | What TLC shows |
|---|---|
| `StreamTable!ResetStreamsAreRetired` | a stream this server resets stays in the table, with its send window and its slot, until the peer ends it too |
| `MCStreamTable!FullBucketsBankNothing` | a full bucket keeps the time since it was refilled when it is asked within an interval, so the next token may come early |
| `RecvFlow!NoStall` | padding is debited and never returned: padded uploads stall |
| `Scheduler!BlocksAreContiguous` | a control frame of the stream whose field block is open is written inside the block |
| `Conn!StreamErrorsSpareTheConnection` | a stream error found by a parser ends the connection without a GOAWAY |
| `StreamTable!NotArrivingIsUnreachable` | DATA behind a malformed-content stream error ends the whole connection |
| `StreamTable!EntitledIsNotRefused` | END_STREAM is queued before the send-end is reported, so a peer's next request can be refused |
| `RecvFlow!CreditIsSwept` | a credit entry with less than the threshold on it is never swept |
| `FrameWriter!OldCapIsStillLegal` | frames cut at the old SETTINGS_MAX_FRAME_SIZE end the connection when it is lowered |
| `Priorities!AppliedWhenOpened` | a buffered signal is dropped when its stream's header block needs a CONTINUATION |
| `Priorities!DiscardedIsClosed` | after a PRIORITY frame, signals for idle streams are taken for signals for closed ones |
| `Priorities!CountIsExact` | streams that have ended count against the bound on signals |
| `Conn!NoReadOutlastsShutdown` | the handshake overwrites the deadline a shutdown brought forward (one handshake timeout late, not for ever: `ShutdownEnds`) |
| `Conn!DrainIsUndisturbed` | a shutdown cuts the drain after GOAWAY short |
| `MCStatic!InvertedIsInvalid` | positions past 2^63-1 are all read as 2^63-1, so an inverted range with both positions there is answered with a 416 where it is invalid and the file should be sent |
| `Server!ExpiredMeansCut` | `ErrShutdownGraceExpired` when every connection had finished |

Two more are not of one operator. `response/encoder.go:186` leaves it to the codec to
signal a new table size at the front of the next block, and the codec never emits one:
the peer of `Response` therefore resizes its table at the acknowledgement, and one that
insists on the signal (RFC 7541, section 4.2) would not decode. And `etag.go:51` says that
the read that makes a cached hash came after every write that could share its time stamp,
but the clock is read after the file was opened and asked for its time stamp: `CacheIsTrue`
holds when less than the settling window passes between the two (`MaxPause`; a window of
two ticks and a pause of one hold, a pause of the whole window does not).

The passing properties do not depend on these: `AnswersFollowTheRules` calls a range
inverted only when its last position is below 2^63-1 and can be told from its first
(`Ranges!Invalid`), `HalfWindowOnHand` counts padding and content nobody read (`lost`,
`Unread`), `LastSignalCounts` is stated of connections without blocks of several frames and
PRIORITY frames (`plain`), in `scheduler` control frames go to the connection and to the
stream whose sections are single frames, and `ResponsesAreMessages` excuses a stream that
was refused a section (`refused`).

## Proofs

`FlowSender_proofs` proves, for every set of streams, window size, set of inputs and
number of frames:

- `TypeCorrect`, `LedgerCorrect`, `WindowsAreSoundCorrect`, `NoLostWakeupCorrect`,
  `OneReasonCorrect`: the invariants of run `flow_sender`, and that a writer that is
  turned away is given the connection's one reason or its own stream's end;
- `SpendCorrect`: a step that spends credit spends what both windows held.

The assumptions are the module's four named ones: stream identifiers are positive,
the initial window does not exceed the maximum, increments and writes are positive
(the frame layer refuses a zero increment and `Write` never reserves nothing), and
errors given to `Close` differ from the sender's own.

The argument. No invariant is inductive alone. A stream's ledger is balanced when it
opens only because nothing was paid or spent under its identifier before (`Fresh`),
and a parked writer faces an empty window only because it asked for something
(`Asked`). `IInv` is the conjunction of the five invariants with these two facts.
`InitIInv` establishes it; one lemma per action of `Next` preserves it, the interesting
ones being `SetInitialSizeIInv` (the loop stops before the first window it would
overflow, and both sides of a reached stream's ledger move by the same amount) and
`TakeIInv` (the two debits of one `Reserve`); `StepIInv` collects them.
`SpendCorrect` uses `GrantLemma` and `SpendLemma`: only `ReserveTake` changes what a
stream has spent.

The second part of `StreamTable_proofs` is about the limiter, for every burst, rate and sequence of times, the
longest duration included: `NewBucketIsSound`; `AllowIsExact`, that a call is allowed
exactly when the bucket has an interval's worth of time; and `RateCorrect`, that a bucket
allows in all no more than its burst and one call for every whole interval since it was
made, which is the first part of the run's `RateIsHeld`. The only assumption is that a
second is positive. The invariant is an account of time (`Paid`): what was allowed, paid
in intervals, and what the bucket still has are no more than what it was made with and the
time since. `RefillMakesNoTime` and `AllowPays` say that no refill adds to it and that
every allowed call takes an interval from it; the products of tokens and intervals are
settled in leaves of their own.

`FrameReader_proofs` is for any limits, stream identifiers and settings. `ParsersAgree`
comes first and knows no state: whatever the header and the payload, each of the ten
parsers refuses with an error of its own, a stream's only where no header block is
carried, or returns the frame that was announced, with a payload as long when it is
written as when it was read. Then `FramesAreWholeCorrect`, `FramesRoundTripCorrect`, and
`KeepsBlocksPromiseCorrect`, which is the refinement of `FieldBlocks`. The invariant adds
to the properties what each phase of the reader takes for granted: nothing is in its hands
while it waits (`Waiting`), a header it reads a payload for has passed the checks
(`Checked`), and a frame in the caller's hands is one a parser accepted (`Held`).

`Server_proofs` is for any sets of listeners and connections, infinite ones too, and any
bound on the connections: `NothingLeaksCorrect`, `StopSeesEveryConnCorrect`,
`NilIsTrueCorrect`, and the action property `OnlyFallsCorrect`, that nothing is added to
the wait group or the set of connections once the server is closed. A connection is in one
pair of hands (`Hands`); only finitely many are in any at a time (`Finite`), so that slots
can be counted; a stop past its critical section has closed the server (`Stopped`), which
is why a count seen at zero stays there; whom the copy of the set misses was asked when it
was served (`Reached`); what a stop cuts it counts first (`Cuts`).

`StreamTable_proofs` is for any positive identifiers, bounds and declared lengths:
`TableIsSoundCorrect`, `NoStrandedHandlerCorrect`, `BlocksAreHonouredCorrect`, and the
action property `ClosedForGoodCorrect`, that no step brings a closed stream back. `admit`
counts the streams when a block begins, and the stream enters the table when it ends, so
the bound needs the slot to be kept in between (`SlotKept`). That a parked handler can be
released needs every request that stopped arriving to have a body that ended or failed
(`Settled`), and that a block is decoded needs the connection to be up exactly while no
error is recorded (`Up`).

`Conn_proofs` is for any timeouts, queue depth, frames and number of them:
`DeadlinesAreTrueCorrect`, `SaysWhatItMustCorrect`, `HandlersAreToldCorrect`. A deadline is
honest while nobody has asked the connection to stop: what is left of it and what was
waited make up the timeout (`Honest`), and `Shutdown`, the only one to shorten it, raises
its flag first (`Interrupted`). What the connection says is one sequence, however far the
writer is with it (`Said`); only the reader adds to it, and `Speech` counts there the
acknowledgements it owes. The writer stops when it was told to or when a write failed
(`Writer`).

`Priorities_proofs` is for any odd identifiers, priorities and bound on the streams:
`NothingIsKeptCorrect` and `LastSignalCountsCorrect`. The first rests on the reader's
high-water mark never falling behind the table's (`Marks`), the second on the buffer
holding the last PRIORITY_UPDATE about every stream that can still open, until a block
spans frames or a PRIORITY frame comes (`Remembered`). A request's field is applied before
what is buffered, so an older frame overrides it: `said` is the last frame, or else the
field, as RFC 9218 and `exchange.go` have it.

`Scheduler_proofs` is for any finite set of streams, any bands and any signals.
`IndexesAgreeCorrect`, `TurnsComeRoundCorrect` and the action property
`UrgentFirstCorrect` rest on `IInv`: rings are sequences in which nothing occurs twice and
hold exactly the participants of their bands (`InRings`), once frames are known to be where
their kind belongs (`Kinds`); and the turns a stream has let pass and its place in the ring
come to no more than the number of streams (`Turns`), which every serving keeps because the
ring turns by one. The counters count slots, the places of frames in the queues: a push
adds a block of them (`Grown`), a pop takes one, and the items behind the one that leaves
the lane move up (`MovedUp`). With them a count above zero means that something is pinned,
in the lane or in a ring, which is what `Pop` looks for (`FoundIs`).
`KeepsOutboxPromiseCorrect` is the refinement of `Outbox`, under the
hypothesis that control frames do not go to streams whose sections span frames
(`ControlStaysOut`): without it the code does otherwise, see `BlocksAreContiguous` above.
The refinement mapping lists all frames held for a stream by their numbers, wherever they
are, so the proof must know how the scheduler's pieces interleave. A piece is what is left
of the block being written, or an item of the lane. `OInv` says that pieces of one stream
follow each other and were completed in the order of the lane (`InLine`), that an open
block comes after all else of its stream (`Opened`), and that DATA lies wholly before or
after a piece of its stream, and never before the piece that is being written
(`Interleaved`), which is what lets `outOfTurn` send DATA past the head of the lane and
`serve` send any once the lane is empty. `Queued` says that the mapping enumerates:
`EnumerateMore` and `EnumerateLess` are then a push and a pop. Each step pushes one frame
(`Joins`), takes one (`Leaves`) or does neither, and `JoinMaps`, `LeaveMaps` and `QuietOInv`
map it to a step of `Outbox` or a stutter.

The second part of `Server_proofs` is `CacheIsTrueCorrect`, about `Static`, for any files,
versions and clients, and for any settling window longer than the pause between the
opening of a file and the reading of the clock (`MaxPause < Window`, the theorem's
hypothesis; without it the property is false, see above). A file that is found settled
was opened at most `MaxPause` before the clock was read, and its time stamp is a whole
window older than the clock: so whatever was written since it was opened carries a later
time stamp, and a file that still has the old one still has the old content. The other
parts of the invariant are that time stamps never run ahead of the clock, and that what a
request holds of a file was in it when it was opened.

`ClientsKeepTheTruthCorrect`, under the same hypothesis, follows each request from its
handle to its answer. `TruthIInv` adds to that invariant what is claimed of a request in
each phase while what it opened has not been rewritten (`Stands`): the handle's version is
still the inode's, the request is one about its client's copy, the octets hashed and those
sent with those still to send are the content's, and a finished answer says what the
property says (`Told`). Two more parts make the shared hash and the cache safe to answer
from: requests for one name and one version whose file is settled, or is being hashed for
others, hold one content (`Alike`), so whoever waits for a hash may be answered by it; and
an entry such a request would take is the tag of that content (`EntriesFit`), although the
name may by then be linked to another file. `JudgedTruth` is the step that counts: a
request judged by a tag that fits is told the truth, whichever way `serve` returns. When a
read fails while the content is sent, there was an octet more to send (`PiecesOctet`), so
what was sent is a beginning that stops short (`Beginning`): the property claims no more of
it (`Carries`), and no client takes it for a whole copy (`NotCut`). That
the spans of a 206 lie inside the representation (`VerdictIs`), and that its body is their
octets in order (`PiecesHead`, `PiecesOctet`), is about folds over sequences of any
length. The prover takes no induction theorem for them, so `Induct` states induction for a
set of naturals, from the well-foundedness of `<`, and the recursive functions behind
`parseRangeSet` and `FlattenSeq` are shown to exist and to be typed by it
(`ReadsExist`, `FlattenExists`).

`FrameWriter_proofs` is for any finite set of goroutines, any depth, high water and frame
sizes, and any scripts in which every field block that begins also ends:
`StopsEndWholeCorrect` and `WaitsAreRightCorrect`, the safety properties of the run. The
queue's length is a sum over the lanes. `SumIs`, `SumOfNaturals` and `SumOfChanged` say
what such a sum is and that changing one lane changes it by the difference; they are
proved for the library's fold by the smallest counterexample among the finite subsets,
which takes no induction theorem. Frames are numbered as in their script wherever they
are, in a caller's hands, in the queue or taken (`Numbered`), so the block that is part-way
into a lane belongs to the goroutine in the middle of `writeSection`, who holds the
encoder's lock (`OpenHoldsEncoder`). Only one goroutine does (`Alone`), so at most one lane
can be part-way through a block, and the queue had room when that block began (`Room`):
the bound of `QueueIsBounded` needs the lock, and is false when two blocks may be open.
`Pieces` says that a block part-way onto the wire has the rest of itself in the queue, so
a burst that may not stop inside a block (`mayTake`) never finds the queue empty there. Only
a write that failed part of the way ends inside one, and nothing is written after it;
`Drained` that a writer which ends without error or abrupt stop found nothing to take.

The second part of `FrameWriter_proofs` is about `RecvFlow`, for any finite set of uploads,
any window, any threshold up to a window, any payloads, padding and reads:
`CreditIsConservedCorrect` and `HalfWindowOnHandCorrect`, the properties of the run. Both
ends of every window are kept as accounts: what the peer has, what is in flight either way
and what handlers still owe it make up the window and what was granted
(`ConnAgreement`, `StreamAgreement`), and that with what is pending, unread, in a handler's
hands or lost makes up the initial window (`ConnConserved`, `StreamConserved`). Each step
moves octets between two places of an account; the lemmas about queues (`CarriedIs`,
`ReturnedIs`, `ChunksAre`) and about sums over the handlers (`HoldingChanges`) say how
much. The streams' accounts are needed for the connection's: a DATA frame is judged by
both windows, and since the peer's part of either account is never negative, the windows
hold the frame in hand once the ledger is drained (`FrameFits`), which is
`NoFalseOverrun`. For `HalfWindowOnHand` what is pending must be below the threshold
(`Pending`), and the stream of a parked handler must still be kept, which holds because
nothing follows the last frame of a stream (`InOrder`) and a stream leaves the table only
when its content ended or failed (`ParkedWait`).

Every inductive invariant was an invariant of its module's run before it was proved. The
assumptions are the named ones of the modules: identifiers are of the kind the wire allows,
bounds are naturals, positive where the code requires it, in `Scheduler` the set of
streams is finite, and in `Static` a range-set is a sequence of specifiers as the parser
splits them. The bounds on frames, pushes and signals do not matter to any proof.

Checked by TLC only:

- liveness (`WritersAreServed`, `EndReleasesHandlers`, `EnqueueReturns`, `StopsEnd`,
  `ShutdownEnds`): fairness is outside the prover's reach;
- the properties of `Response`, which rest on what `Encode` and `Decode` of `Hpack` compute
  by folds over a block, and the rules of `MCStatic` and `RateIsHeld`, which compare such
  computations with their definitions: induction over data, which the prover's induction
  theorems do not reach, and for which no argument like that of `Static` is written.

## Not modelled

- HPACK's integer and string codings with the limits on their octets, and the Huffman
  code: functions over octets without state, which the repository tests with the RFC's
  vectors. The tables, where blocks depend on each other, are in `Hpack`.
- Structured fields and priority parameters: parsers of one value, character by
  character; a model would repeat the grammar.
- In `static`: media types, dates, percent escapes and the layout of multipart bodies,
  which are wording; a writer that restores a time stamp, or renames a file of the same
  size and time stamp over another, which `etag.go` says no window can cover.
- Validation of timeouts and bounds, certificate generation, flags, signals, error names,
  and the repository's own test client.
- What a handler computes, other than the static files.

## Plan

Done, in order of importance: `FlowSender` with its proofs, `StreamTable`, `RecvFlow`,
`Outbox`, `Scheduler`, `FrameWriter`, `Priorities`, `Conn`, `Server`, then `FieldBlocks`,
`FrameCodec` and `FrameReader`, `Hpack`, `ResponseFields` and `Response`, `Static` with
the rules it and the requests rest on, and `Bucket` with its proofs. Then the proofs about
`FrameReader`, `Server`, `StreamTable`, `Conn`, `Priorities`, `Scheduler`, `FrameWriter`,
`Static` and `RecvFlow`.

Next theorems:

1. `Response`: `ResponsesAreMessages`, from the phases of a writer and the frames still on
   their way.
2. `MCStatic`: that `parseRangeSet` follows its rules, by the induction of `ParsedIs`.

Next modules: `Timeouts` and `Bounds` as assumptions of the modules that use them.
