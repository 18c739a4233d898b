# Sentinel OMS in TLA+

Specifications, model-checking runs and proofs for the order management system
of this repository. The subject is version 2: the Rust writer and the process
around it (`rust/crates`), which decide what is sent to a venue and what is
believed about it, the adapter and the streams that feed them, the journal they
write, the bytes and numbers it is made of, and the Go projector that reads it.
Paths below are relative to the repository.

## 1. Inventory

| Component | State it keeps | Operations | Talks to |
|---|---|---|---|
| Order lifecycle, `sentinel-domain` | none (pure) | `transition(order, event)` over ten states and nine events | called by the book and by the engine |
| Book, `sentinel-ledger` | orders, executions by id, positions, marks, balances, journal time, halt flag | `apply(record)`, readers, `stale_orders`, `check` | folded from the journal |
| Guards, `sentinel-engine/guards.rs` | none | `evaluate(book, intent, limits, halted)` | read the book |
| Engine, `sentinel-engine/engine.rs` | book, journal, `halted`, `position_confirmed`, the `reconciling` queue, uncommitted requests | `submit(command)` (ten commands), `flush` | journal, requests |
| Journal, `sentinel-journal` | segments, epoch, buffer, cursors | `claim`, `append`, `flush`, `roll`, tailing | files |
| Venue boundary and simulator, `sentinel-venue` | the venue's orders, positions, event stream, scripted faults | `submit`, `cancel`, `lookup`, `positions`, `drain_events` | venue worker |
| Process, `sentineld` | three threads, a control thread, two channels, a running flag | writer loop, venue worker loop, ticker loop, shutdown, boot check, control socket | all of the above |
| Binance adapter, `sentinel-binance` | symbols, clock offset, websocket thread | `connect`, the `Venue` trait over HTTP, the stream thread | venue |
| Fixed-point numbers, `sentinel-types` | none | parse, format, checked and saturating arithmetic, notional | everything |
| Position arithmetic, `sentinel-ledger/position.rs`, repeated in `go/internal/book` | size, cost basis, realized profit | `apply_fill` | folded by the book and by the projector |
| Risk, `sentinel-risk` | none; its caller feeds the trailing stop back | `atr`, `stop_distance`, `brackets`, `risk_sized_qty`, `trail_ratchet` | nobody yet |
| Record codec, `sentinel-record`, read again by `go/internal/record` | none | `encode`, `decode` | journal, readers |
| Go readers: tailer, book, fan-out, gateway, projector, strategy, tools | cursors, a projected book, bounded subscriber queues | tail, fold, publish, project, post to the control socket | journal, control socket |
| Version 1, Python (`src/sentinel`) | PostgreSQL ledger, asyncio tasks, instrument locks | the same lifecycle, a coordinator, a reconciler, a protective-exit supervisor | PostgreSQL, venues |

How they interact. Commands (operator, ticker, venue worker) enter one channel.
The writer takes a batch, applies each command to the engine, which appends
records to the journal's buffer and folds them into the book, and then flushes:
one `fsync`, after which the venue requests of the batch are handed to the venue
worker through the second channel. The worker alternates between forwarding
what the venue's stream pushed and performing one request; answers come back as
commands. Nothing but the journal outlives the process.

What is hard, and where the properties come from: a crash between accept, sync
and send; timeouts whose outcome is unknowable; events that overtake answers,
are repeated, or never arrive; several triggers reconciling the same order; an
exit measured against a position that is behind the venue; a restart that must
accept every book the running process can reach. `PROJECT.json` lists these
hazards at their lines.

What makes each component correct:

- *Lifecycle*: what was executed is recorded once, clamped to what was
  authorised; only a reconciliation revises a finished order.
- *Book*: positions equal executions, no order is overfilled, live exits are
  covered, and every log a crash leaves folds.
- *Guards*: one entry at a time, exits bounded by what is held.
- *Engine*: one question per order under way, a halt that was flushed outlives
  the process, an unproven order is eventually settled.
- *Process*: the venue is asked only for what is durable, and once.
- *Journal*: the sequences have no hole, what was synced is never lost, an epoch
  belongs to one writer, and whatever a crash leaves can be claimed again.
- *Projector*: the table is a prefix of the log, sent at least once and stored
  once.
- *Adapter*: one order per id whatever is repeated or late, and no conclusion
  that is not true.
- *Feeds*: what the engine applies is what was said, in order, and the drain of a
  stop loses nothing accepted before it.
- *Numbers*: no money appears or disappears, rounding does not add up, both
  languages agree, a loss stays within its budget, a record reads back as it was
  written.

## 2. Modules

| Module | Models |
|---|---|
| `OrderLifecycle` | the pure lifecycle: `Allowed` is `OrderState::allowed`, `Move` is `guard`, `ApplyFill`, `ApplyCancelConfirmed`, `Resolve` and `Transition` are the functions and arms of those names |
| `OrderMachine` | one order under every sequence of events, with the executed quantity as history |
| `Ledger` | the book: one operator per record kind of `Book::apply`, the readers, and `check()` |
| `Guards` | `evaluate`, `evaluate_entry`, `evaluate_exit` |
| `Engine` | one operator per handler of `Engine::submit`, from an engine to the engine after it |
| `Sentineld` | the composition: threads, channels, venue, crash, shutdown, restart; the properties; the refinement mapping |
| `SubmissionProtocol` | abstract specification of R1.1 to R1.3 |
| `Journal` | the log on disk and its one writer: `claim`, `append`, the two halves of `flush`, the two calls of `create_segment`, poisoning, the end of the process, a loss of power |
| `Projector` | `projectord` over `Journal`: the Go tailer, one step per read of the directory or of a file, the batch, `Insert`, `Commit`, and what may refuse, stop or kill it |
| `FixedPoint` | `fixed.rs` at any width and scale, with the parser of `fixed.go`: `Refused` is every error |
| `Position` | `position.rs` and its twin in `book.go`, folding the same fills side by side; a refused fill stops the writer |
| `Risk` | `sentinel-risk`, with the trailing stop as the one thing that has a history |
| `Codec` | the payload of every record: the field lists of `record.rs` and of `record.go`, and the field readers of both |
| `Numbers` | the four above in one specification; each behaviour works at one of them |
| `Binance` | the REST side of the adapter: one thread, one request at a time, its repeat, its timeout, the clock sync, `connect`; the venue is external |
| `Stream` | the websocket thread: listen key, frames, reconnects |
| `Feeds` | `Stream` and the control socket feeding the worker and the writer, and the way a process stops |
| `Engine_proofs` | lemmas about every operator of the book and of the engine |
| `OrderMachine_proofs`, `SubmissionProtocol_proofs`, `Sentineld_proofs`, `Log_proofs`, `Binance_proofs`, `Feeds_proofs`, `Numbers_proofs` | theorems; `Log_proofs` is about `Journal` and `Projector` |
| `MCOrderMachine`, `MCSentineld`, `MCLive`, `MCNumbers`, `MCBinance`, `MCFeeds` | instances for TLC |

Operators marked *Mutant* sit next to the definition they deform. Nothing uses
them: each shows, put in place of its neighbour, that a property notices a
plausible mistake in that code.

### State and abstraction

- *Journal as what it folds to.* `engine.synced` is the book the durable log
  rebuilds. `engine.tail` holds one image for each longer log an interrupted
  flush could leave, that is, one per record in the buffer. An image carries
  `folds`: whether `Book::rebuild` gets through it. `WriteAt` appends before it
  applies, like `write_at`, so a refused record makes every later image
  unfoldable. The crash action picks any of these logs; a roll in the middle of
  a batch, which syncs a prefix early, is one of those choices.
- *One instrument.* Every rule compares an order with the orders, fills and
  position of its own instrument only.
- *Total functions.* `orders` and `recon` map every id, with `NoOrder` and
  `NotQueued` for absence.
- *Execution ids* are tuples: the venue's own, the one `reconciliation_exec_id`
  derives from order and figure, and the adoption's.
- *From and to states* of a record are left out: the engine computes them by the
  transition the book then re-runs against the same book, so they agree.
- *Left out* of the engine's models: prices, marks, balances, cost basis (it is in `Position`), notes, trace values (only
  whether there is one), and decision records other than Halted and Resumed,
  none of which a handler reads to decide. Informational decisions change
  nothing a log rebuilds. An absent `max_position` is a large `MaxPosition`.
- *Commands of ticker and operator* are applied at any moment instead of being
  queued: whatever position they have in the channel, they are applied between
  two commands of the worker. A batch may end after any command, so a flush may
  happen between any two.
- *Ticker*: intervals are counted in ticks. `SweepEvery` ticks pass between two
  sweeps and the first tick is followed by one; it is 1 in every run.
- *Sweep*: ids are visited in order; the model leaves that order open and keeps
  an image for every non-empty subset, a superset of the prefixes.
- *Venue*: the simulator's behaviour, with quantities only. An order accepted
  silently never pushes an event. Over-matching, stream gaps and crashes are the
  environment, marked external in the map.
- *Shutdown*: the writer drains the channel and flushes, and errors are ignored.
  The worker's last request is taken to be performed before the flag falls; it
  commutes with everything the writer does after. An answer it posts after the
  drain is lost, which the crash action covers.

The journal and its reader:

- *Frames, not bytes.* A file is the whole frames it holds and whether bytes of
  an unfinished one follow. A segment is full at `SegmentTarget` frames. The
  payload of a record is the run of the writer that appended it, enough to tell
  two records with one sequence apart.
- *Two views of a file.* `files` is what every process reads, from the moment of
  the write. `safe` and `kept` are what a sync made certain. Syncing a file is
  taken to keep its directory entry as well, as common file systems do for a
  file that was just created. A loss of power keeps any longer prefix of the
  frames, possibly a torn one behind it; a file that was never synced may lose
  its header or vanish.
- *A failed sync* leaves the written frames where they are; the writer is
  poisoned, and the next claim finds them, as a reader may have.
- *A roll that fails* is the end of the process in `CreateSegment` or
  `WriteHeader`: `sentineld` stops on every error of `flush`.
- *One frame is read at once.* The tailer's reads of a frame's two parts are one
  step; listing, opening, the walk to the start and each frame are separate.
- *The projector* may start and die at any time, which includes what
  `docker/run.sh` does (it starts it once). A refused insert may have been
  applied: `Refused` is possible after `Insert` too. A signal is also taken in
  the middle of `Next()`, after it moved to another file, where nothing has
  changed that the flush would see.
- *The cursor* is renamed into place and not synced, so a loss of power may
  bring back any earlier one, or none.

Numbers and bytes:

- *Width and scale are constants.* The run has eight bits and two decimals, so
  that both ends of the range are a few fills away. The relation the code asserts
  between `MAX_WHOLE` and the range is `WidthAssumption`.
- *At the smallest number* the two languages part: Rust's `abs` is one unit
  short, Go's wraps. `past.floor` records that a size or a basis stood there, and
  `MoneyConserved`, `RoundingIsBounded` and `ProjectionAgrees` claim nothing from
  then on. (For the rounding the proof found it: a basis at the smallest number is
  apportioned one unit short, and the share taken may then be two units short,
  which the sizes and prices of the run do not reach.)
- *A trade is asked for with* a share to risk and a leverage that are not
  negative, and bars of non-negative prices that close between their ends
  (`TradeAssumption`). The crate checks neither; everything else it is given may
  be any number of its type.
- *Byte widths are scaled down but stay different where the code's differ*: a
  byte has 16 values, an `i64` two of them, and no two text widths are equal.

The adapter:

- *The venue* answers as the adapter relies on: a 4xx means nothing was done, an
  id is refused while an order under it is open, a signed request is refused
  outside its receive window. A 5xx, a cut body or a broken connection may hide
  that it acted.
- *Time* is the venue's clock; the local clock is ahead of it by `skew`, which
  may be stepped. A request given up on stays in `late` and may still arrive.
- *Stamps* of requests that are not signed, and the sending time of those that
  are not clock samples, are not kept.

Feeds:

- *Control*: a line is a command or "bad". One connection at a time is served, so
  the lines are one sequence. Its answer says that the channel took the command.
- *Stream*: what is pushed while nobody is connected is missed and not numbered
  on any connection. A frame carries the id of its trade; an account update is
  how many of its balances can be read, each an event of its own, and an event
  knows its place in its frame.
- *The writer* leaves in three ways: a fatal error, the drain and the last flush
  once it sees the flag, or at once after a flush whose requests nobody receives,
  because the worker has already left on the flag. The third is neither a drain
  nor an error; `undrained` records that it happened. Requests are not carried in
  this model: any batch may hold one (the ticker's sweep asks for the positions),
  so the return is possible after any flush behind the worker's end. `Sentineld`
  has it in `Crash`, which drops what is queued.
- *main* exits after its pause whatever the others are doing; the pause is not
  measured, so it may always be too short.

## 3. Runs

Every bound is a constant: `MaxNow` (ticks), `MaxFaults` (failures of the venue
or its stream), `MaxCrashes` (crashes and shutdowns), `MaxReplays` (repeated
places, cancels, halts, resumes), `MaxQueue` (the ticker waits while that many
messages are queued), `MaxGross` (executed quantity). Deadlock checking is off
where the bounds, or a process that refused to start, end a behaviour. The
journal has `MaxSeq` (records), `MaxClaims` (runs of the writer), `MaxFailures`
(writes and syncs that fail), `MaxLosses` (losses of power), and the projector
`MaxStarts` and `MaxRefusals`.

Passing:

| Run | Instance | Shows |
|---|---|---|
| `order_machine` | orders of 1..3, executions and answers of -1..7, gross up to 9 | below zero, at the order, past it and past twice it, in every state: `RecordedIsClampedGross`, `FilledMeansCovered`, `OnlyReconciliationRevises` |
| `crash` | an entry of 2 units, a second one of 1 or an operator command (`EntryOrReplay`), every kind of failure once, one crash or shutdown, two ticks | `IntentBeforeVenue`, `SubmittedOnce`, `OneQuestionPerOrder`, `FillsAccounted`, `OneEntryAtVenue`, `HaltOutlivesProcess`, `ReconcilingUntilAnswered`, `ImplementsSubmission` |
| `exits` | an inherited position of 2, two exits of 2, two failures, two operator commands | `NothingDropped`, `AdoptedOnce`, `NeverOverExit`, with no event lost (see below) |
| `live` | one entry of 1, every failure that is silent or delays, endless clock written to the journal every second tick | `UnprovenIsResolved`, `EndIsLearned` |
| `journal` | four records, segments of two, two runs of the writer, one failed flush, one loss of power; two runs of the projector, batches of two, one refusal | `LogIsGapFree`, `DurableSurvives`, `EpochsAreExclusive`, `ProjectionIsPrefix` |
| `numbers` | numbers of -128..127 in hundredths: texts of up to 5 of 8 characters, up to 5 fills of 3 sizes at 4 prices, 10368 trades, 3 marks at 3 distances, records of every kind with empty, short and full texts and numbers at both ends, one of them cut, lengthened or changed | `TextIsExact`, `MoneyConserved`, `BasisFollowsSize`, `RoundingIsBounded`, `ProjectionAgrees`, `LossIsBudgeted`, `RangeCoversGaps`, `StopIsTightestDue`, `RoundTrips`, `WrongLengthIsRefused`, `ReadersAgree` |
| `binance` | one order on the second of two symbols, two calls, one failure, four units of time, two samples per sync, a process that may restart for one symbol only | `PlacedOnce`, `OutcomesAreTrue`, `AbsentIsFinal`, `ClockWithinTrip` |
| `feeds` | three lines, two frames (a trade, an account update with no readable balance or two, an expired key), one broken connection, one fatal error, a stop at any time | `FedInOrder`, `DrainKeepsAccepted` |

Why the bounds are enough for what is claimed of them: two units make a partial
fill, a completing one and an over-match differ; two ticks pass `StaleAfter`, so
the sweep reconciles a live order while its answers are still in flight; one
crash at any point, with every image of an interrupted flush, is every crash
window of one order; a second entry of one unit is the smallest that can join a
half-filled first one at the venue; two exits of the full position are the smallest race that
can oversell; four records in segments of two give a group that overshoots a
segment, a roll after a claim, an empty last segment under the next claim and a
reader that has two files to cross. A size of 127 overflows in two fills and one
of 3 leaves remainders in every division; a window of two units in four of time
lets a request be late, dead, or both at once; two frames make a pair on one
connection or on both sides of a reconnect, and two balances a pair in one frame,
which is all `FedInOrder` compares. They are small instances and no more than that; what holds for
every instance is in section 5.

Runs that find the code at odds with what the repository says of it (the quotes
are in `PROJECT.json`):

| Run | Disagreement |
|---|---|
| `poison` | a refused cancel is flushed to the log, and the log no longer folds: the process cannot start again. A place repeated during a submission that is then acknowledged, and a sweep of a submission that is then answered, do the same |
| `double` | the correction of a lookup and the execution behind it, still in the stream, are both booked |
| `forgotten` | an order that was reconciling when the process died is never looked up again |
| `undrained` | a command accepted before the stop is lost: the flag falls while the writer flushes, the worker leaves and drops its receiver, sending the requests of the batch fails, and the writer returns without the drain and without an error |

Seen while modelling, without a run of their own. In the engine, the journal and
the projector:

- The event of an exit that filled is lost and a cancel ends that exit: the book
  still holds what the venue has sold, and the next exit sells past flat, against
  R1.10 of `docs/REQUIREMENTS.md` ("Exits are bounded by reconciled position").
  Adding `StreamGap` to the failures of `exits` shows it.
- The double booking of the run `double` can complete an order in the book that
  the venue has half filled and still works, and `evaluate_entry` then lets a
  second entry in. `OneEntryAtVenue` is stated while the book counts no more than
  the venue executed; without that the run `crash` shows it.
- `create_segment` creates the file and writes its header in two calls. A kill
  between them leaves an empty last segment, `scan_segment` cannot read its
  header, and no later `claim` gets past it, against `writer.rs` ("Claim the
  journal, recovering whatever is there"). `writer.pc = "down" => Scannable`
  states the opposite, and TLC refutes it over `Journal`.
- The Go tailer takes the size of its file, finds no whole frame, and only then
  lists the directory. A flush and a roll in between make it move on past frames
  it has not read, and it reports `ErrSequenceGap` ("A hole, not a gap to read
  past") in a log that has none; the projector ends.

- `perform()` posts nothing when a lookup returns an error. The question stays
  in flight and no backoff repeats it, against the comment there ("the reconcile
  backoff asks again"). Adding `LookupError` to the failures of `live` shows it.
- `evaluate_entry` lets an entry against the position pass while an exit is
  live. Exit placed, entry placed, entry filled: the live exits exceed what is
  held, against `invariants.rs` ("true of the book at every instant"), and a
  start from that log refuses the book.
- The control socket accepts an order without a trace, and the next start
  refuses a book that holds one.
- A group is visible to readers from the write, before its sync, against
  `docs/rewrite/JOURNAL-FORMAT.md` ("visible to readers only after `flush`").
  After a loss of power the sequences are used again, and a table that has the
  old records keeps them. `ProjectionIsPrefix` is stated without such a loss.

One more: `apply_fill` compares the gross ceiling with the
recorded quantity, which is clamped to the order, so an order in RECONCILING
accepts executions far beyond twice its size, against the comment on
`OVERFILL_GROSS_MULTIPLE` ("beyond this multiple ... both must halt").

In the adapter:

- The repeat of a refused request reads every status for its body, so a 5xx on
  the repeat is reported as a rejection, although two lines up a 5xx "may have
  acted anyway". `OutcomesAreTrue` sets those apart (`guess`).
- The first lookup comes one second after a timeout and the receive window is
  five seconds, so that `Absent` can be overtaken by the request it is about.
  `AbsentIsFinal` is stated for lookups begun after the window.
- An order on a symbol that is no longer configured is not asked for, and
  `find_order` reports it absent.
- A cancel refused with `-1021` does not sync the clock, unlike the other calls.
- A local clock stepped back during a sample measures a trip of zero, and that
  sample wins.
- The notional is checked before the limit is rounded down to the tick, and a
  sell's limit rounded down is below the authorised price.
- `stream.rs` says of its read timeout "Bounded, so the keepalive is reached even
  when the venue says nothing". It is set on plain connections only; on TLS a
  silent connection blocks the thread. The backoff is never reset.

At the control socket and the stop:

- `runtime.rs` says of the drain "no accepted command is lost at shutdown". Apart
  from the run `undrained`, one is lost when it arrives between the last look at
  the channel and the end of the writer, after a fatal error, or when the drain
  outlasts the 300 ms that `main` waits (the writer may sleep 500 ms before it
  sees the flag). `DrainKeepsAccepted` is about what was accepted before the stop
  and a writer that ended without an error: the drain loses none of it, and a
  writer that left undrained lost only the last of it.
- The drain ignores fatal errors and flushes behind them, and the venue requests
  of the last flush are not sent.
- A limit or stop price that does not parse makes a market order, and an unknown
  authority makes an entry. One connection held open blocks every other client.

In numbers and bytes:

- `fixed.go` checks the whole part only, so it wraps for the last units past the
  range, where Rust refuses.
- `applied` is read as any byte but zero, next to flags that are "Refused rather
  than coerced". Go accepts order kinds, actors, causes and text that Rust
  refuses.
- `InlineStr::new` accepts a text with a zero byte that `from_padded` refuses.
- `docs/rewrite/JOURNAL-FORMAT.md` describes version 1 and the code writes 2.
- A position whose value at the mark does not fit is shown with no unrealized
  profit.

`exits` checks `NeverOverExit` without lost events, and `crash` does not check
`LogFolds`: those statements fail beyond that, as the runs above show.
`UnprovenIsResolved` is checked in `live` without a crash and without a lookup
that returns an error, for the same reason.

### Fairness and time

The writer, the worker and the ticker are loops that block only on their
channels with a timeout, so each is weakly fair; a supervisor restarts a process
that ended, so `Process` is too. The venue and operators owe nothing: no fill,
cancel or acknowledgement is ever assumed. Failures are bounded in number, which
is what "the venue eventually answers" means here.

`FairSpec` states this as weak fairness. `LiveSpec`, for the larger run, writes
it as `[]<>~Ready \/ []<><<A>>_vars` with the readiness of each thread spelled
out beside it (`WriterReady`, ...): what `WF_vars(A)` means when `Ready` is the
enabling condition, and much faster for TLC than `ENABLED`. The clock never runs
out: at `MaxNow`, `Rebase` (part of the ticker's fairness) moves every time in the state back by one. The code only compares times
with each other, and a time that is already 0 is older than `StaleAfter` either
way (`HorizonAssumption`). `TickWriteAfter` is 2 and `StaleAfter` 1, so the time
the book holds, by which evidence is stamped and the sweep judges staleness, lags
behind the clock between two written ticks. `MaxQueue` makes the ticker wait for a venue that is
behind; without it the request channel grows for ever, as it would in the code.

## 4. Refinement

`ImplementsSubmission` states that `Sentineld`, under the mapping `Stage`,
implements `SubmissionProtocol`: an order is *volatile* while only memory knows
it, *released* when its request is in the channel, *sent* when the venue was
asked, *abandoned* when it is durable and no request is left. Flushing releases
everything volatile; dying abandons what was released or had reached the disk
and forgets the rest. The run `crash` checks it, and
`ProcessImplementsSubmission` proves it for any set of orders and all bounds: an
order that was sent or abandoned is never sent again, through any number of
crashes, because `SubmissionProtocol_proofs` proves that of the protocol.

## 5. Proofs

`OrderMachine_proofs` proves for all sets of sizes and every bound:

- `TypeCorrect`, `ExecutionsAreRecorded`, `CoveredOrdersAreFilled`: the three
  invariants of the run `order_machine`. The inductive invariant `Inv` is their
  conjunction. `FilledMeansCovered` is not inductive alone: `FillTarget` decides
  on the recorded quantity, and only `RecordedIsClampedGross` relates that to
  what was executed.
- `ReconciliationRevises`: the action property `OnlyReconciliationRevises`.

They rest on three lemmas about one application of `transition()`
(`SignalOutcome`, `FillOutcome`, `ResolveOutcome`) and on the assumptions
`QuantitiesAssumption` (an authorised quantity is positive, which
`EconomicOrderIntent::new` enforces) and `FillSizesAssumption` (sizes are
integers). `MaxGross` only bounds which executions are offered.

`SubmissionProtocol_proofs` proves for any set of orders that stages are typed,
that *sent* and *abandoned* are final and that only what was released is sent.

`Log_proofs` proves of the journal, for every segment size and any number of records, runs,
failures and losses of power:

- `JournalIsGapFree`: the sequences of the log count from 1 through all its
  segments.
- `DurableIsKept`: a record that a flush reported synced stays in the log.

Neither is inductive. `JournalInv` adds `Shape` (every file but the last was
synced whole before the next one was created, and of the last only what was
written is safe), `WriterInv` (where the last file ends for each step of the
writer, and that its buffer counts on from there) and `DurableIsSafe` (a durable
record is among the safe frames of some file, which is what a loss of power
respects). The lemma that carries the claim is `LastFrameIs`: the last frame of
the last file that has any is the one before the end of the last file, because
only the last file can be empty. There is one lemma per action, over two that
say what replacing the last file keeps (`KeepsLog`, `KeepsSafe`).

- `EpochsStayExclusive`: an epoch belongs to one run of the writer, and never
  goes back along the log. `EpochInv` adds that while a writer is up no record
  has a later epoch, those of its epoch are its own, and so is its buffer. A
  claim looks at one frame; `LastFrameLogged` says that frame is a record of the
  log and no record has a later sequence, so none has a later epoch.

It proves of the projector, for every batch and segment size and any number of
refusals, deaths and restarts:

- `ProjectorIsTyped`: with `Placed` (the tailer lists no file that is not there,
  and sends only a batch that holds something), so no read is out of range
  although the writer acts between a listing and the read it is for.
- `TableIsPrefix`: `ProjectionIsPrefix`. `Projected` adds that the batch is
  consecutive, ends just before what is wanted next and leaves no hole behind
  the cursor, that the cursor is 0 or the sequence of a record, and that the
  file the tailer was opened on begins at or below what it wants. A row that
  `Insert` leaves out is the same record, because a sequence names one record of
  the log (`SequencesAreUnique`); a step of the writer only adds behind every
  sequence there is (`LoggedGrows`, `BufferAfterLog`).
- `JournalBesideProjector`: the projector leaves the journal alone, so what is
  proved of the journal holds of it there.

TLC checks `JournalInv`, `EpochInv` and `ProjectorInv` on the instance of the
run `journal` as well.

`Sentineld_proofs` proves of the whole process, for any finite set of orders and
all bounds on faults, crashes and replays, the properties of the run `crash` and
type correctness: `ProcessIsTyped`, `IntentPrecedesVenue`, `EachSubmittedOnce`,
`OneQuestionEach`, `FillsAreAccounted`, `HaltsOutlive`,
`OnlyAnswersReconcile` and `ProcessImplementsSubmission`. The assumptions are
those of the modules: `OrdersAssumption`, `ConfigAssumption`,
`MaxPositionAssumption` and `BoundsAssumption`. The inductive invariant is
`SentineldInv` (`InvariantHolds`), in five parts:

- `WriterInv`: the engine is well formed (`EngineOK`). The book it has, the one
  its durable log rebuilds and every image of a longer log are *sound* (`BookOK`:
  a position that is the sum of its executions, quantities within what the
  lifecycle allows), each has the orders of the ones before it, as far from
  their submission or further (`After`), and the halt flag is the book's.
- `WorldInv`: types, and that the venue fills no live order past its quantity.
- `RestInv`: without a process there are no channels and no requests.
- `QuestionInv`: of each order at most one question or answer is in the engine,
  the requests and the commands together, and the reconciling map knows of it.
  `OneQuestionPerOrder` counts the same places but is not inductive without
  the map.
- `SubmitInv`: the engine holds one request for exactly the orders it has
  accepted and not flushed; past the flush an order has one request or one
  submission, and the durable log has it begun. `IntentBeforeVenue` and
  `SubmittedOnce` each follow, and neither is inductive: both need that a flush
  releases what only memory had.

The argument goes bottom up. The first part of `Engine_proofs` shows what each event does to a
book: it stays sound, and no order in it is lost or set back. Sums over sets
(`BookedQty`, `CommittedToExits`) have no induction principle the provers can
apply, so `MapThenSumSet` is handled by its least counterexample (`WFMin`): the
smallest set for which adding one member does not add its value.
Its second part states one relation `Kept(e, f, X)` between an engine and the
one after a handler (still well formed, the same durable log, a later book in
which nothing but X stopped reconciling, at most one new question about an order
that had none, no new submission, and from a halted engine only to a halted one
whose new logs rebuild halted) and proves it of every handler that authorises
nothing (of the operator's resume, all but the last part); it is transitive, so a handler that calls others composes. `Placed` is
what authorising an order does. In
`Sentineld_proofs` every action then keeps the five parts, steps as the protocol
steps or leaves the stages alone, ends no reconciliation but by an answer, and
keeps a halt that is in every surviving log there (`StaysHalted`).
`HaltOutlivesProcess` also says how the halt gets there: a flush makes the
engine's book the durable one, and `EngineOK` has that book halted
(`DurableHalts`). A halt not yet flushed is lost with the process that decided it,
and nothing is claimed of it.
TLC checks `SentineldInv` on the instances of `crash` and `exits`.

`Binance_proofs` proves the four properties of the run `binance` for any sets of
orders, symbols and configurations, every receive window and timeout, and any
number of calls, failures, restarts and requests on their way:
`OrdersArePlacedOnce`, `EngineIsToldTheTruth`, `AbsenceIsFinal` and
`ClockStaysWithinTrip`. `AdapterAssumption` says that every order has a symbol
with rules and that the times are numbers, `NoneAssumption` that the absent case
of an option is none of its values. The inductive invariant is `AdapterInv`:

- `Waiting` and `TaskOK`: the request that is out is the one its call is at, and
  a call about an order is about one that was submitted.
- `OneCopy`: until an order is taken there is at most one copy of its request, in
  `req` or in `late`; once it is taken none is left in `late`, and the one in
  `req` has its answer. Every copy carries the first
  timestamp, and the order was taken within the receive window of it.
  `PlacedOnce` is one conjunct of it and is not inductive: the venue accepts an
  id whose order is done, so what matters is that no copy is left.
- `Honest`: what an unread answer says of the venue is still true. A repeat makes
  a second copy, and is safe because a refusal that is repeated (4xx) says that
  nothing was taken.
- `ToldOK`: each outcome is true, and a rejected order has no copy left (`Over`),
  without which a stray could make it untrue later.
- `Asked`: while no symbol has failed to answer, an order whose symbol is loaded
  and no longer to be asked was not there when the search began.
- `ClockOK`: each sample brackets what the venue read unless the clock was
  stepped, and the best is the shortest; `MidpointWithin` is then arithmetic.

`AbsenceIsFinal` combines three: the order was not taken before the search began
(`ToldOK`), it can only have been taken within the window (`OneCopy`), and the
search began after it. There is one lemma per action, over two that say what a
step of the adapter (`StillKeeps`) and one of the venue (`VenueKeeps`) preserve.
TLC checks `AdapterInv` on the instance of the run `binance`.

`Feeds_proofs` proves the two properties of the run `feeds` for any lines and
frames and any number of connections, commands and errors: `AppliedInOrder` and
`AcceptedIsDrained`. It assumes only that the number of readable balances of a
frame is a number (`ReadableAssumption`). The inductive
invariant `FeedsInv` follows what is on its way, not only what was applied:

- `SaidInOrder` and `ReadInOrder` are the halves of `FedInOrder` about one source,
  stated of `Feed`, the commands applied followed by those in the channel.
- `OnTheWay`: along pushed frames, socket, events and `Feed` the serials, and within a frame the
  places, rise, and
  each place holds only what is later than all of the place it feeds.
- `NoGap`: while the writer listens, a decoded frame before one that is still
  somewhere is somewhere too, and so is every one of the connection being read.
  That what was *applied* has no gap is not inductive: a frame lost from a queue
  only shows once a later one is applied. Once the writer has ended nothing more
  is fed, and only the part about `Feed` remains.
- `Stopping`: what was accepted in time is in `Feed` until the drain and among
  what was applied after it, unless the writer left undrained, and a writer
  that ended without an error has flushed all it applied. That what an undrained
  writer lost is the last of what was accepted follows from `SaidInOrder` of `Feed`.

`Numbers_proofs` proves of the run `numbers`, for integers of any width, every
scale that is a power of ten and any constants that satisfy the assumptions
(`WidthAssumption`, `FillAssumption`, `RiskAssumption`, `TradeAssumption`,
`CodecAssumption`, and `RecordAssumption`, that the records written are records as
their types have them):

- `MoneyIsConserved`, `BasisIsSigned`, `RoundingStaysBounded` and `TwinsAgree`,
  about any number of fills. The inductive invariant `BookInv` states them of the
  position alone, without a mark: the basis is on the side of the size; realized
  less basis plus the money moved is within one unit per turned position
  (`Balanced`); and basis times scale is between size times the lowest price less
  a unit per fill that added and size times the highest price plus a unit per
  fill that took (`Within`). They need each other: a share is only taken exactly
  if the basis has the side of the size, and Go computes the same share only of
  numbers above the smallest. The lemmas underneath are about truncated division
  (`TruncIs`) and what `apply_fill` returns in its four cases.
- `StopOnlyTightens`: `TrailInv` says what the code keeps instead of the history,
  that the watermark is the best mark seen and the stop the tightest due at any.
- `LossStaysBudgeted`: the size is a quotient rounded down, so times the distance
  it is at most the budget, and the brackets and the stop's own test put no open
  mark further away than the distance. Products of three unknowns are split into
  monotone steps.
- `RangesCoverGaps`: each true range is at least the move of the close, and the
  mean rounded down loses less than one step per bar. Two folds are compared, so
  each is first shown to be a table of partial sums (`Totals`), and the tables are
  compared at the least place where they could differ.
- `ReadersTellOneStory`: by the same means the walk of each reader over a list of
  fields is a table of walks (`Walks`), equal at every place as long as
  `record.rs` refuses nothing, because the lists are the same (`FieldsOfKind`,
  `FieldsOfEvent`) and whatever `Get` accepts `GoGet` reads alike (`GoReads`). It
  assumes nothing of the bytes.
- `WrongLengthsAreRefused`: the bytes of a record are one more table (`Encodes`),
  which grows by the width of each field, and so does the place a walk has reached
  as long as nothing is refused (`WalkMeasures`). Of an order event the fields
  depend on what is read: the event's byte is behind five fields of fixed width,
  so bytes that start like the record hold the same event there (`EventRead`).
  Both walks therefore end where the record that was written ends, and `finish`
  refuses any other length. `LengthInv` keeps what the damage was done to, and
  that the record is one as its types have it (`IsRecord`).
- `RecordsRoundTrip`: a value of a field's type comes back from the bytes it is
  written as (`ValuesReturn`), type by type: the digits of a number are worth it
  modulo what they can hold (`LittleIs`) and the sign is in the upper half
  (`NumbersReturn`), a text ends at its padding (`TextsReturn`). Each field stands
  in the bytes where those before it end (`FieldWritten`), so the walk recalls one
  field more at each step (`FieldReturns`) and at the end has the record.

TLC checks `FeedsInv` on the instance of `feeds`, and `BookInv` and `TrailInv` on
that of `numbers`.

Model-checked only:

- liveness (`UnprovenIsResolved`, `EndIsLearned`), which is out of the prover's
  reach;
- `NothingDropped`, `AdoptedOnce`, `NeverOverExit` and `OneEntryAtVenue`. They
  hold for the failures their runs allow and not beyond (section 3), so a theorem
  would have to assume those failures away;
- `TextIsExact`: what folds over the digits of a text compute, position by
  position, with powers of ten.

## 6. Not modelled

What is left, and why:

- *Go: the fan-out, the gateway, the strategy, the operator tools.* They read
  the journal and post to the control socket, and decide nothing about an order.
  The fan-out's bounded queues and the strategy's reconcile step are the parts
  worth a model of their own.
- *The projected book* beyond its arithmetic: it trusts the to-state of each
  record and runs no lifecycle.
- *Version 1* (Python): the reference the Rust lifecycle was translated from, with
  a coordinator that holds an instrument lock across the venue call. It is
  another system, with a database between its parts, and would need a project of
  this size.
- *Adapter*: `positions()` and the display queries, the position mode and the
  leverage (set and not looked at), price rounding, signatures, HTTP and JSON.
- *Process*: configuration, and the venue requests of `Sentineld` against
  `Binance` instead of the simulator.
- *Journal*: the Rust tailer, which only the rebuild uses and nobody races there;
  checksums; the limit on the parameters of one statement of the projector.
- *Engine*: adoption interrupted by a crash; a flat account that is not reported.
- Indicators, backtests, the web UI.
