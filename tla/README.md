# Scuttlecast, specified

A TLA+ development beside Scuttlecast, which sends one stream to many receivers
over UDP multicast: the sender cuts it into slices of blocks, adds Reed-Solomon
recovery shards, and repairs what receivers ask for by Nak. Paths below are
relative to `src/crates/scuttlecast/src/` unless they begin with `src/`.

## Inventory

| Part (source) | State | Operations | Talks to |
|---|---|---|---|
| Slicer, Window (`sender/slicer.rs`, `sender/slicer/`) | current slice, sealed slices, wanted parity width, `emit_floor`, totals | read and push a block, seal, queue parity, end of source, resend, `retain_from`, `cover` | send loop: bounded `outbound` channel out, unbounded `feedback` in |
| Send loop (`sender.rs`) | transfer id, draining, deadlines, covering width, counters | gather participants (Hello, Join, Leave until there are enough or `max_wait` is over), take shards, Eof, tick (reap, Done, Hello, Cover), Stats, Nak, Leave, shutdown | slicer, Group, pacer, socket |
| Group (`sender/group.rs`) | participants with `next_needed`, `reached_end`, `last_seen`, `last_report`, `windowed_loss`; `needed_from`; suppressed shards | join, leave, `on_eof`, `on_stats`, `on_nak`, `advance`, `mark_all_seen`, `reap_silent`, `repair_demand`, `worst_loss` | called by the send loop |
| Pacer, RateController, Batching (`sender/pacer.rs`) | credit and whether the turn was held back by it; rate, slow-start limit, demand per client; clean windows and the latch that gives batching up; frames in the batch | refill, consume, `time_until_credit`, tick, `on_report`, `observe`, `segments`, push and send a batch | called by the send loop |
| Session (`receiver/session.rs`) | transfer joined, `emit_floor`, totals, pending blocks, `written_bytes`, last packet | `join_session`, answer a Hello, arrivals in batches, `hand_over`, Stats, Naks, silence, finish | socket, Assembler, Naks, sink channel |
| Assembler (`receiver/assembler.rs`) | slices held, `next_needed`, `total_blocks` | `insert`, `take_ready`, `gaps`, `on_done` | called by the session |
| Naks (`receiver/naks.rs`) | when each slice was asked for | `due`, `forget_below` | called by the session |
| Sink, receive handle (`receiver/sink.rs`, `receiver.rs`) | channel of 256 blocks, file | pump and wait for the session (`recv_to`); `Transfer::finish`, early or not | session |
| Transport (`transport.rs`, `transport/offload.rs`, `proto/`) | socket, receive buffer | send and receive control messages and batches of shards | both ends |
| Progress (`state.rs`, `format.rs`), command line | snapshots | display | read only |

What is hard here: three tasks in two processes and a network that loses,
duplicates and reorders; a window whose size both ends count from their own
end; a parity width that changes between slices; a last slice that nobody
knows to be short before Done arrives; timers (silence 10 s, re-Nak 200 ms,
hold-off 150 ms, drain deadline) that race with the messages they wait for;
receivers that leave, die or are evicted in the middle; a sender that starts again
while datagrams of its last run are still on their way; a rate that moves on
reports that lapse, and credit that must neither leak nor starve; and channels, one
bounded and one not, between tasks that wait for one another. `PROJECT.json`
lists the hazards line by line.

What makes each part correct:

- Window and Group: what a participant may still ask for is kept
  (`WindowRetains`, `NeededIsLive`); what is needed, announced and dropped only moves
  on (`ImplementsWindow`); Ok is true of every participant that was not evicted
  (`OkMeansEveryoneHasAll`), and so are the errors (`FailuresAreHonest`).
- Slicer: shards of a slice agree on its width (`WidthsAgree`); a floor announces
  only what was sent (`FloorIsSound`); slicer and loop never wait for each other
  (`StreamIsSent`), the slicer does not outlive the loop (`SlicerEnds`), and a source
  that fails never passes for a short one (`ReadErrorsShow`).
- Assembler and Naks: what is written is the source (`OutputIsPrefix`), every gap
  is asked for until it is filled (`ParticipantsGetAll`) and none before it was
  emitted (`NaksFollowEmission`); no shard is sent that would be refused as too
  far ahead (`NeverTooFarAhead`).
- Join: who is in the group belongs there (`MembersJoinedThis`), nobody comes back or
  comes late (`EvictedAreOut`, `ImplementsMembership`), who waits is gathered
  (`EveryoneIsGathered`), and who is gone is missed on both sides
  (`GhostsAreReaped`, `StrandedGiveUp`).
- Pacer, rate and batch: no more leaves than the rate allows (`RateIsKept`) and nothing
  taken is left lying (`NothingWaits`); nobody starves, whatever breaks into the
  sleep for credit (`CreditComes`); the rate grows on word and on spent credit alone
  (`GrowthIsEarned`) and is not held down by what is past (`OldDemandIsForgotten`);
  batches widen on clean windows alone (`WideOnlyIfClean`).
- Session and sink: success means the file is there (`OkMeansTheFile`), it grows in
  order and each answer says what it holds (`ImplementsDelivery`), in bounded memory
  (`PendingIsBounded`), and success or failure comes (`FinishedReturns`, `EveryoneEnds`).

## Modules

- `Transfer.tla` is the protocol: window, Group, send loop, network and any number
  of receivers, from the end of the join phase until everything has returned.
- `Slicer.tla` is the slicer task in detail, send by send, with its channels and
  the send loop as the slicer sees it.
- `Session.tla` is one receiver's task in detail, block by block, with the sink
  channel, the pump, `recv_to` and `Transfer::finish`.
- `Join.tla` is who is in a transfer: gathering, joining, leaving, reaping, over
  several runs of the sender.
- `RateControl.tla` is the rate controller, the batching, and the statistics of Group
  that feed them; `Pacing.tla` extends it by the loop, the pacer's credit and the
  batch.
- `TransferProofs`, `SlicerProofs`, `SessionProofs`, `JoinProofs` and `PacingProofs` hold the
  theorems about the module each extends; `QueueLemmas` holds what is
  true of all queues. The theorems about an abstract specification alone stand in its
  own module.
- `MCTransfer`, `MCSlicer`, `MCSession`, `MCJoin` and `MCPacing` instantiate them for TLC.

Four abstract specifications say what the parts promise, without the machinery that
keeps the promise; each is a PROPERTY of a run and the goal of a theorem:

| Abstract | Says | Implemented by, with |
|---|---|---|
| `ReliableMulticast` | receivers write slices in order and stop, the sender drops some and returns one result that is true of the rest | `Transfer!ImplementsPromise`: `participants <- joined`, `dropped <- evicted`, `written <- nextNeeded`, `result <- outcome`, `complete <- completed` |
| `SliceWindow` | one window that sender and group share as if they spoke at once: it fills, seals, drops below what is needed, announces, ends, and only moves on | `Transfer!ImplementsWindow` (`first <- firstLive`, `floor <- emitFloor`, `needed <- neededFrom`) and `Slicer!ImplementsWindow` (`first` is where the live slices begin, `needed` what the loop has learned) |
| `Membership` | receivers choose a run, enter its group while it is gathered, leave, and are told | `Join!ImplementsMembership`: `run <- transfer`, `closed <- phase # "gathering"`, `members <- participants`, `chosen <- session`, `told <-` those evicted |
| `Delivery` | a file that grows by the blocks of the source, and one answer that says what it holds | `Session!ImplementsDelivery`: `delivered <- file`, `answer <- caller` |

`SliceWindow` is also what `Transfer` and `Slicer` have in common: the slicer that
`Transfer` folds into one action per block and the one that awaits every send are
both that window, so what is proved of it is true of both.

`Transfer` composes window, loop, network and sessions. `Slicer` and `Session`
take one process each of it, where `Transfer` folds something away: the
outbound channel and the parity width at the one end, batches of arrivals, the
channel to the sink and bytes at the other. `Join` comes before `Transfer`, its
`participants` at the end of gathering are the `joined` of `Transfer`; it also
covers what lies between two transfers. `Pacing` refines when `Transfer` sends: any
delay is allowed there, so pacing changes nothing about what `Transfer` shows.

### Transfer and the code

| Code | Model |
|---|---|
| `Window::{push, seal, retain_from, is_full, shard}` | `Push`, `Drain`, `RetainFrom`, `WindowFull`, `WindowSlots`; a window is `firstLive .. sealed` |
| `Slicer::run` | `SlicerNext`: `Push`, `Drain`, `OnFeedback` |
| the tests at the top of the send loop | `Looping`, `EndLoop` |
| what follows the loop: `Feedback::Done`, the slicer awaited | `AwaitSlicer`, which may find it blocked |
| its branches | `TakeEof`, `DoneTick`, `Evict`, `DrainDeadline`, `OnStats`, `OnNak`, `OnLeave` |
| `Group::{on_eof, on_stats, advance, on_nak, suppress, reap_silent}` | the same actions with `Advance`, `HoldoffExpires`, `Silent` |
| `Session::{on_shard, on_done, request_gaps, hand_over, send_stats}` | `DeliverShard`, `DeliverDone`, `RenakTick`, `HandOver`, `StatsTick` |
| `Assembler::{insert, can_write, is_complete, gaps, target}`, `Slice::wanted` | `Insert`, `CanWrite`, `IsComplete`, `Gaps`, `Target`, `Missing` |
| `Naks::due` | `nakked`, `RenakExpires` |
| end of `Session::run` | `Finish`, `DeliverEvicted`, `GoSilent`, `Crash` |

A slice is the set of slots held of it, and enough shards are any `BlocksIn(s)` of
them. The network is a set per message kind and destination: delivery in any
order is picking any member, `Lose` drops one, and a delivered message may stay
for a second delivery. Receivers outside `joined` listen to the group too and are
strangers to the Group, as a late receiver is. `Hello` changes nothing for a
receiver that has shards, and has no action. A timer is an action that may
happen whenever its branch may be taken; where it would fire on a peer that is
alive and talking it spends one of `MaxTimeouts`. Reaping several participants in
one tick is several `Evict` steps. `RoomInFlight`, `MaxReports` and `MaxFeedback`
make a process wait that in the code would go on; they bound what is on its way
at one time, not what may happen to it.

### Slicer and the code

Each `channel::send(..).await` is one `Send` step: `push`, `queue_parity`, `resend` and
the end of the source put what they will queue into `unsent`, and the select is
reached again (`Selecting`) only when it is empty; `emit_floor` moves when the last
of them is queued. The loop's side takes (`Take`), tells (`TellNeeded`, `TellCover`,
`TellResend`), ends (`Finish`, `FindClosed`, `SocketFails`) and joins the task
(`Joined`). A participant can have written a slice once enough of its shards were
taken, which is when `TellNeeded` may say so.

### Session and the code

A turn of the loop is a branch of the select (`RecvBatch`, `Reserve`, `StatsTick`,
`GoSilent`), then `OnArrival` for each datagram of the batch, then `hand_over` as
`TakeReady` and one `TrySend` per block, between which the pump may run. The re-Nak
tick is a turn without arrivals, as `Reserve` and a duplicate are, and has no action of its
own. Bytes are counted as `within_total` counts them. What arrives is any real
shard of a slice the sender's window can have reached, given the latest Stats.

`finish` of the handle that `recv_stream` gives out drops what is in the channel and waits
(`FinishEarly`, `FinishEnds`): a session whose sink is gone ends on its next block.

### Join and the code

| Code | Model |
|---|---|
| `gather_participants`: the Hello tick, the messages, `max_wait` | `GatherHello`, `GatherReceive`, `GatherDeadline`, each with the test that ends the loop (`BeginIfEnough`, `Begin`, `mark_all_seen` as `MarkAllSeen`) |
| the loop of `send_stream`, as far as the group goes | `SendShard`, `LoopHello`, `LoopReceive`, `OnStats`, `Reap`, `LoopEmpty`, `SenderReturns` |
| a new call of `send_stream` | `SendAgain`: a new transfer id, `Group::default()` |
| `join_session` | `Listen`, `ListenDeadline` |
| `Session::run` before and after its first shard | `OnArrival` with `Answer`, `OnEvicted`, `Finish`, `GoSilent` |
| `recv_control`, `recv_batch` that drop what is of another transfer | `BelongsTo` |

The network is a set of datagrams, each to or from one receiver; a message
to the group is one for every socket that listens. `Take` may leave a second
copy, `Lose` drops one. The data phase is reduced to a shard that says the
stream has begun; a session that has begun may finish, and the sender's run may
end, at any time. Timers that fire although their peer is there
(`GatherDeadline` before `EverybodyIsIn`, `GoSilent` before `Stranded`, `Reap` of one that
still reports) are faults and share the bound `MaxFaults` with losses, copies and
crashes.

### Pacing and the code

A turn of the loop is `Top` (the tests and `refill`), then an arm of the select: `Take`
(`recv_many`), `LookBack` at the channel that the slicer may have filled again
meanwhile, `PushShard` and `TakeEof` for what was taken, `EndTurn`; or `Sleep`,
`TickArm`, `ControlArm`. Time (`Pass`) and the slicer (`Queue`) move between any two of them,
not only while the loop waits. Inside `RateControl`, `Tick` is the whole arm: the rate
(`BadTick`, `GoodTick`), the reaping, and the batch (`Observe`, `Segments`), in the order of
the code, since the reaped no longer count for the batch.

Rates and credit are whole numbers, fractions are out of `Whole`, products are
rounded down; staleness is counted in ticks. A moving average may end anywhere
between its old and its new value, as it does for some time between reports. A
client's demand stays with the controller when the participant goes, as in the
code. There is always a `max_rate`, if only one that is never reached.
Below a `max_rate` of 1 there is only 0, at which `time_until_credit` has no sleep to
compute and the loop panics (`NoDuration`). The sleep is rounded, so that it may
end one part of a shard early (`SleptEnough`). `bucket`, `spent` and `since` are
history: what the highest rate and two bursts would still allow; whether, since the
last tick, a turn took all the credit there was or a sleep kept shards waiting; and
how long ago a shard was last paid for. `spent` is written when the turn is
taken, while the code looks at the channel only afterwards (`LookBack`).

## Runs

| Run | Instance | Shows |
|---|---|---|
| `transfer_group` | 2 receivers, 3 slices of one block, window of 2, 1 loss, 1 untimely timer | `WindowRetains`, `NeverTooFarAhead`, `OkMeansEveryoneHasAll`, `FailuresAreHonest`, `ImplementsWindow`, `ImplementsPromise` |
| `transfer_coding` | 1 receiver, slow sink, slices of 2 blocks and 1 recovery shard, short last slice, 1 loss, 1 duplicate | `TypeOK`, `OutputIsPrefix`, `NaksFollowEmission` |
| `transfer_live` | 2 receivers that both joined, 2 slices, 1 loss, 1 crash | `EveryoneEnds`, `ParticipantsGetAll` |
| `transfer_repair` | 1 receiver, slices of 2, short last slice, 2 losses | `EveryoneEnds`, `ParticipantsGetAll`, when the repair, its Nak or Done is lost too, or the last Stats and the Leave |
| `slicer` | 5 blocks in slices of 2, up to 2 recovery shards, window and channel of 2, 1 width change, 2 resends, failing source and socket | `TypeOK`, `WidthsAgree`, `FloorIsSound`, `NeededIsLive`, `ReadErrorsShow`, `ImplementsWindow`, `StreamIsSent`, `SlicerEnds` |
| `session` | 7 blocks in slices of 2, short last slice and block, 1 recovery shard, batches of 2, channel of 1, failing sink | `TypeOK`, `OkMeansTheFile`, `PendingIsBounded`, `ImplementsDelivery`, `FinishedReturns` |
| `join` | 2 receivers, 2 runs of a sender that wants both, 1 fault of any kind | `TypeOK`, `MembersJoinedThis`, `EvictedAreOut`, `ImplementsMembership`, `EveryoneIsGathered`, `GhostsAreReaped`, `StrandedGiveUp` |
| `pacing` | 2 receivers, rates 1 to 3, credit for 2 shards, batch and channel of 2, demands of nothing or an eighth | `TypeOK`, `RateIsKept`, `NothingWaits`, `CreditComes`, `GrowthIsEarned`, `OldDemandIsForgotten`, `WideOnlyIfClean` |
| four more | see below | what the code does otherwise than its texts say |

Why the bounds are enough to meet the interesting cases: with three slices and
a window of two the window fills before the stream ends, so repair has to move
it; two receivers suffice for one to hold back, leave or die on the other; one
datagram on its way per receiver still is reordered with all other kinds, and
the last report overtakes the one before it; two losses are a loss and the loss
of its repair. In `transfer_live` there are two slices: the window is full
before the end of the source is read, so the end waits for both receivers. With
one loss it does not meet a repair that answers two receivers and is lost to one;
that a Nak is served again once the hold-off is over shows in `transfer_repair`.
In `join` a second run is what a late Join, a stale Hello and a receiver of the
first run can be mistaken in; one fault is a Join lost, doubled or
overtaken, an eviction of a live member, a death before the first report. In
`pacing` the rate reaches its floor and its ceiling, both in slow start and after it;
the channel holds more than the credit and the credit more than the
channel; and a burst at the lowest rate is one shard, the least it can be. Credit is
whole shards there (`Unit` is 1), for an instance with fractions outgrows the time a
run is given; that fractions add up too is proved (`NobodyStarves`).

`NeededNeverRetreats` and `GroupIsFixed` follow from the refinements, and
`HandedOverInOrder` and the inductive invariant `IndInv` are proved; TLC finds no
violation of the four when they are added to `transfer_group`, `join`, `session` and
`transfer_coding`, and they are left out of the runs since these check the same
steps already.

Symmetry of receivers is used in `transfer_group` and `pacing` alone, where nothing is a
liveness property. Deadlock is checked in every run of `Transfer` and `Session`. It is
not in `slicer`, where the system really can stop (the finding of
`slicer_shutdown`), in `join`, where everything may be over, and in `pacing`, where the loop
returns.

Each property of a passing run has a mutant in `PROJECT.json`: a variant of one
definition with a plausible fault, marked "Variant with a fault" in the modules,
under which TLC finds the property violated.

### Fairness

`Transfer!Fairness` is weak fairness of what each task does unasked: tokio polls a
ready task again, `select!` picks among its ready branches at random, intervals
keep ticking, hold-off and re-Nak intervals pass, a datagram that is not lost
arrives. Repairs are fair per receiver and slice: the socket is a queue, so no Nak
is overtaken for ever. Nothing is assumed of losses, duplicates, crashes and timers
that fire on a live peer: they may happen or not, up to their bounds. A receiver
goes silent by fairness only when the sender has returned, and is reaped by
fairness only when it has stopped. A sink that refused a block takes it
eventually. `Slicer!Fairness` and `Session!Fairness` are the same for their
tasks; `Session!Fairness` assumes nothing of arrivals or of Stats. `Join!FairSpec` assumes
that a socket is read, each receiver's and each transfer's datagrams in their turn,
that the Hello interval ticks, and that a timer runs out once what it waits for
cannot come any more. That the sender's run ends or another begins is not
assumed. `pacing` has safety properties only and needs no fairness.

### Where the code and its texts part

- `slicer_shutdown`: a loop that ends with a result while `outbound` is full awaits a
  slicer that is blocked sending on it. `send_stream` never returns (`sender.rs:352`).
  `Transfer` has no outbound channel, so there this wait may end or not at any end of
  the loop, and `EveryoneEnds` takes either for the end of `send_stream`.
- `session_padding`: a full last slice whose last block is short is written before
  Done, padding included, and ends in `ByteCountMismatch` (`receiver/session.rs:314`).
- `transfer_stall`: a window all of whose shards are lost stays full for ever; the
  receiver has no floor to ask below, and `Hello` carries none. The runs with
  liveness lose fewer datagrams than that.
- `transfer_done_lost`: when the last slice is full, one lost Done fails a receiver
  that has everything, since the sender ends on its report.

Read in the source, and not run:

- A Leave that overtakes the last report empties the group, and success becomes
  `NoParticipants` (`sender.rs:148`). `FailuresAreHonest` says what it still means:
  everyone who was not evicted has written the whole stream.
- `TransferIncomplete` does not count receivers that completed and left
  (`sender.rs:302`): its number is at most that of those that have everything
  (`FailuresAreHonest`), and may be less.
- An error of the source ends the slicer, and the loop reports `EgressClosed`
  (`sender.rs:166`, `352`). Which error it was is lost; that there was one is not
  (`ReadErrorsShow`).
- `--max-rate` is "Mebibytes per second the sender will not exceed, even with no loss"
  (`src/crates/scuttlecast-cli/src/send.rs:44`), but `capped_at` leaves `INITIAL_RATE` as it is
  (`sender/pacer.rs:131`), and a bad tick raises a rate to `MIN_RATE` whatever the
  ceiling (`sender/pacer.rs:170`). Only growth is held against it. No property says
  that the rate stays within `max_rate`; `RateIsKept` counts with the higher of
  `INITIAL_RATE` and `max_rate`. A ceiling of 0 makes the rate 0 at the first step of
  growth, and `time_until_credit` divides by it and panics (`sender/pacer.rs:64`).
- `clean_windows` counts ticks, each with the last window of every participant, and
  not windows (`sender/pacer.rs:91`). `worst_loss` has no staleness, so a
  participant that stopped reporting counts until it is reaped
  (`sender/group.rs:175`).
- `demand_when_reduced` is overwritten on every bad tick, also when the rate was not
  reduced (`sender/pacer.rs:172`).
- `slices_behind` counts from the floor the last shard bore, which a slice's own
  recovery shards do not move yet, so at a full window it is one short of what the
  attribution of a stalled window asks for (`sender/group.rs:190`).
- `seq` wraps at 2^32 shards while `highest_seq` keeps its maximum
  (`receiver/session.rs:215`).
- `Transfer::finish` called before the end drops the blocks in the channel, and is Ok all the
  same if the session had handed over its last (`receiver.rs`).

## Proofs

Every safety property of the passing runs, the action properties and the five refinements
are proved, from the assumptions on the constants that the modules name and nothing
else: for any number of receivers, any geometry, length, parity, window, capacity,
rate and bound.

| Module | Inductive invariant | Theorems |
|---|---|---|
| `TransferProofs` | `IndInv` (`Inductive`) | `TypeCorrect`, `WindowIsKept`, `WindowsAgree`, `OutputCorrect`, `NaksAreTimely`, `OkIsHonest`, `NeededMonotone`; the refinements `KeepsPromise`, `KeepsWindow`; through them `ErrorsAreHonest`, `TransferIsFinal`, `WindowNeverReturns` |
| `SlicerProofs` | `SlicerInv` (`SlicerInductive`), `EndInv` (`EndsAgree`) | `SlicerTypeCorrect`, `WidthIsOne`, `FloorComesLast`, `NeededStays`, `FailureOfSourceShows`; the refinement `SlicerKeepsWindow`, through it `SlicerWindowIsSound` |
| `SessionProofs` | `StreamInv` (`StreamInductive`), `FailuresFit` (`FailuresAlwaysFit`) | `SessionTypeCorrect`, `OkIsTheSource`, `PendingStaysBounded`, `OrderIsKept`; the refinement `KeepsDelivery`, through it `FileIsTheFront` |
| `JoinProofs` | `JoinInv` (`JoinInductive`) | `JoinTypeCorrect`, `MembersAreOfThis`, `EvictionIsKept`, `GroupKeepsOut`; the refinement `KeepsMembership` |
| `PacingProofs` | `PacingInv` (`PacingInductive`), `CreditKept` (`CreditKeptAlways`) | `PacingTypeCorrect`, `RateIsLimited`, `BatchIsFlushed`, `NobodyStarves`, `WidthIsEarned`, `GrowthHasCause`, `OldDemandLapses` |
| `ReliableMulticast` | `AbsInv` (`AbsInductive`) | `Honest`, `FinishedHasAll`, `Final` |
| `SliceWindow` | `WindowHolds` | `WindowIsSound`, `WindowIsMonotone` |

A property that is easy to see of an abstract specification is proved there, and
reaches the detailed one by the refinement theorem: `Honest` becomes
`ErrorsAreHonest`, `WindowIsSound` becomes `SlicerWindowIsSound`, with one temporal
step each.

### Transfer

None of the safety properties is inductive alone, because each end acts on
what it last heard of the other. `IndInv` says how far what is known may lag:

- `WindowInv`: at most `MaxLiveSlices` slices are sealed and live, and a slice is
  begun only with room for it.
- `ReportInv`: reports in flight, `reported`, `neededFrom`, feedback in the channel and
  `firstLive` are in this order never ahead of the participant's `nextNeeded`. With it
  `WindowRetains` follows: `firstLive <= neededFrom <= nextNeeded`.
- `FlightInv`: a shard in flight came from the window, so its slice is below
  `firstLive + MaxLiveSlices`, which with `ReportInv` gives `NeverTooFarAhead`.
- `EmissionInv`: floors and Done reach a receiver only after what they announce was
  sealed, so a Nak names sealed slices only.
- `CompletionInv`: whoever is counted complete, has finished, or has left has written
  everything, and every participant is a member, has left or was evicted. With
  the test at the top of the loop that gives `OkMeansEveryoneHasAll`.
- `OutputInv`: receivers hold only slots the source has, so a slice that is ready
  before Done really is full.

The proof that a step keeps the invariant is one lemma per part (`WindowStep`,
`ReportStep`, `FlightStep`, `EmissionStep`, `CompletionStep`, `OutputStep`, and the type
lemmas), by cases over the actions; frame lemmas (`SlicerFrame`, `SendLoopFrame`,
`SessionFrame`, `LoseFrame`) dispose of the actions of other processes. The refinement
maps `HandOver` to `WriteMore`, the ways a session stops to `StopFinished` and `StopFailed`,
`Evict` to `Drop`, `EndLoop` and `DrainDeadline` to `Succeed` and `GiveUp`, and everything
else to a stutter.

For `ImplementsWindow`, `Push` fills, seals and announces (`PushFills`), `Drain` ends
(`DrainEnds`), feedback drops what `ReportInv` says nobody needs (`FeedbackDrops`), and a
report that advances the group is learned (`SendLoopLearns`).

### Slicer

`WidthsAgree` and `FloorIsSound` speak of shards the loop has taken, and are decided
long before: when a slice is begun and when its last shard is queued. `SlicerInv`
follows a shard through the stream that is under way, `outbound` and then `unsent`.

- `FloorIsCurrent`: the floor is the slice being filled, and nothing under way or
  taken announces more.
- `WidthIs(W)`: there is one width per slice, `W`, that the window, the stream and what
  was taken agree on. `W` is quantified, since the code forgets the width of a
  slice it drops while its shards are still in the channel; a new slice extends `W` by
  the width wanted then.
- `OrderIsKept(W)`: whatever announces a slice, by its floor or as the end, stands in
  the stream behind every shard of the slice, or these are taken.
- `TakenIsWhole(W)`: hence, what a taken shard announces was taken whole.
- `CurrentIsNext`, `WindowIsTail`: the window is a run of slices up to the current one,
  which gives `NeededIsLive`.

`EndInv` is a second invariant, of how the two tasks end: when the slicer has
returned, with what, whether the end was announced and whether the loop has taken it.
`ReadErrorsShow` follows from it and `TakenIsWhole`.

For `ImplementsWindow` the window begins at `FirstLive`, `current.no - Len(live)`, which
`WindowIsTail` makes the number of the first live slice. A slicer that queues moves the
floor (`QueueAnnounces`), one that pops drops what feedback says nobody needs
(`FeedbackDrops`), and what the loop learns to be needed only grows (`LoopLearns`).

A turn of the slicer is one of two kinds: it queues shards of slices already there
and leaves the window (`PlainTurn`), or it seals a slice and begins the next
(`SealTurn`); the lemmas on these two carry the proof, and `NothingMoves` is the frame
for the rest. `QueueLemmas` moves one message from the one queue to the other.

### Session

`StreamInv` says where every block is. `BytesFollowSlices` ties `written_bytes` to the
slices handed over, cut at the total once it is known; `NothingIsLost` says that
file, channel and pending blocks together are the source from its beginning;
`OkMeansAll` that Ok comes only with nothing pending. `HandedOverInOrder`
follows, and with the pump's part `OkMeansTheFile`. `PendingIsBounded` is inductive by the
rule that nothing is taken from the assembler while blocks are pending.

For `ImplementsDelivery`, `HandedBlock` reads off `NothingIsLost` that each block on its
way is the source's at its place, or the padded last one, so that a write of the pump is
`DeliverNext` (`PumpDelivers`). What the pump's end answers is the session's result, and
`FailuresFit` is what is known of each when the channel is empty (`PumpAnswers`): a byte
count that does not match comes only with all blocks written, and a closed sink is
never the caller's answer, since it was the caller that closed it.

### Join

`MembersJoinedThis` rests on `SaidOfSession`: a Join on its way names the transfer that its
receiver is in, and a receiver joins one. `EvictedAreOut` rests on `EvictionIsFinal`: an
eviction is announced only from the loop, which lets nobody in. `NobodySeenYet` is why
reaping cannot happen before.

For `ImplementsMembership` these give the guards: who enters has chosen this run
(`GatherSteps`), the loop only takes out (`LoopSteps`), a first Hello is a choice
(`ListenChooses`), and an Evicted that arrives is true (`EvictedTells`). All else that
happens to messages and timers is a stutter (`QuietReceiver`).

### Pacing

`RateIsKept` says that the bucket never runs dry; it follows from `AllowanceCovers`: the
bucket holds at least the credit, and what the next refill can add to it. With
`TurnIsPaidFor`, each shard of a turn is taken from both. The action properties
follow from the invariant and one step; `GrowthIsEarned` also from
`WaitedWhenSpent`: the pacer says it waited only when credit was spent since the
last tick. `CreditComes` follows from `CreditKept`: credit, and what the time since
the last refill earns at the lowest rate, are what that rate earned since the last
shard, up to a shard; a refill moves it from the one to the other, and its cap
cuts no shard off.

### Only model-checked

Liveness, which is beyond the prover: `EveryoneEnds`, `ParticipantsGetAll`, `StreamIsSent`,
`SlicerEnds`, `FinishedReturns`, `EveryoneIsGathered`, `GhostsAreReaped`, `StrandedGiveUp`.

## Not modelled

- The formula for the parity width (`parity_for`): the width changes at will in
  `Slicer`, which is more than the formula does.
- The arithmetic of the erasure code, a library: any `BlocksIn(s)` shards of one width
  recover a slice. What the bytes are does not matter to anything here.
- Encodings and their sizes, malformed frames: stateless functions of one datagram
  each, that hand on the fields or an error.
- Socket options and segment offload (`transport/offload.rs`): system calls. The batch is
  modelled up to the point where it is handed to the socket.
- Progress (`state.rs`, `format.rs`), the attribution of the bottleneck, counters: they
  read what the transfer does and change nothing in it.
- The command line.

What these modules leave open, and would be next: the assembler of `Session` and that of
`Transfer` shown to implement one abstract one, as the two windows do; and which error
`send_stream` returns when several ends race.
