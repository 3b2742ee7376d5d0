# A TLA+ verification of mimo26f-afd

The repository serves one large mixture-of-experts language model over several
machines. A **coordinator** with a GPU runs the HTTP API, admission, the KV
caches, attention, the router and sampling. The experts live on **Spark**
machines (ranks). For every MoE layer the coordinator sends the same rows to
every rank over RDMA, and each rank sends back its partial sums, which are added
on the coordinator's GPU. This directory models the parts of that system whose
correctness depends on the order of events: queues and threads, slots and
caches that are shared and reused, speculative work that is rolled back, and an
exchange with remote machines that are late, fail or go away. It also models
the algorithms in between that are easy to get wrong at a boundary: frames and
their checks, the route plan of a Spark, the files it serves from, and the
decoding of the pictures in a request.

Every definition is translated from the Rust or C source. `PROJECT.json` maps
each one to its lines. Paths below are relative to `src/crates/`.

- [1. Inventory](#1-inventory)
- [2. Modules and their code](#2-modules-and-their-code)
- [3. Runs: what TLC checks](#3-runs-what-tlc-checks)
- [4. Proofs: what TLAPS checks](#4-proofs-what-tlaps-checks)
- [5. Findings](#5-findings)
- [6. What is not modelled, and the plan](#6-what-is-not-modelled-and-the-plan)

To repeat a run: `tlc -workers 2 -config HostCache.cfg MCHostCache`; to check
the proofs: `tlapm DeviceKvProofs.tla`.

## 1. Inventory

### How the parts interact

    client ── HTTP ──> connection thread (mimo26-api, api.rs generate)  [Stream]
                          │  pictures: mimo26-image   [Jpeg, Png, Inflate, Preprocess]
                          │  Engine::admit: a QueuePlace          [RequestQueue]
                          │  Job over an mpsc channel
                          v
                       scheduler thread (api.rs fn scheduler)     [Scheduler]
                          │  Pool: slots, points, tiers           [SlotPool]
                          │    └─ HostCache: RAM snapshots        [HostCache ⇒ RamTier]
                          │  DeviceKv of each slot                [DeviceKv]
                          │  spec_step / decode_batch             [SpecDecode, CopyWindow]
                          v
                       forward pass (dforward.rs), WireClient     [ExpertWire]
                          │  RDMA queue pair, one per rank        [ExpertWire]
                          │  or a TCP connection per rank         [TcpWire]
                          │  frames and their checks (mimo26-wire) [Frames, Ladder]
                          v
                       Spark daemon (mimo26-spark main.rs)        [ExpertWire, TcpWire]
                          │  one request: plan, launches, reduce  [SparkFfn]
                          │  slice files and resident layers      [Slices]
                          └─ written by the repack driver (mimo26-repack)

    beside it: mimo26-lanesim, the exchange on a virtual clock    [LaneSim]

There are three kinds of concurrency. Connection threads share `Queue` (a mutex,
a condition variable and an atomic) and each request's cancel flag with the
scheduler. The scheduler is one thread, but it interleaves many requests at
points where any of them may fail, be cancelled or run out of memory. The
coordinator, its network cards, its GPU and the daemons run asynchronously
against a handful of fixed buffers.

### Components

| Component | State | Operations | What is hard | What makes it correct |
|---|---|---|---|---|
| Bounded request queue (`coordinator/src/api.rs` `Queue`, `Engine::admit`, `QueuePlace`) | `queued`, `waiters`, the condition variable, the job channel | admit, wait, time out, refuse, send, drop a place, take a job | notify after unlock; newcomers overtake waiters; a place dropped on any of a dozen paths | counts exact and bounded, no lost wakeup, every caller gets through |
| Batching scheduler (`api.rs` `fn scheduler`) | channel, `deferred`, `stalled`, `prefilling`, `active`, cancel flags | admit, defer, stall, refuse, batched prefill, segments in turn, reap, decode step | error paths of every call; fairness between prompts; unsigned budgets | no job lost or doubled, every job ends, every prefill gets a turn |
| Slot pool and tiers (`api.rs` `Pool`) | slots, their points, the RAM tier | fork, in place, relocate, restore, cold, refuse, retire, park, evict, banks, growth | a slot rewound while points, forks and RAM copies of its old history live on | a resumed request sees the rows of its own tokens, memory never overcommitted |
| RAM snapshot cache (`coordinator/src/hostcache.rs`) | page map with reference counts, two arenas, snapshots in order of use | capture, lookup, `lookup_for`, restore, evict, abort | evictions in the middle of the capture that needs them; failed exports | snapshots restore what was captured, no slot lost or used twice |
| Device KV cache (`coordinator/src/dforward.rs` `DeviceKv`) | rows of sliding-window and global layers, capacities, points | prepare, append, compact, truncate, save, load, shrink, grow | compaction followed by a cut back | the rows a query reads are there; snapshots exact |
| Speculative decoding (`dforward.rs` `spec_step`, `dforward/dflash.rs`, `copy.rs`) | tokens, KV rows, the drafter's ring, the copy index | draft, copy, verify, accept, roll back, commit, plain step | zero, some and all drafts accepted; ring wrap-around; budgets | the output is what plain decoding gives |
| Expert exchange (`coordinator/src/wire.rs`, `dforward.rs`, `mimo26-rdma`, `mimo26-spark`) | lanes, `inflight`, two halves, receive rings, sequence numbers, the daemon's buffers | begin a pass, claim, fill, post, receive, validate, sum, serve, reply | late returns, lost step after a failure, buffers read asynchronously | a sum adds the answers to one request, its own; nobody waits in a circle |
| Token stream and API events (`coordinator/src/api.rs` `generate`, `streaming.rs`; `mimo26-api`) | pending bytes, held-back text, the text so far, events written | token, keep-alive, cancel, error, flush, split, parse, close | characters, stop sequences and tags cut anywhere; a client that leaves at any moment | no stop sequence shown, the deltas are what the parser makes of the whole text, every request ends |
| Wire format and integrity ladder (`mimo26-wire`) | a sequence number and a retry budget per stream, partial sums by slot | encode, decode, view, accept, retry, submit, collect, retire, accumulate | damage, loss, duplicates and reordering, two decoders of the same bytes | both decoders agree, a sum has each rank's row once and in rank order |
| TCP fallback and the copying daemon loop (`coordinator/src/wire.rs`, `mimo26-spark` `main.rs`, `transport.rs`) | connections, `inflight`, socket buffers | send, parallel send, receive, time out, serve, load, fail | a read that times out inside a piece; both sides writing | an exchange handed out is every rank's answer to it; no circle of writers |
| Spark route plan and launches (`mimo26-spark` `route.rs`, `decode.rs`, `b1.rs`) | plan, staging buffer, stream, rows on the device | plan, stage, copy, gather, launch chunks, retry from the host, reduce | padding and chunk offsets; a buffer reused before it was read | each token gets each of its routes once, with its weight, expert and row |
| Repacking, start-up and residency (`mimo26-repack`, `mimo26-spark` `boot.rs`, `resident.rs`) | slice files, manifest, resident layers | repack file by file, die, run again, read back, load a layer | killed and repeated runs beside a daemon | an image is this rank's units of one checkpoint |
| Lane simulator (`mimo26-lanesim`) | event queue, tickets, clock | submit, poll, collect, a decode step | lost and repeated frames of several tickets | every term once, times that add up |
| Image decoding and preprocessing (`mimo26-image`) | the decoder's position and tables, blocks, rows | markers, scans, restarts; blocks, matches; chunks, passes; resize, patches | resynchronisation, refinement scans, read-ahead, empty passes, rounding at the bounds | what is decoded is what was encoded, each pixel in its place, as many patches as placeholders |
| Earlier scheduler, KV accounting, paging (`scheduler.rs`, `kv_pool.rs`, `paging.rs`) | pending and running requests, byte counts | submit, next_step, finish, preempt | byte accounting | planned; not on the serving path |
| Phase contract (`phase.rs`) | page states | bump, seal | homogeneous pages | planned |
| Attention caches (`mimo26-attn/src/cache.rs`) | ring of rows | append, view | wrap-around | planned |
| Expert arithmetic, host forward, kernels, sampling maths, tokenizer, vision tower, dense weights | none that is explored | pure functions, or I/O at start-up | numeric | not modelled |

The hazards, each at the line where it bites, are listed in `PROJECT.json` under
`hazards` with the properties that would catch them.

## 2. Modules and their code

A module has its state as VARIABLES, one action per operation and its properties
at the end. Definitions named `X_Something` and marked "Mutant" are plausible
bugs of `X`; nothing uses them in the specification. They show that each
property can fail.

**`DeviceKv`** is one slot's cache, one sliding-window layer standing for all
(they get the same calls). `lo`, `rows`, `cap` are the layer's buffer as
positions; `ga` counts the global layers' rows. `Prepare`, `Compact`, `DropRows`,
`Shrink` and `SaveAt` are `prepare`, the compaction, `truncate`, `shrink_swa`
and `Point::save`; the actions are what the slot's owner does: admit cold or
from a snapshot, prefill a two-lane group, decode a token, verify a block and
cut it back, cut to the history at the end, retain, rewind, release.
`SplitVerify` chooses whether one request's block is split over two lanes.

**`RequestQueue`** has one process per connection thread and the scheduler's
receiving end. Giving a place back is two actions, because `notify_one` runs
after the unlock. A waiter's time budget is an expiry that may come at any
moment; spurious wakeups are included.

**`HostCache`** takes one `capture` apart into the steps of its loop, with an
eviction wherever an allocation finds nothing free, and an abort or a failed
export where the code has one. A page's key is its token prefix: the 128-bit
hash chain is taken to be injective. `mem` and `smem` record what was last
written to each arena slot, so reuse under a live snapshot shows.
**`RamTier`** is what the cache promises its user: a set of snapshots, at most
one per token sequence, that a capture may shrink. `HostCache` is checked to
implement it, and `SlotPool` uses `RamTier`'s operators as its RAM tier, so
the two compose.

**`SlotPool`** is `Pool` and what the scheduler does to a request's slot. A
slot's rows are the tokens they were computed from and a point keeps the rows
its state was saved at; a mismatch is a row or a state of another history. The
memory in use is the number of cells, one for each row a slot's capacity and its
windows take. Which of several candidates is least recently used is left open.

**`Scheduler`** is the loop: `pc` goes through admit, batch, round, reap and
decode. Each admission, prefill pass, segment and decode step is an action, with
an alternative for each way it can fail. Connection threads submit and cancel at
any time. A batch is a choice of positions of the prefill list, scanned in order. What
slots hold is left to `SlotPool`; here a request takes a slot and some memory.

**`SpecDecode`** is one speculative (or plain) step per action for each running
request. The drafter may draft anything, the length policies may verify any
number of drafts the budget allows. `Select` is the target's choice after a
context, any function. **`CopyWindow`** is `copy.rs`: the incremental n-gram
index and `propose`, beside the definition of what a proposal should be.

**`ExpertWire`** composes the forward pass (layers, lanes, `pending`), the
`WireClient` (two halves, `inflight`, a receive ring per rank), the queue pairs
and the daemon's zero-copy loop. A frame's rows carry the number of their
exchange separately from its header, since the card reads a body when it sends
it and the GPU reads a return when the sum runs. A queue pair is reliable and
ordered (RC): a frame is lost only with its connection.

**`Stream`** is one connection's thread, request after request: the request line,
the refusals, `generate`'s loop over tokens with its keep-alives, cancellation
and errors, `flush_pending`, `StreamSplit`'s cut of the text into content and
reasoning, the final `parser::parse` one turn of its loops at a time, and the
closing events. Text is a sequence of letters; a tag is a `<` and a letter that
names it and a two-byte character is two letters, so both can be cut. A client
may leave before any write.

**`Frames`** is the codec of `mimo26-wire`: a frame is a record of header fields
and body parts, the checksum is everything it covers. `DecodeRequest` and `ParseView` are
the copying decoder and the view in place, each with its checks in the code's
order. **`Ladder`** builds on it: `StreamReceiver`, `retry_until`,
`ExpertClient` and `CoordinatorSum` over a network that loses, repeats,
reorders and damages frames.

**`TcpWire`** is `WireClient` without RDMA and the daemon's copying loop. A
socket holds a few header-sized pieces in each direction; writes wait for room,
reads for a piece or a timeout, which may leave part of a piece read. A failed
exchange does not end the client: the panic of `.expect("wire moe_layer")`
(`serving.rs`) ends only the thread of the HTTP connection, the next request takes the same
client out of the poisoned lock (`api.rs:1319`), and it finds the connections as the
failure left them, all there after one token, none after a parallel exchange
(`Failed`, `RecvFails`). A raw exchange compares the request id of what it reads, a sum
does not.

**`SparkFfn`** is one request at a Spark: `RoutePlan`, the padded groups and the
chunks they are launched in, the page-locked buffer that is written by the host
and read when the stream gets there, the fallback that launches from host
memory, the reduction, and the two variants that take the routes as they are.

**`Slices`** goes from a checkpoint to a resident layer: the repack driver with
every write it makes, the readback at boot, `grouped_image` on a layer's first
request. A byte is where it comes from, a hash is the bytes.

**`LaneSim`** is `mimo26-lanesim`: `submit`, `poll`, `collect` and the decode step
over the event queue. What is lost or repeated is any choice.

**`Jpeg`**, **`Inflate`**, **`Png`** and **`Preprocess`** are `mimo26-image`. A file is read
as it is decoded: each marker, symbol or chunk is any that the format can
hold, and history variables keep what an encoder would have meant by it (the
interval an MCU was written for, the bits used so far). **`PrefixCodes`** has the
tables both decoders build from code lengths, beside the canonical code: the
deflate reader is compared on every code it accepts, JPEG's (lookup, `maxcode`,
`valoffset`), which allows incomplete codes and refuses complete ones, on every
list of lengths that a dynamic block gives on its way to one.
Transforms, colour arithmetic and filter weights are left out.

**`BackEnd`** puts the five components of the expert side, which share no state
in the code, into one specification, and **`FrontEnd`** those of the client side:
`part` says which of them a behaviour exercises, and the others stay at their
initial states. The `MC*` modules hold constants for TLC. A module `X` with
theorems has them in `XProofs`; those about `RequestQueue` and `Stream` are in
`ServerProofs`. **`Connection`** is `Stream` under names of its own with its properties,
for `FrontEnd` and for those proofs: a step of `FrontEnd` is one of its `Str!Next` or
leaves the stream alone, so the theorems are about `Str!Spec`.

## 3. Runs: what TLC checks

| Run | Checks | Instance | Distinct states |
|---|---|---|---|
| `kv_window` | `WindowCovered`, `HistoryCovered`, `SnapshotsExact` | window 3, slack 2, chunks of 2, blocks of 3, 8 tokens, 2 snapshots | 183,161 |
| `queue` | `PlacesCounted`, `WaitersCounted`, `NoLostWakeup`; `RequestEnds` | 5 callers, depth 2 | 132,269 |
| `hostcache_capture` | `ArenasExact`, `SnapshotsServe`; `ImplementsTier`, `CaptureEnds` | pages of 2 rows, 3 page and 2 state slots, 6 histories, 1 failed export | 503,616 |
| `slotpool_tiers` | `TiersExact`, `ResumeTrue`, `NoOvercommit` | 2 slots, 3 prompts (too short to keep, one token longer, one that fits only a grown slot), histories of 5, memory of 8 | 402,313 |
| `scheduler_loop` | `JobsKept`, `BudgetLeft`; `JobEnds`, `PrefillTurns` | 4 jobs that come again, 3 slots, memory 3, channel of 2 | 41,366 |
| `spec_decode` | `OutputTrue`, `RowsKept`, `DraftContextExact`, `CopyExact` | a greedy and a sampled request, 3 drafts, ring of 7 | 881 |
| `expert_wire` | `BuffersInTurn`, `OneExchange`, `FailsClosed`; `PassEnds` | 2 ranks, a dense and 2 MoE layers, passes of one and of two lanes, 2 passes, all failures | 644,477 |
| `front_end` | `NoStopShown`, `StreamTrue`, `JpegExact`, `InflateExact`, `PixelsPlaced`, `PayloadExact`; `StreamEnds` | below | 281,603 |
| `back_end` | `FrameTwins`, `SumExact`, `LaneExact`, `TcpExact`, `NoWriteCycle`, `PartialExact`, `LoadedExact` | below | 444,670 |
| `kv_window_split`, `expert_wire_stale`, `stream_parse` | one property each, violated: section 5 | | |

What they show:

- **`kv_window`**: with a block kept in one lane, the rows the next query reads are
  always there, also after a compaction inside a block that is then cut back;
  points and RAM snapshots hold exactly the window before their position.
- **`queue`**: `queued` and `waiters` are what they count, on every drop path; while a
  caller sleeps, every free place has a notify to come or an awake caller on its
  way; every request is refused or gets through.
- **`hostcache_capture`**: snapshots restore exactly what was captured, whatever
  was evicted and reused in between; references and slots are exact until an
  export fails and never too few after it; `lookup_for` finds the longest
  snapshot that serves; a capture ends, since each of its steps leaves less to do.
- **`slotpool_tiers`**: no point, slot or RAM snapshot ever has rows or a state of another
  history; a recorded greedy token is the argmax, also behind sampled requests;
  an exact hit serves; admission never takes more memory than there is.
- **`scheduler_loop`**: a job is in exactly one place from its submission to its
  last answer; `max - generated - 1` never underflows; every job is answered and
  every prefill gets its turn.
- **`spec_decode`**: whatever is drafted, copied and rejected, the tokens sent are
  the target's selections, each at its own position; the KV is rolled back
  exactly; the drafter sees only accepted context; the incremental copy index
  proposes what a search of the whole context would.
- **`expert_wire`**: with late, failing and vanishing ranks, failing lanes, fills
  and sends, a sum never mixes exchanges; as long as no pass was given up on the
  coordinator's side, a wire that lost step refuses every return; halves
  and ring slots are not reused too early; every pass ends.
- **`front_end`**: however the tokens cut characters, stop sequences and tags,
  nothing shown holds a stop sequence (but for the tail of a generation that ends
  inside a character, which the property names), the streamed deltas are what the
  parser makes of the whole text, and a request ends whatever the engine and the
  client do. A JPEG's scans meet each block once and stay inside their planes, a
  lost restart marker costs its own interval, a refinement adds one bit; the
  deflate buffer stands where a bit-by-bit decoder would and never takes padding
  for data, nor says a stream ends early that does not; both decoders read their
  prefix codes as the canonical code means them, past their lookups too; each PNG pixel is shown where Adam7 and the EXIF orientation put it;
  an accepted picture has as many merged patches as placeholders.
- **`back_end`**: the copying decoder and the view accept the same frames and give
  the same rows; a sum that is handed out has every rank's row of its own exchange once,
  in rank order, whatever was lost, repeated, reordered or damaged; over TCP, what is
  handed out is one return of every rank with the request's rows, of a raw exchange its own
  whatever timed out or failed before, of a sum its own as long as no exchange has failed
  (section 5 has what happens after one); without a failure client and daemon
  never write to each other in a circle; a Spark's answer has each route of each token
  once whatever the padding and the chunks; an image whose files are as boot
  verified them is this rank's part of one checkpoint.

**Bounds.** They are the least that let the interesting cases happen.
`kv_window`: a window of 3 and a slack of 2 make a block of 3 compact in its
middle, 8 tokens do so several times. `queue`: depth 2 with five callers allows
two holders, two waiters and a newcomer that overtakes or is refused.
`hostcache_capture`: three page slots are fewer than the longest history and its
neighbours need, so captures evict snapshots they share pages with, and give up.
`slotpool_tiers`: one bank place and one RAM snapshot make every store evict; the
memory of 8 rows is less than both slots grown, so a growth finds room, finds it
after an eviction, or fails; the shortest prompt is below the least length that
is kept, the longest extends it and makes forks and rewinds worth while. `scheduler_loop`: jobs a and b
share a prompt and extend c, d is long, has an image and needs two units of
memory, so deferral, stall, batch, segments and refusal all occur.
`spec_decode`: a ring of 7 is the smallest the code's own inequality allows and
the greedy request wraps around it twice; its text repeats and then stops repeating, so
copies are accepted in whole, in part and not at all. `expert_wire`: two passes, so that the
second meets what the first left; two ranks, so that one may be ahead. The code
runs four ranks and many layers; ranks interact only through the coordinator and
layers repeat the same turn. `front_end`: three vocabularies, one each for cut
characters, cut tags and calls, three tokens, a stop sequence of two letters;
JPEG blocks of 2 × 2 with three coefficients, ten sampling layouts on seven side
lengths, up to three scans of grey and 4:2:0 frames, a restart interval of one and at most
four of them (the marker numbers do not wrap); a deflate byte of two bits and a
buffer of six bytes, so that padding, hand-back and overlapping matches occur
within eight bytes; PNG sizes that leave passes empty or cross a tile. The
decoders' loops over blocks, rows and symbols repeat beyond these sizes.
`back_end`: two ranks, two tickets of two rows, one fault and two attempts in
the ladder (a duplicate of a retried frame is in reach); three TCP exchanges
over sockets of two pieces; five rows over three experts with tiles of 4, 3 and
2, so that groups pad and launches split; two repack runs over two ranks, layers
and experts. `Max…` constants are bounds of the model; each is
named as one where it is declared.

**Symmetry** is used for arena slots and KV slots only in runs without
liveness properties; the specifications never distinguish them.

**Fairness.**

- `RequestQueue`: weak fairness of each caller's own steps (its wait ends, it
  re-acquires the mutex, sends or drops) and of the scheduler's receive. These are
  threads that run; `wait_timeout` returns by its timeout.
- `Scheduler`: weak fairness of the loop (device and wire calls return; the wire's
  own timeouts see to that) and `ArrivalsPause`: admission catches up with
  arrivals now and then. Without the second, the loop's inner `while` could admit
  refused jobs for ever.
- `ExpertWire`: weak fairness of the pass, the GPU, the daemons and both
  directions of each queue pair, and of the receive timeout for ranks that went
  away. `PassEnds` therefore does not rest on timing out a rank that lives.
- `Stream`: weak fairness of the connection's own thread (`Handler`), which also
  stands for the scheduler answering its job (`Scheduler`'s `JobEnds`); not of the client.
  It takes a write to the client to return: the code sets no write timeout, so a client
  that stays connected and never reads is outside what `StreamEnds` says.
- `HostCache`'s `CaptureEnds` is an action property and needs none.

**Deadlock** is checked except in `spec_decode`, the wire runs and `back_end`,
where the system really may stop: all requests ended, the bound of passes or
exchanges reached, a client whose thread panicked. In `front_end` a decoder may
stop at its end (`Stop`), the connection's thread may not.

## 4. Proofs: what TLAPS checks

Each theorem is for every value of the constants its module's assumptions allow.

| Theorem | Property | For any |
|---|---|---|
| **`DeviceKvProofs`** | | |
| `WindowAlwaysCovered` | `WindowCovered` | window, slack, chunk, block and unit, with `~SplitVerify` |
| `HistoryAlwaysCovered` | `HistoryCovered` | the same |
| `SnapshotsAlwaysExact` | `SnapshotsExact` | the same |
| `CacheWellFormed` | `TypeOK`, `PositionsAligned`, `WithinCapacity` (proved only) | the same |
| **`ServerProofs`** | | |
| `PlacesAlwaysCounted`, `WaitersAlwaysCounted` | `PlacesCounted`, `WaitersCounted` | finite set of callers, depth |
| `NoWakeupIsLost` | `NoLostWakeup` | the same |
| `QueueTypeCorrect` | `TypeOK` (proved only) | the same |
| `NoStopAlwaysShown` | `NoStopShown` | tokens, stop sequences, values of `max_tokens` |
| `StreamAlwaysTrue` | `StreamTrue` | the same |
| **`HostCacheProofs`** | | |
| `ArenasAlwaysExact` | `ArenasExact` | histories, page size, arenas, number of failed exports |
| `SnapshotsAlwaysServe` | `SnapshotsServe` | the same |
| `CapturesEnd` (an action property) | `CaptureEnds` | the same |
| `CacheImplementsTier` (a refinement) | `ImplementsTier` | the same |
| **`SlotPoolProofs`** | | |
| `TiersAlwaysExact` | `TiersExact` | slots, prompts, bank, tier and memory sizes |
| `ResumesAlwaysTrue` | `ResumeTrue` | the same |
| `NeverOvercommitted` | `NoOvercommit` | the same |
| **`SchedulerProofs`** | | |
| `NoJobEverLost` | `JobsKept` | jobs, prompts, budgets, slots, memory, batch and segment sizes |
| `BudgetAlwaysLeft` | `BudgetLeft` | the same |
| **`SpecDecodeProofs`** | | |
| `OutputAlwaysTrue` | `OutputTrue` | requests, prompts, budgets, `Select`, drafts, copy windows, ring |
| `RowsAlwaysKept` | `RowsKept` | the same |
| `DraftContextAlwaysExact` | `DraftContextExact` | the same |
| `CopyAlwaysExact` | `CopyExact` | the same, and `Match`, `Extend`, `Candidates` |
| `AlwaysWithinBudget`, `TypeCorrect` | `WithinBudget`, `TypeOK` (proved only) | the same |
| **`ExpertWireProofs`** | | |
| `BuffersAlwaysInTurn` | `BuffersInTurn` | ranks, layers, batches of one or two lanes, passes, kinds of failure |
| `SumsOfOneExchange` | `OneExchange` | the same |
| `WireFailsClosed` | `FailsClosed` | the same |
| **`BackEndProofs`** | | |
| `SumAlwaysExact` | `SumExact` | ranks, rows, submits, faults, attempts |
| `FramesAlwaysAgree` | `FrameTwins` | sizes of the layout, rows, routes of a row |
| `TcpAlwaysExact` | `TcpExact` | ranks, rows, exchanges, faults, room in a socket |
| `NeverWriteCycle` | `NoWriteCycle` | the same |

Each proof module stands alone; the few lemmas that several of them need (the least
element of a set of naturals, what `Append` and `Tail` leave where, lists that
hold each element of a set once) are proved where they are used.

**Assumptions.** The named ASSUMEs of the modules, which TLC evaluates in the
runs. They say what the constants are, and beyond that:

- `KvAssumption`: window, chunk, block and unit are not zero. The `DeviceKv`
  theorems also assume `~SplitVerify`, since the other case is finding 1.
- `SpecAssumption`: the drafter's ring is at least a window and a draft block long
  (`RING` is 1088, `WINDOW` 1024 and `BLOCK` 8 in `dflash.rs`), prompts are not
  empty, budgets not zero. The `SpecDecode` theorems also assume `SelectsTokens`: `Select`
  returns tokens.
- `CacheAssumption`: histories are sequences of tokens, pages and the least length
  that is captured (`MIN_TOKENS`) are not empty, the arenas are finite.
- `PoolAssumption`: prompts and the least length that is retained (`MIN_RETAIN`)
  are not empty, the slots at their build size fit the device, the argmax
  after a history is a token.
- `SchedulerAssumption`: a prompt has rows, a job a budget and a size;
  `BATCH_ROWS` is no more than `SEG_QUANTUM`.
- `CopyAssumption`: `Match` and `Candidates` are not zero and `Extend` is at least `Match`
  (`copy.rs` has 8, 64 and 64).
- `WireAssumption`: a pass has one lane or two, and no lane is empty.
- `StreamAssumption`: tokens and stop sequences are sequences of letters; a stop sequence
  may be empty.
- `FrameAssumption`, `LadderAssumption`: the sizes of the layout, `TopK`, the ranks and the
  rows of a request are not zero.

**`DeviceKv`.** `WindowCovered` alone is not inductive: the end of a request cuts
its last step back to its history, by more rows than a bare window leaves. The
inductive invariant `IInv` adds `HistoryCovered` (the rows at the end of the
history are still a whole window), that a layer's rows are contiguous up to
`tokens` and inside its buffer, and that every point and snapshot is exact, points
within the history while a request runs. The key lemma is that `Prepare` keeps the
window *before* a block that is then appended whole; this is where `~SplitVerify`
is used, and where the split run breaks.

**`RequestQueue`.** `queued` and `waiters` are related to cardinalities of sets
of callers by state. One lemma, `Move`, says what a single caller's step does to
every such count; each action is then arithmetic. The invariant adds that the
channel lists the "sent" callers without repetition, and the wakeup account:
while somebody sleeps, free places are at most the notifies owed plus the
awake callers (`Covered`).

**`Stream`.** No stop sequence stands in the text given out, and as long as the generation
has not stopped none has begun at its end (`Settled`): `flush_pending` holds back
whatever ends in a part of one. A stop sequence in two texts joined would stand in one of
them or begin at the end of the first, so the next emission adds none, however the tokens
cut it (`JoinClean`, `JoinSettled`). What is kept back is either free of stop sequences
or ends inside a character, and then the tail that is flushed in the end ends in U+FFFD:
the exception the property names is the only one (`StopInv`).

For `StreamTrue` the parser's walk over a text is stated as a relation, so that nothing
recurses over the letters: from a place, the content so far and the think blocks so
far, one letter of content or one whole block leads on (`Goes`), and `Leads` is the
least relation closed under that. A step that needs to know that the text goes no further (a
last `<`, a block that is never closed) is only taken when it has ended, so a walk that was possible
stays possible when the text grows (`LeadsGrow`). `StreamInv` then follows the response. While tokens
come, what the client was told is where the walk has come to, the hold is the
rest, and after `push` the hold is at most a `<`, a tag being a `<` and its name, or
all of the text from the first call on (`Told`). `finish` tells a held `<` too, and the walk is
at the end of the text or before its first call (`Ended`). The parser is on the same
walk until it gets there and only adds to what it found from then on (`Parsing`); its steps
agree with the walk's because at each place one step at most is possible. What is
written in the end is therefore what the parser found beyond what was streamed, one
finish event and one `[DONE]` (`Whole`). A client that left is told nothing more.

**`HostCache`.** A page's reference count says nothing by itself: it stays right
only because no two snapshots have the same tokens, and a slot keeps its rows
only because nobody else can be handed it. `IInv` adds that the snapshots' tokens
are distinct and differ from those being captured, how far the capture is at each
step of its loop (`Capturing`), that no slot has two users (`PagesApart`,
`TailsApart`, `StatesApart`), and, until an export fails, that each is used or
free (`AllUsed`). An eviction in the middle of a capture is then safe because the
pages the capture holds are counted apart from every snapshot's. The refinement follows
from the same invariant: every step of the loop is a stutter of `RamTier` but the
one that evicts and the one that ends the capture.

**`SlotPool`.** Every operation changes one slot, gives others back, and may store
points in RAM. So the invariant speaks of one slot's record (`Good`) and of one
snapshot (`Whole`), and each action's lemma says that what it makes is `Good`
if what it found is. Two facts carry it. A cut never goes
below a point: a `done` request, whose rows go past its history, has only points
that end before its last token, and a request in place has lost the points
beyond the one it resumes at. And the state a point records is of the point's
own tokens (`AfterTrue`), whichever slot or tier it has been through since.
Memory is a set of cells, a slot's rows; the rows a growth takes
(`RowsTaken`) are free because eviction went on until there was room for them
(`RoomKept`), whichever slots were chosen.

**`Scheduler`.** The five hands a job can be in (channel, deferred list, stalled
job, prefill list, active set) are apart and together are the jobs not yet
answered. The channel and the lists hold no job twice. Every action moves
some jobs from one hand to others, and the set lemmas about such moves do
the rest; the lemmas about lists say what taking an element out, rotating, and
taking a batch at several positions do to what a list holds. That no two prompts
that extend one another prefill together (`NoTwins`, a part of `JobsKept`) rests on
the batch being scanned in the order of its positions.

**`SpecDecode`.** The invariant, per request, is that the history begins with the
prompt, every later token is `Select` of what precedes it at its position, the
count of tokens sent is the history's length beyond the prompt, and the KV rows
are the history without its last token. A step is shown to preserve it for
*any* block of drafts: the accepted prefix agrees with the selections by
definition, and the bonus token is a selection after it. Nothing is assumed
about the drafter, the lengths or the copy index. For the drafter's ring, two
positions less than `Ring` apart have rows of their own, so the block that was drafted
and the rows accepted are overwritten or leave alone what the next block
can see; that is what `Ring >= DraftWindow + Drafts` is for.

The copy index is a recursion over the positions of the text. That the one kept
from step to step, in rounds that extend it only when they propose, leads to the
copy a search of the whole text finds, rests on three facts: the index always is
that of some first positions (`IndexOf`), which a longer text does not change; the list
it keeps for an n-gram is of the newest `Candidates` occurrences; and copying token by
token from behind the end is copying round and round.

**`ExpertWire`.** The invariant has three parts. `Always` holds whatever has
failed: buffers and receive slots are accounted for, and the planes of a sum that
has not run are slots nobody has posted again. `Carried` holds until a pass was
given up between claim and post: what a frame's header says is what its rows
are. The third is the reason the wire fails closed. As long as nothing has
failed it is `InStep`: the sequence numbers at both ends, the exchanges in
flight and the frames under way agree. After a return was missed or refused,
or a claim failed, it is `Lost`: some rank's next acceptable return is of an exchange older than
any the coordinator will ask for, and stays so, because a rank answers in order and the
coordinator's count moves only when it accepts. So no later sum can begin. A
fill that fails after a claim leaves neither, which is finding 2: `FailsClosed`
leaves that failure out and the run `expert_wire_stale` shows why.

**`Ladder`.** What is under way to the coordinator has the fields and the checksum
of a frame some rank stamped, whatever became of its other fields (`UnderWay`); the
checksum is of everything, so a frame that passes is one that was stamped, and
its rows are those its header names. A sum being collected is `SumAt` of the sets
of ranks whose partial each row has: a frame adds its rank to a run of rows or is
refused, and a row is summed, in rank order, just when its set is complete. This holds for
any order, repetition and retry, since the set says nothing of how it came about.

**`Frames`.** Whatever single field is damaged, and whether or not the checksum is
made to fit again, a frame still has a body of `n` descriptors and `n` rows, and a header that
counts the rows and routes of its body or does not agree with its own byte counts
(`Bodied`). For such a frame, the checks of the copying decoder, over the body, and those of
the view, over the header, are the same in another order (`Twins`). That the three
encoders agree needs that `n * k` routes divide into `n` rows of `k` and that the
buffer has room for them.

**`TcpWire`.** `TcpInv`: on each connection, the id of a frame is its sequence and one, in the
client's counters, in what is written, on the way, at the daemon and on the way
back; and the client has all its connections or none, since a parallel send that
fails takes them all. So a raw return whose sequence fits *and* whose id is the one
asked for is the answer to this exchange, also when an earlier one timed out. A sum has only
the sequence: as long as no exchange has failed, each connection's is the id of the
exchange that runs, so what fits it is that exchange's return. After a failure the
connections may be one behind, which is why the theorem says nothing of the id then; that
the rows are the request's and each rank's own is still so, because the sum
refuses rows it has no place for and is incomplete without the others. `Calmly`
adds, until something fails, that at most one exchange is on a connection, in one
of four phases (asking, served, answering, answered), and that its pieces lie in
order over reader, socket and writer (`Run`). A client that still has to write
therefore has a daemon that reads, whatever the room.

**Only model-checked**, and why:

- *Liveness* (`RequestEnds`, `StreamEnds`, `JobEnds`, `PrefillTurns`, `PassEnds`): ENABLED
  and fairness are out of the prover's reach.
- *`LaneExact`, `PartialExact`, `LoadedExact`*: what is handed out is computed by a loop over
  data in one step (sorted queues, padded groups, slices cut and joined), so the proof
  is one about nested sequences and division rather than about the interleavings,
  which are few. Induction over data is out of reach where no number bounds it; where
  a proof needed an induction over numbers only, it goes by the least element of a
  set (`LeastNat`).
- *The rest of `front_end`*: the image decoders and the resize rule are such loops
  throughout.

**What the proofs changed.** An attempt to prove `ResumeTrue` failed for a good
reason: a prompt shorter than `MinRetain` is never kept, its slot has no recorded
token, and its first token is drawn from the device row
(`api.rs:975`). The property `ExactServes` therefore speaks of
prompts that are kept, and the run that had hidden the difference (`MinRetain` of 1)
now has a prompt below it. The attempt on `NoOvercommit` showed that the
old bounds never fired a growth that fails; they do now. `FrameTwins` gave its encoders a
buffer of 100 bytes, which only some layouts fit in; it is now `Buffer`, the size of the
largest request.

## 5. Findings

Three are runs that expect a violation:

1. **A block split over two verify lanes can lose window rows** (`kv_window_split`,
   `WindowCovered`; `dforward.rs:439`). `attn_segs` calls `prepare` once per lane;
   a compaction in the second lane keeps the window before *its* first row, and a
   cut back into the first lane leaves too few. The comment of `truncate` says
   the compaction kept all the next query needs.
2. **After a failed lane the next pass sums the previous pass's returns**
   (`expert_wire_stale`, `OwnPlanes`; `dforward.rs:2265`). `inflight` keeps the
   abandoned exchange and `moe_finish` compares only row counts.
3. **A call that holds an unknown tag keeps the parser busy for ever**
   (`stream_parse`, `ParseEnds`; `parser.rs:185`). Stray text is skipped to the
   next `<`, which may be the one it starts with; each turn adds a report.
   `StreamEnds` leaves out exactly this thread.

Five more are configurations kept beside the runs; each ends in a counterexample:

| Command | Violated | What it shows |
|---|---|---|
| `tlc -config HostCacheLeak.cfg MCHostCache` | `SlotsConserved` | A failed export leaks arena slots (`hostcache.rs:320`): `capture` returns with `?` without `abort`. |
| `tlc -config SlotPoolRefusal.cfg MCSlotPool` | `RefusalKeepsPoints` | Without a RAM tier a refusal in place costs the slot its later points (`api.rs:553`); the comment says the slot keeps them. |
| `tlc -config SchedulerTurns.cfg MCScheduler` | `PrefillTurns` | A long prompt can wait for ever behind short ones (`api.rs:929`), when one pass of at most 1024 rows takes as long as `MIMO26_PREFILL_SEGMENT_MS`; otherwise every prompt gets its turn (`scheduler_loop`). |
| `tlc -config SparkStaging.cfg MCBackEnd` | `StagedRows` | `launch_chunk` writes a launch's tables at the head of the page-locked buffer (`decode.rs`) from which the stream may still have to copy the request's first rows; the comment at `decode.rs:685` says the FFN's own sync covers both. |
| `tlc -config TcpStale.cfg MCBackEnd` | `SumOwn` | A one-token sum that times out leaves its connections; the next request's exchange reads the late return as its own. `send_layer` "returns the request id the returns must carry" (`wire.rs:804`), but `exchange` drops it (`wire.rs:960`), and the sequence of the late return is the one that is due. |

Read along the way, and part of the models as the code has them: a readback
passes when the manifest lacks slices of the rank, which only a layer's first
request then finds; a layer's files are not compared with the manifest again
when they are loaded; a parallel TCP send that fails loses the connections it had taken
out of the client; a simulated ticket that failed leaves events behind that
make a later `collect` fail with `UnknownTicket`.

## 6. What is not modelled, and the plan

Left out of the modelled components: capacity growth of global layers (append
only), arena sizing from the environment, hash collisions of page keys, the
choice among equally old victims, and tensor contents, which are represented by
the tokens, positions or exchanges they come from.

Left out of the new ones: the RDMA handshake, bf16 rounding and damage a CRC
would miss, coercion of tool-call arguments, the JPEG transform and colours, the
colours of PNG palettes and tRNS, the weights of the resize, FP4 values.

Not modelled at all, and why: expert and attention arithmetic, the host forward
pass, kernels, the vision tower, sampling maths (numeric, no state to explore);
tokenizer, chat template, JSON (pure functions of text); loading of the
coordinator's own weights (start-up reads, run once). The earlier scheduler with
its pool and pager, the phase pages and the attention ring are small state
machines that the serving path does not use; they are the next to model, and
the scheduler has a hazard of its own: a pending request without prompt tokens
never leaves the head of its queue (`scheduler.rs:153`).

The order of the work, most important behaviour first:

1. *Done:* `DeviceKv`, `RequestQueue`, `HostCache` ⇒ `RamTier`, `SlotPool` over
   `RamTier`, `Scheduler`, `SpecDecode` with `CopyWindow`, `ExpertWire`; then `Stream`,
   `Frames` and `Ladder`, `TcpWire`, `SparkFfn`, `Slices`, `LaneSim` and the image
   modules; every safety property of the seven serving-path modules as a theorem,
   the refinement of `RamTier`, and those of `Stream`, `Frames`, `Ladder` and
   `TcpWire`.
2. *Next proofs:* `LaneSim` (`LaneExact`), then the driver of `Slices` (`LoadedExact`).
3. *Next modules:* the earlier scheduler with `KvPool` and `Pager`; the
   attention ring of `cache.rs` and the phase pages against what they promise.
