# Formal model of the GNS server

TLA+ modules, TLC runs and TLAPS proofs about the server of a gas filling
station (`src/GNS`): a Django application that tracks gas balloons by their NFC
tags, collects them into loading and unloading batches, reports them to the
external system "Miriada" and drives the filling carousels.

## The system

Three processes share a PostgreSQL database and a Redis server. Daphne serves
the mobile API and the web pages, each request in a thread; it starts two
asyncio processes (`GNS/asgi.py`), the RFID notification server and the carousel
listener. There is no request-wide transaction (`ATOMIC_REQUESTS` is off), so
every ORM statement commits on its own unless a function says `@transaction.atomic`.

| Component | State | Operations | Interacts with |
|---|---|---|---|
| Batches (`filling_station/models.py`, `services/batches.py`, `api/balloon_batches.py`, `views.py`) | rows of `BalloonsBatch`, the many-to-many `balloon_list` | create, PATCH, add / remove a balloon, pause, resume, close, retry-close, delete | called by the API, the web pages and the RFID process; calls Miriada |
| Posting of statuses (`services/batches.py:216-306`, `services/miriada.py`) | futures of a thread pool, retry counters | submit, post, retry, collect, cancel | Miriada over HTTP |
| TTN closing and import (`ttn/services.py`) | TTN rows | close with retries; hourly import | Miriada |
| RFID events in the database (`services/rfid.py`) | `Balloon`, `Reader`, the passport queue | tag read, optical sensor | batches, Miriada (passports), Redis |
| RFID notification server (`rfid_utils/feig_protocol.py`, `models.py`) | last five tags per reader, command session | tag, input and heartbeat events, lamp, acknowledgement | FEIG readers over TCP |
| Passport queue (`core/redis_queue.py`) | a Redis list per reader, one TTL for all of it | push, pop | written by RFID, read by the carousel |
| Carousel listener (`carousel/listener`) | cache of recent requests, the TCP buffer | 0x7A (empty balloon), 0x70 (full balloon), reconnection | passport queue, settings cache, `Carousel` rows |
| Carousel settings cache (`carousel/settings_cache.py`) | a store per process, a hash and a revision in Redis | load, upsert, remove, sync | web process and listener |
| Statistics cache (`api/balloons.py`, `filling_station/signals.py`) | one cached value | compute, invalidate | every save of a batch, balloon or reader row |
| Balloon API and web pages (`api/balloons.py`, `views.py`) | `Balloon` rows | create, PATCH, change of tag, form, delete | RFID events write the same rows; deleting a balloon drops it from batches |
| Transport, TTN documents, mobile delivery, web pages, admin | rows | CRUD | - |

### What is hard in it

* Handlers read a row into an object, decide on the copy and write *all* columns
  back. Two requests, or a request and a tag read, interleave between any two
  statements; nothing is locked except in `resume`.
* Closing a batch is a distributed operation without a transaction: statuses of
  all balloons (in parallel, with retries), then the TTN, then the row. Any step
  may fail, be recorded by Miriada although it failed here, or be the last one
  before the process dies; the operator then closes again.
* Counter and list of a batch are separate facts: the counter is compared with
  the TTN, the list is what is reported.
* The carousel assigns passports by order, through a queue, a duplicate cache
  and a record that is found again as "the newest of the post".
* Caches of settings and of statistics are filled from values read earlier, and
  the signals that clear them are sent before or after the commit, depending on
  how a row is written.
* A balloon is changed by requests and by tag reads that each write back all
  columns of a copy, while its tag, the key everything else uses, may change too.
* Both wire protocols cut frames out of byte streams by length; what is lost,
  split or late on the wire must not shift what comes after it.

### What makes each component correct

* Batches: counter = list; one active batch per reader and type; the failure
  flag agrees with the status; a TTN is closed only after a complete pass over
  the statuses; "completed" implies a closed TTN; a paused batch stays paused.
* Posting: the reported outcome is true, cancelled statuses were not sent,
  nothing is sent after the outcome was reported, the call returns.
* RFID: a balloon is processed once at a time; passports are queued in the order
  of the passes; the lamp and the acknowledgement tell the truth about the event;
  one command at a time; every event is answered.
* Carousel: a record carries the passport of the balloon on the post; a repeated
  request has no second effect; the stream resynchronises.
* Settings: after the last save the listener ends with the saved values.
* Statistics: a value older than the last save does not stay.
* Balloons: a passport is marked up to date only when it is there; a request
  changes the balloon it names, or nothing.
* Wires: every event is read as it was sent, answers go to the commands they
  answer, only whole frames of the posts are accepted, and a target weight is
  made from the passport and settings it is sent for.

`PROJECT.json` lists the hazards at their lines, with the properties that cover
each of them or the reason why none does.

## Modules

| Module | What it is |
|---|---|
| `BalloonsBatch` | batches and the handlers that work on them, statement by statement; the refinement mapping to the ledger |
| `BatchLedger` | abstract: every request takes effect at once or not at all |
| `MCBalloonsBatch` | instances for TLC, symmetry |
| `BatchProofs` | proofs about `BalloonsBatch` |
| `PostStatuses` | the thread pool that posts the statuses of one closing |
| `StatusPass` | abstract: one pass over the statuses, the grain of `BalloonsBatch` |
| `PostProofs` | proofs about `PostStatuses` |
| `SettingsCache` | the cache of carousel settings: web process, Redis, listener |
| `MCSettingsCache` | its instance for TLC |
| `SettingsProofs` | proofs about `SettingsCache` |
| `RfidReader` | the RFID notification server for one reader: events, filter, service thread, lamp |
| `MCRfidReader` | its instance for TLC |
| `RfidProofs` | proofs about `RfidReader` |
| `CarouselListener` | the listener of one carousel, with the posts and the passport queue |
| `ListenerProofs` | proofs about `CarouselListener` |
| `DataInduction` | lemmas: induction over numbers and finite sets in a form the provers can use |
| `Bits` | bytes, words and bit sets, for the CRCs |
| `FeigFrames` | frames of the FEIG readers: CRC, requests, parsing of events (operators) |
| `FeigLink` | the two connections with a FEIG reader, byte by byte |
| `CarouselFrames` | frames of the carousel and the weight of an answer (operators) |
| `CarouselTransport` | the connection with the NPort of a carousel, byte by byte |
| `Wires` | both wire protocols side by side: extends `CarouselTransport`, instantiates `FeigLink` |
| `MCWires` | its instance for TLC |
| `TransportProofs` | proofs about `CarouselTransport` and `FeigLink` |
| `Balloons` | the table of balloons, its handlers and the cached statistics |
| `BalloonProofs` | proofs about `Balloons` |
| `BalloonRegistry` | abstract: each request on a balloon takes effect at once or not at all |
| `OrderlyBalloons` | `Balloons` with requests that do not overlap, and the refinement mapping to the registry |
| `MCBalloons` | instances of `OrderlyBalloons` for TLC |
| `MiriadaRequests` | which request a balloon status becomes (operators) |
| `TtnServices` | closing of a TTN with its retries, import of the current ones (operators) |

Each module with runs also holds operators marked "Seeded fault": the
plausible slips that `PROJECT.json` pairs with the property that detects them.
They are not part of any specification.

### BalloonsBatch

`db` is the table (a row per primary key), `list` the many-to-many table,
`today` the rows whose `started_at` is of the current date. A *session* is one
handler in flight; `pc` is its next statement, `inst` the model instance it
holds, `on` the row that instance stands for and `todo` the tags it works on.
A handler's first action reads the row and makes every decision the code makes
on that copy before its next statement; each further action is one SQL statement
or one HTTP exchange, so other sessions run exactly where they can in the
server. `save()` writes all of `inst`; `save(update_fields=...)` writes the named
columns. `WithFlag` is the override of `save` that keeps `miriada_close_failed`.
`held` are the rows `resume_balloons_batch` has updated but not committed: they
are not visible to others, and others' UPDATEs of them wait (`Unlocked`).
`posted`, `ttnClosed` and `passed` are Miriada's side; `passed` is a history
variable (all statuses of one reading of the list were acknowledged).

A *channel* is a pair (batch type, reader number). `PostingChannels` are those
of readers whose statuses are reported at closing (`MIRIADA_BATCH_STATUS_READERS`);
for `MismatchedChannels` the payload cannot be prepared (`ValueError`).
`TtnBatches` are the batches with a TTN to close: it stands for `ttn_id` and the
exception for trucks of type "Клетевоз".

Simplifications, each with its reason:
* the newest batch is the one with the greatest key (`ordering` is by
  `started_at`, which grows with the key);
* an aborted transaction (a PostgreSQL deadlock) is a `Crash` of its session;
* the two count comparisons of a closing (`batches.py:323` and
  `batches.py:412`) read the same object with nothing between them: one action;
* a tag no `Balloon` has changes nothing in a batch and is left out;
* `reader_number` of an existing batch does not change (a PATCH could change it);
* `completed_at` and the error text are not modelled; no decision reads them.

### PostStatuses

A job is a `concurrent.futures.Future`; jobs are numbered in submission order,
which is both the order the pool's queue hands them out and the order of the
dictionary the cancelling loop walks. A cancelled future stays in the queue:
`as_completed` yields it when a worker meets it ("dropped"). Each attempt may
fail with or without Miriada having recorded the status.

`BalloonsBatch` does not contain this machinery: its `PostOk` and `PostFail`
are steps of `StatusPass`, which `PostStatuses` implements (run
`post_statuses`, theorem `PassRefinement`).

### SettingsCache

`row` is the committed table, `hash` and `rev` are the two Redis keys, `store`
and `local` are `_store` and `_local_rev` of the listener. The web process never
reads its own store, so it has none. Each Redis command, each use of `_lock` and
each query is a step; a process's lock is held exactly while one of its threads
is at "bump" (between the change of the hash and the `incr`). A row is the number
of the write that made it. The API commits before the signal publishes; the
admin site publishes inside its transaction (`txn`) and commits afterwards. The
listener's threads handle at most one request per carousel at a time, and each
request syncs once or, through `check_settings`, again before a lookup.
`_loaded` is true in the listener from its start on.

Three history variables say what the properties except: `unsure` numbers were
written while another thread published the same row, or their publication
failed; `lost` stands until the next revision after a failed call; the store is
`apart` from its revision after a load or an upsert that set rows without
syncing. Left out: a rollback of the admin's transaction after the signal, a
change of `number` itself, and a PATCH that writes back a row deleted since it
was read.

### RfidReader

Everything the server keeps is kept per reader, so one reader is modelled, with
the last notification connection it opened and the one before, whose handler may
still be at work. A coroutine runs alone between two awaits, so each action is
what it does from one await to the next; `pc` names what it awaits. `OthersRan`
is the order of the asyncio loop: a coroutine that is ready runs before one that
still had a network exchange to make. `work` and `Turn` are the single thread of
`sync_to_async`; a tag goes through it in up to four stages (`Balloon`: balloon
row and passport; `Table`: row in the reader table; `Cache`: passport queue;
`Report`: immediate report), and each stage may fail in the way the code lets it
fail: as an "error" result, or as an exception that leaves the event (`Abort`).
The addition to a batch between the first two stages swallows its errors and is
`AddRfid` of `BalloonsBatch`.

`session` is the command connection the session has (`self.conn`), numbered in
the order they were opened; each comes with a new lock, so locks have the same
numbers. `stream` is the connection to which a coroutine sent its command. A
broken connection that the session keeps is not a state of its own: `Write` may
fail at any time. Pops from the passport queue belong to the carousel listener.
Left out: unknown peers (always 0x04), several records in one input event, the
start of the server (`Init` has the session connected or not).

### CarouselListener

`pc` is the step of `serial_exchange`; the listener of a carousel handles one
frame at a time, so only posts and the RFID process interleave with it. Balloons
are numbered as they pass the RFID reader, and arrive at the posts in that order;
frames carry a balloon number for the properties only: no action of the listener
decides by it. A target weight is represented by the passport it is made from.
The posts (`Arrive`, `Weigh`, `Repeat`, `Quiet`, `Leave`) are outside the
repository and modelled from what the listener's docs say of them: a frame is
repeated for about two seconds, filling and a turn take much longer (`Settled`).

The cache has no clock. An entry may expire once the post repeats the frame no more,
because it was made after the frame was first sent and lives as long as the
repetitions; with `Prompt` it also outlives the repeated frames that are still to be
read. A new connection finds the cache empty: reconnecting takes a minute, an
entry two seconds. `mishap` is a history variable: something between the reader
and the record went wrong. Left out: two carousels that share an RFID reader,
request types no post sends, records created through the HTTP API
(`update_from_carousel`, the predecessor of the listener).

### MiriadaRequests and TtnServices

Pure functions, evaluated by TLC in the runs of `MCBalloonsBatch`.
`MiriadaRequests` is `services/miriada.py` up to the request: a reader and a
batch lead to one request or to none (`ValueError`). The channels of the batch
runs are batch types and readers of the code, and `PostingChannels` and
`MismatchedChannels` are derived from it. `ReadersReportOnce` says that no
reader reports a balloon both when it passes and when its batch is closed, and
that a reader looks up for itself the batch a closing would hand it.

`TtnServices` has the attempts of `close_ttn_in_miriada` and of the import.
`ClosingOutcomes` derives the three outcomes of `CloseTtn` from them: success
means closed, but a failure after an answer that was lost does not mean open.
`ImportIsUpsert` says that importing twice is importing once.

### FeigFrames, FeigLink

`FeigFrames` is the code's parser on real bytes: the CRC as a register of bits,
the optional sectors of a record, the three kinds of identifiers, `break`s
included. `FeigLink` puts it on the wire. `sent` holds the events the reader
sent, `unsent` and `inbox` the bytes of the last one that are to come or to be
read; `pc` is the read the handler waits in. On the command connection `asked`
numbers the commands and each answer carries the number of its command in its
status byte, which no code looks at. `disturbed` is a history variable: a
timeout, an answer in two segments or a hangup. `Told` computes what an event
says from its description, without the parser. Left out: the tag filter and the
service thread (they are `RfidReader`), antennas, values of date, time and
signals, which nothing reads, and the commands no code sends.

### CarouselFrames, CarouselTransport

`CarouselTransport` is `AsyncTcpTransport` with the part of `serial_exchange`
from a frame to its answer. `line` holds the bytes between the posts and the
NPort, `stream` those that have arrived, `buffer` the unfinished frame and
`since` its age in seconds (`Tick`: a read waits for one second, then times out).
The line may lose, add or change a byte. `FullWeight` is the arithmetic of
`request_processing`: correction, ranges and the integer part of a product of
floats, which may fall one gram short (`Grams`). Weights are in grams, a value
that may be `None` is a set of at most one. Left out: what a frame does
(`CarouselListener`), the request cache, and a comparison of floats exactly at
the end of a range, which may go either way (`NoAnswer` is always possible).

### Balloons

`balloons` is the table by tag: one passport column (`serial`), the flag
`update_passport_required` (`due`) and a column the statistics count (`kind`).
Handlers are statement by statement as in `BalloonsBatch`. A row written by
`update_or_create` or `delete()` is locked until the commit, and its signal is
sent inside the transaction; `save()` and `create()` commit first. `statistic` is
the cached value, `got` the one a request is computing, table by table; `silent`
counts changes that send no signal (the day, `ReaderSettings`). `outdated` is a
history variable: a write overlapped the computation of the cached value, or a
signal after it was lost. The RFID pass is `processing_request_with_nfc` without
its queue (`RfidReader`) and with the batch as a signal only (`BalloonsBatch`).
`BalloonRegistry` is what requests that do not overlap promise; half of the
behaviours of `OrderlyBalloons` are `orderly`, and the mapping is constant on the rest.

Simplifications: Django's UPDATE-then-INSERT in `save()` is one step; Miriada's
answer always has a number; clients send `due` = false only together with a
passport; a batch change is its signal.

Observations that are not properties of a run:
* a PATCH that changes the tag resets every column it does not send, and drops
  the balloon from all batch lists (the row is deleted and made anew);
* the web form of a balloon with a changed tag leaves the old row in place and
  overwrites a balloon that has the new tag (the tag is the primary key);
* `get_statistic` counts full and empty balloons in separate queries;
* a FEIG command session that the reader closes cleanly is never reopened: reads
  return nothing, writes may succeed or fail, but only a failed read drops it;
* a target weight above 65,535 g raises in `struct.pack` after the passport was
  popped, and the listener pauses for 300 s;
* a misaligned carousel stream without a gap of ten seconds stays misaligned;
* a repeated carousel request that waits behind other frames for longer than the
  two seconds of its cached result is processed again (`Prompt` = FALSE in
  `CarouselListener` shows it as a violation of `OneTakePerRequest`);
* a PATCH with status 3 of a batch in `MIRIADA_ERROR` writes "completed" without
  closing anything (with "completed" in `PatchStatuses`, `CompletedMeansClosed`
  is violated), although the API text describes it as a closing.

## Runs

| Run | Question | Bounds |
|---|---|---|
| `batch_sequential` | what an operator who waits for each answer may rely on; refinement of `BatchLedger` | 2 batches, 2 channels (one reporting), 2 tags, counters up to 2; one session, no crash |
| `batch_concurrent` | what survives interleaving and crashes | 1 batch with a TTN, 2 channels (one that cannot be prepared), 1 tag, 2 sessions, crashes between any two statements, clients that write the statuses active and paused |
| `batch_pause_lost` | is a pause final? No | as above, no crash |
| `batch_late_scan` | are all balloons of a completed batch reported? No | 2 tags |
| `post_statuses` | the pool with failures, lost answers and cancellation | 4 statuses, 2 threads, 1 retry |
| `settings_cache` | what the listener ends with after any overlap of writes, start, syncs and one failure | 2 numbers (one exists at first), 2 web requests, 2 listener threads, 2 writes, 1 failure |
| `rfid_reader` | what two connections, one filter, one thread and one lamp may do to each other; is every event answered? | 2 connections, 3 events, 3 tags and a stranger's, 2 tags remembered, 2 command connections |
| `carousel_listener` | what a record and a post get, whatever is repeated, lost or fails | 2 posts, 2 balloons, each frame sent twice at most; any number of failures |
| `rfid_lamp` | is the lamp steady only after success? No | as `rfid_reader`, 2 events |
| `wires` | does either stream lose its place, and what is accepted and answered? | FEIG: 3 events, the first of 22 kinds, each in at most 2 pieces, 3 commands, answers in segments of 3, 5 or 8 bytes; carousel: 3 frames of 2 kinds, 1 damaged, segments of 4 or 8 bytes, 3 passports, 4 settings |
| `balloons` | what overlapping requests, passes and signals leave in the table and in the cached statistics; refinement of `BalloonRegistry` | 2 tags, tables with 1 or 2 rows, 2 web requests and the RFID thread, 3 requests in all, 6 bodies, 2 retries, 1 silent change |
| `balloon_patch` | does a PATCH keep the balloon? No | 1 tag, 1 web request at a time |

The sequential run needs two batches for "one active per reader" and for the
pause of the other one, a second channel that must be left alone, and two tags
so that counter, TTN amount and list can differ by more than zero/non-zero. For
the concurrent properties the conflict is always about one row, so one batch and
two sessions suffice for each pairwise race; two channels make both ways of
failing (Miriada refuses, payload refused) reachable. In the pool four jobs on
two threads give every combination of a finished, running, queued and cancelled
job. `MaxCount` and `MaxSensor` bound the counters in the guards of the requests
that raise them; the key space `MaxBatches` bounds creation, so a behaviour may
end when all batches are deleted or completed and the date has changed:
deadlock is not checked. `PostStatuses` ends when the call returns.

For the settings two numbers tell "this row" from "another row", two writes let a
publication be overtaken, and one failure at any call leaves room for a healthy
call before and after it. The listener may end (nothing configured) and the
writes are bounded, so deadlock is not checked.

For the reader the five remembered tags are scaled to two: the first event fills
the filter, the second makes it forget a tag, and the third brings a tag of the
first again, while processing of the earlier ones is at any stage.
`NoDoubleProcessing` is a fact of that proportion, not of the filter alone: when
one event after another forgets more tags than are waiting for the thread
(five-tag events in the code), a tag may be processed twice. How many places the
deque needs is proved (`TagsApart`). Two command
connections are what a double connect needs.

Two balloons on two posts are the least in which an answer, a passport or a full weight
can go to the wrong one, on another post or on the same post later; the second
sending of a frame is the first that can be a duplicate.

The two wire protocols share nothing, so `wires` lets the first step decide which
of them is exercised. Three frames are one that is damaged, one that is read
from the wrong byte and one that must be right again; the stale time of ten
timeouts is scaled to three. Three events are one of any kind, one that may be
damaged and one behind it; three commands let an answer be late for its own and
be taken by the next but one. The 22 first events cut a payload at every sector
the parser checks for. Every session may be idle for good and both lines may
fall silent, so deadlock is not checked.

For the balloons three requests are two that overlap and one that made the state
they meet; the two bodies with a whole passport tell a sent passport from a
fetched one. The requests are bounded, so deadlock is not checked.

Four runs are expected to find a violation; each disagrees with a sentence of
the repository's documentation:
* `PauseSticks`: `add_balloon` saves a copy read before the pause and makes the
  batch active again, against the API description of pause.
* `CompletedListPosted`: a balloon added while the statuses are being sent is in
  the completed batch and is not reported, against the docstring of
  `attempt_close_balloons_batch`.
* `LampHonest`: a balloon whose processing failed is taken for a repeat when it
  is read again, and the lamp is steady, against the docstring of
  `indicate_tag_read`.
* `PatchKeepsBalloon`: a PATCH without a tag, the documented example, deletes the
  balloon and makes a row with an empty tag, against the API description ("update
  of single fields") and the documented answer.

### Fairness

`PostStatuses`: weak fairness of the calling thread and of each
pool thread. Every HTTP request carries `MIRIADA_TIMEOUT` (30 s) and attempts are
counted, so a thread always gets an outcome and goes on; nothing else blocks it.
`RfidReader`: weak fairness of each coroutine together with its service call. The
calls end (database, Redis and HTTP timeouts), the answer of a reader is awaited
for one second, the thread serves calls in order and the lock is fair. The
reader itself has none: it may never connect or send again.

The other specifications have none: clients may stop at any point.

## Proofs

`BatchProofs` (for every number of batches, tags, channels and sessions):
* `TypeCorrect`: the type invariant.
* `FlagCorrect`: `CloseFlagAgrees`. By itself it is not inductive, because a row
  is overwritten from session copies and from rows locked by a resume. The
  strengthening adds that copies on their way to `save()` agree too, and
  `LockInv`: locked rows belong to one session that is at its commit, and are
  still the active rows its UPDATE matched.
* `PassCorrect`: `TtnClosedAfterPass`. The strengthening speaks of the whole
  chain: a session at or after `mark_sent` on a reporting channel has a complete
  pass behind it, a raised flag (in the row or in any copy) has one, and channels
  of copies agree with rows.
* `CompletedCorrect`: `CompletedMeansClosed` under `DisciplinedClients` (no client
  writes the status "completed" itself). Without the assumption it is false: a
  PATCH may write that status over `MIRIADA_ERROR`.

Four more are about one handler at a time (`NoOverlap`: one session, no crash).
With two sessions TLC finds `CountMatchesList`, `OneActivePerChannel` and
`SentCoversList` violated, so the hypothesis is needed and the code does not
ensure it. They rest on `AloneInv`: the copy of the handler at work is not stale
(`Fresh`, but for a status a PATCH is about to write), and what it has found out is
still so at its next statement (`At`: the batch is open, the tag is or is not in the
list, all statuses are posted ...).
* `CountCorrect`: `CountMatchesList`, if clients leave the counter alone
  (`CountsOwned`). `CountInv` says by how much counter and list differ between the
  statements of an addition or a removal.
* `ActiveCorrect`: `OneActivePerChannel`, if no client opens a batch with a PATCH
  (`StatusesOwned`; without it the property is false for one session too).
  `ActiveInv` names the one other active batch a creation or a resume has still to
  pause.
* `SentCorrect`: `SentCoversList`, under `StatusesOwned`. `SentInv`: a batch with
  the flag is closed or being closed, so that nothing joins its list.
* `LedgerCorrect`: the refinement of `BatchLedger`, under `LedgerClients` (statuses
  change through the requests for it). Every statement is a step of the ledger or
  none. `Views` gives the ledger's rows for each place of the one handler, before
  and after its step.

`PostProofs`: `PostTypeCorrect`, `ResultCorrect`, `CancelledCorrect`,
`QuietCorrect` and the refinement `PassRefinement`, from one inductive invariant
`PostInv` relating job states, attempts, collection and the error flag.

`BalloonProofs` (for every number of tags, web requests, passes and bodies):
* `BalloonTypeCorrect`: the type invariant. The counters need `CounterInv`: a pass
  is counted as a request when it starts and as a record when it is written.
* `PassportCorrect`: `FlagHonest` under `HonestClients` (whoever calls a passport up
  to date also sends its number). The strengthening `HonestInv` speaks of every
  copy that may still be saved, not only of the rows. Without the assumption it is
  false: the API accepts `update_passport_required` = false alone.
* `StatisticCorrect`: `StaleOnlyByOverlap`. The strengthening has `FreshInv` (a
  computation nothing overlapped has read what the tables still say, column by
  column) and `OpenInv` (a signal sent inside a transaction has dropped the value,
  and one stored before the commit is known to be outdated).

* `RegistryCorrect`: the refinement of `BalloonRegistry` by the requests that do
  not overlap (`OrderlySpec`). `OrderlyInv` says what the handler that runs relies
  on: its instance is the row it read, the old tag has its row or has lost it, the
  new one is free. The first commit of a pass is the registry's scan, its second
  save the update of the passport; a change of tag takes effect with the new row.

`RfidProofs` (for every number of tags, events, remembered tags and command
sessions, and the last two notification connections):
* `RfidTypeCorrect`: the type invariant. The filter is a recursive function over
  the tags of an event; that it keeps its bound and holds no tag twice is proved by
  induction over the tags (`SetInduction` and the recursion lemmas of
  `DataInduction`, where a set takes the place of the library's predicate).
* `QueueInOrder`: `QueueFollowsPasses`, by `OneInThread` (one coroutine at a time is
  with the service thread) and `RowAhead` (the row it is about to queue is newer than
  all that are queued).
* `CommandsApart`: `OneCommandPerStream`, by `LocksFit`: whoever has a command open
  holds the lock of its connection, whoever waits for a lock finds the same
  connection when it gets it, and nobody waits while a new one is opened.
* `AcksHonest`: `AckHonest`, by `TodoFits`: tags are left to process exactly while a
  coroutine is with the services.
* `TagsApart`: `NoDoubleProcessing`, when no event has more than m tags and the deque
  more than m * m places; with the five places of the code that is two tags, and with
  three places TLC finds two-tag events that are processed twice. `Lag` bounds how far
  behind the end of the deque a tag in hand is: the thread serves the coroutines in
  turn and whoever acknowledges waits for those that are ready, so the other one
  brings one event for each tag processed, and one more while the next waits
  (`Rounds`, `Late`). `Grown` says what an event does to the deque, by induction over
  its tags; `WorkOK` who waits for the thread.

`ListenerProofs` (for every number of posts, balloons and repetitions):
* `ListenerTypeCorrect`: the type invariant, with the order of the passport queue.
* `FullWeightsOwn`: `FullWeightOwn`, whatever fails or is lost. `Apart`: what is at a
  post (on it, on the wire, in hand) belongs to one balloon; `Weighed`: nothing asks
  for a target weight after the weighing; `RowOrder` and `FullsOK`: the row a full
  weight is written to is the last one of its post.
* `TakesOnce`, `AnswersMatchRecords`, `OwnPassports`: the properties of passports and
  answers, under `Prompt` (a frame is handled before the cached result expires).
  The code does not ensure it: with `Prompt` = FALSE TLC finds the three violated.
  `TakenOnce`: a balloon for which a passport was taken is closed (`Closed`: each
  request of it still to be handled finds the cached result). `GivenOnce`: all that
  was answered for a balloon, is cached or recorded, is one passport. `Orderly`:
  while nothing went wrong, the requests not yet served are those of the balloons
  whose passports are in the queue, in the same order.

`SettingsProofs` (for every number of carousels, requests, threads, writes and
failures):
* `SettingsTypeCorrect`: the type invariant.
* `StoreFollows`: `StoreFollowsHash`, by `StoreFresh` (the store of a listener that
  is up to date is the hash, also while one of its own threads is about to raise the
  revision) and `ReadFresh` (what was fetched under the current revision is the hash).
* `HashFollows`: `HashFollowsRows`, by `Agreement`: for a number nobody spoilt, either
  nobody writes it and all that are about to publish it hold its row, or one request
  writes it and nobody else is about to publish it.

`TransportProofs` (for every request, passport, setting, event, number of commands,
length of a segment and time limit). Of a CRC only its range is needed, except for
`OnlySent`: a frame carries what the checking side computes of it (`CheckedFrame`,
`ReaderFrame`).
* `FramesWhole`: `FramesIntact`. `StreamInv`: buffer, stream and line put together
  are the frames still to be read.
* `SilenceFrees`: `SilenceClears`. `TimerInv`: the timer of an unfinished frame runs
  as long as there is one, started with the silence at the latest, and ends the
  connection at its limit.
* `AnswersRight`: `AnswersWithinRanges`, from the ranges of `request_processing`
  (`WeightWithin`) and from the packing of the weight into two bytes (`AnswerBytes`).
* `OnlySent`: `OnlySentAccepted`, for requests with `FramesApart`: of two of them in a
  row, whole or damaged, no eight bytes pass the CRC but those of a request. That is a
  fact of the bytes; TLC evaluates it for the requests of the run (an assumption of
  `MCWires`). It holds of the bytes of two pieces, the listener cuts those of any number
  of them, some lost in between: `Sound` has it of all bytes under way, wherever they are
  cut (`Clean`), and that they end as a piece does (`Ends`), so that with what is sent
  next (`CleanMore`) eight bytes still reach into two pieces at most.
* `AcksOrdered`: `AcksInOrder`, and `EventsRead`: `EventsExact`. `WireInv` has the
  bytes of the notification connection, header read, inbox and what is to come,
  divided into the events not yet handled (`InLine`): the handler that reads a length
  is at the beginning of a frame, and the length it reads is that of the frame.
  Segments, damaged frames, other events and failures never change what is parsed.
* `ParsedRight`: `ParsedAsTold` for every event, on which `EventsRead` rests. The
  parser finds a record only by having read the ones before it, so that this is an
  induction twice over. `FlattenPlaces`: where the bytes of a record are among those of
  all. `TagsRead`: the positions the loop goes through are those of the event's own
  records, up to the first one it cannot get past (`Passable`), and what it collects are
  their identifiers. In between stands one record: `RecordRead`, of whose bytes a cut
  payload may have any number, and which is read whole or breaks the loop, whichever
  sectors its layout announces and whatever type its identifier has.
* `OwnAnswers` and `AnswersKept`: `AnswersMatch`. Its first half, for a connection
  nothing has disturbed, is unconditional: `Alone` has the bytes of the one awaited
  answer and of no other. Its second half rests on a fact of the bytes, `OneStart`:
  within the answers to that many commands only the first byte of one starts a frame,
  because behind every other STX stands a length greater than all of them. TLC
  evaluates it (an assumption of `MCWires`): it holds up to 116 commands and fails at
  117. With it `InSeries` is invariant: what is unread is a stretch of a series of
  answers, each to a later command than the one before (`Stretch`), so that what passes
  `parse_response` is the next answer, whole (`WholeAnswer`).
* `WiresTypeCorrect`: the types of both, with `CommandTypes` for the command
  connection (five bytes are kept exactly while the rest of an answer is awaited).
* `EachWireAlone`: a run of `Wires` is one of both, so that all this holds in it.

Assumptions on constants are `BatchAssumption`, `PostAssumption`,
`BalloonsAssumption`, `RfidAssumption`, `ListenerAssumption`, `SettingsAssumption`,
`TransportAssumption` and `LinkAssumption` (what an event consists of; the events and
the answers fit into their bytes), evaluated by TLC in every run of these modules.
`MaxSessions > 0` and the finite set of connections of `RfidReader`, and
`StaleTicks > 0` of `CarouselTransport`, were found missing by proofs. Another proof
found that a passport lost between its pop and its record had not been counted as
taken (`Taken` of `CarouselListener`).

Only model-checked:
* `Returns` and the answers of `RfidReader`: liveness, out of the prover's reach.
* `NoDoubleProcessing` for larger events or a smaller deque than `TagsApart` allows, as
  in the run `rfid_reader`: its few events are not enough to forget a tag in hand.
* `OnlySentAccepted` for requests without `FramesApart`. A CRC of two bytes must fail
  where there are enough of them: TLC finds `FramesApart` true of all requests of two
  posts, or five, of both types with two weights and two flags, and false of ten.
* `AnswersMatch` behind a disturbance for more than 116 commands on one connection: there
  the middle of an answer can look like the start of one (`OneStart` fails), and only the
  CRC would tell.
* `PauseSticks`, `CompletedListPosted`, `LampHonest` and `PatchKeepsBalloon` are false.

## Plan

Done: `BalloonsBatch` with its ledger and proofs, `PostStatuses` with `StatusPass`
and proofs, `SettingsCache`, `RfidReader`, `CarouselListener`, the wire protocols,
`Balloons` with its registry and proofs, the Miriada and TTN exchanges.

Done as well: the proofs of types and safety of all these, both connections of a FEIG
reader among them, and the refinements of batches and balloons by requests that do not
overlap.

Left: two carousels that share an RFID reader; records written through the HTTP API.

## Not modelled

* Texts of payloads, messages and numbers (normalised registration numbers, card
  numbers), reader and carousel commands no code sends.
* Endpoints and pages that only read; filters and statistics beyond the cached ones.
* Transport, TTN documents and mobile delivery: one row, one statement per
  request, no decision that reads another row.
* Web layout, admin, navigation, migrations; the deprecated batch classes
  (`models.py:605-1011`), which no handler uses.
* `asgi.py`, which starts the two listener processes once and never restarts them.
