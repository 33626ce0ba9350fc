# Temari: a verification project

TLA+ models of Temari, a library that decrypts batches and streams of samples
on a pool of worker threads (Rust core, Python, Go and WebAssembly bindings).
The models are written from the code, one action per access to shared state;
TLC checks them on small instances and TLAPS proves what matters most for every
value of the constants. Paths are relative to the repository root.

## 1. The system

```
 Python / Go / wasm caller threads
        |  (ctypes, purego, wasm exports)
        v
 ffi.rs --- template.rs     tmpl_from_json: JSON -> immutable Template
   |  |
   |  +---> stream.rs       submit -> [channel in] -> coordinator -> [channel out] -> next
   |             |
   +-----------> pool.rs    one job slot, workers, two condition variables
                    |
                 rounds.rs -> rounds_gen.rs   one sample, or a pair in two lanes
```

| Component | State | Operations | Hard behaviour | What makes it correct |
|---|---|---|---|---|
| Worker pool (`src/pool.rs`) | `POOL`, `run_lock`, the job slot and its mutex, `epoch`, `shutdown`, `done_mutex`, and per job `next`, `pending`, `finished` and raw pointers into the caller's frame; `my_epoch` per worker | `par_decrypt_into`, `run`, `worker_loop`, `drop` | two condition variables, atomics with Acquire/Release, pointers that outlive their frame unless the protocol holds, late and spurious wakeups | no pointer is followed after `run` returned; every sample is done once, all before `run` returns and visible to it; one job at a time; `run` and `drop` return |
| Stream (`src/stream.rs`) | `tx_in` in a mutex, `closed`, a bounded channel in, an unbounded one out, the coordinator's buffer and `input_open` | `submit`, `try_submit`, `next`, `try_next`, `finish`, `is_finished`, `drop`, the coordinator | a submit that blocks with the mutex held, idle timeouts, end of input with samples queued, a coordinator that unwinds | order, nothing lost or doubled, an honest end, bounded lead of producers, nobody waits for ever |
| FFI (`src/ffi.rs`) | none; owns handles | ten exports, wrapped in `catch_unwind` except the two destructors | several threads in one handle; results folded into integers | a caller can tell an end from a result and from an error |
| Batch and region (`src/rounds.rs`) | none | offsets, two lanes, tail pass-through, block reconstruction | odd batches, lengths that are no multiple of 16, the block counter of 32 bits | same result as one sample at a time; disjoint regions that cover the output |
| Cipher rounds (`src/rounds_gen.rs`, `process_block`) | 2048 slots per sample: keys, scratch, the last ciphertext block and an offset counter | four generated functions of straight-line stores | slots written several times within a block, read blocks later, keys and scratch in one array, byte indexes put together from two registers | every lookup gets a whole word of its round; no key is overwritten; the blocks are chained |
| Template (`src/template.rs`) | none | flat JSON, base64, hexadecimal numbers, state slots | truncated input, escapes, panics that must not leave the library | a whole document loads as written; a cut one gives its keys or none |
| Python binding (`bindings/python/temari/__init__.py`) | the handle, the cache of loaded libraries, the queue and semaphore of a pump | decrypt, stream, `aiter` | a retry after the sample was consumed, a thread that pumps into an event loop, `close` during a call | each plaintext delivered once, whatever its length |
| Go binding (`bindings/go/`) | the handle, a pump goroutine | the same | the same retry; a pump nobody reads | the same |
| On-demand build (`__init__.py`, `bindings/go/selfbuild.go`) | a cache directory shared by processes | build, install, load | several processes, a crash half-way | a library that is loaded is complete |
| WebAssembly binding (`bindings/wasm/temari.js`) | a bump pointer | alloc, decrypt | a second allocator in the same memory | its regions and the Rust heap are disjoint |

`bindings/go/crate/src` is a byte-for-byte copy of `src/` that the Go module
embeds; what is said of one holds of the other. `PROJECT.json` lists the
components with their status, and under `hazards` every place where the code is
hard to test, with the properties that watch it.

## 2. Modules

| Module | Role |
|---|---|
| `BatchService` | abstract: what `decrypt_par` promises its callers, with no threads in it |
| `WorkerPool` | detailed: `src/pool.rs` |
| `WorkerPoolInvariant` | the inductive invariant `IInv` |
| `WorkerPoolProofs` | theorems and proofs about `WorkerPool` |
| `MCWorkerPool` | symmetry sets for TLC |
| `OrderedStream` | abstract: what a stream promises |
| `Stream` | detailed: `src/stream.rs` |
| `StreamInvariant` | the inductive invariant `SInv` |
| `StreamProofs` | theorems and proofs about `Stream` |
| `MCStream` | symmetry sets for TLC |
| `StreamBinding` | detailed: the stream functions of `src/ffi.rs` and the loops of the bindings around them, over `OrderedStream` |
| `StreamBindingProofs` | theorems and proofs about `StreamBinding` |
| `MCStreamBinding` | symmetry sets for TLC |
| `AsyncPump` | detailed: Python's `aiter()`, whose pump is a reader of `StreamBinding` |
| `Batch` | detailed: the bytes of one batch, `src/rounds.rs` and the slices the workers make, with its inductive invariant |
| `BatchProofs` | theorems and proofs about `Batch` |
| `MCBatch` | symmetry sets for TLC |
| `AsyncPumpProofs` | theorems and proofs about `AsyncPump` |
| `CbcDecrypt` | abstract: cipher block chaining of one sample |
| `BlockAddress` | the offset arithmetic of the rounds, on bits |
| `RoundProgram` | the stores of `src/rounds_gen.rs` and of the boundary in `src/rounds.rs`, as data |
| `TemplateSlots` | `ST_SLOTS` |
| `RoundChain` | detailed: one sample decrypted step by step, by running `RoundProgram` once per block |
| `RoundInvariant` | its inductive invariant `RoundInv`, and what the proofs assume of the program |
| `RoundChainProofs` | theorems and proofs about `RoundChain` and `BlockAddress` |
| `MCRoundChain` | the instance for TLC |
| `TemplateJson` | detailed: `src/template.rs` behind `tmpl_from_json` |
| `TemplateDocuments` | abstract: which responses a key server may send and what they say, by JSON and base64 and not by the parser |
| `TemplateJsonProofs` | theorems and proofs about `TemplateJson`, over these documents |
| `MCTemplateJson` | the responses of the instance |
| `SelfBuild` | detailed: the build on first use of both bindings |
| `SelfBuildProofs` | theorems and proofs about it |
| `MCSelfBuild` | symmetry sets for TLC |

### WorkerPool and the code

A thread's program counter `pc[t]` names the line it is about to execute:

* callers: `enter` (par_decrypt_into, 213), `lockRun` (111), `publish` (126),
  `notifyJob` (129), `lockDone` (130, and 132 when `wait` returns), `test`
  (131), `waitDone` (132, still holding `done_mutex`), `blocked` (in
  `cv_done.wait`), `unlock` (the guards are dropped, 134), `return`.
* workers: `unborn`, `lock` (141), `check` (143-148, job mutex held), `wait`
  (151, mutex still held), `asleep`, `claim` (156), `decrypt` (163-180),
  `retire` (181), `finish` (182), `notify` (183), `exited`.
* `Owner`: the thread that drops a `Pool` that is not the static one.

A job is named by its epoch and `jobs[e]` is the `Job` of epoch `e`. The `Arc`
a thread holds is `job[t]`. The raw pointers of a job are its `owner`: they are
valid while the owner is in `InRun` on behalf of this job. `out[c]` is the set of
samples whose plaintext is in the caller's buffer.

Reading a flag and waiting are two steps (`TestUnfinished`, `WaitDone`;
`NothingNew`, `Sleep`), because the threads that set the flags do not hold the
mutex the waiter holds. A step that holds a mutex throughout and touches nothing
else is one action (`Publish`). A thread in `blocked` or `asleep` may be woken
for no reason, as std documents.

Memory order. The counters are atomic and have one modification order each, so
their values are interleaved. What the orderings add is visibility of the
*plain* writes to the output: `seen[w]` is the set of pairs whose writes happen
before the next step of `w`, `released` what the release sequence of `pending`
carries (each `AcqRel` decrement adds `seen[w]` to it and reads it), and
`visible` what the `Release` store of `finished` publishes. `ReturnComplete`
demands that `visible` is the whole batch when the caller's `Acquire` load
succeeds. The `Relaxed` increments of `next` and `epoch` carry nothing.

### Stream and the code

The coordinator's counter `cpc` is `first` (line 143), `more` (150), `decrypt`
(171), `send` (174), `exited`, `panicked`. `inq` and `outq` are the two
channels; a closed channel in is `~txOpen`, and the coordinator's two channel
ends go with it (`CoordinatorGone`). The producers' labels are `submit` and
`finish` (waiting for the mutex), `send` (in `tx.send`, holding it) and `flag`
(between lines 110 and 111).

A sample is named by its place in the order of acceptance, which is the order
in which the mutex was held, and its plaintext bears the same name; lengths and
offsets are left to the batch module. Time is not modelled: an idle window may
elapse whenever the channel is empty and open.

A `StreamDecryptor` is not `Sync` (it holds a `Receiver`), so in safe Rust one
thread uses it at a time; several threads come in through `ffi.rs`, whose header
tells callers to wrap `stream_next` in a thread. `try_submit` is not exported,
hence `Alone` in its guards. Destroying a stream while a call is inside breaks
the contract of the handle and is not modelled (`BeginDrop`).

The pool appears as one step that returns with the batch complete, which is what
`ServiceSpec` says of it, or, with `Fallible`, as a panic: `Pool::new` spawns
threads on first use and `thread::spawn` panics when the system refuses. The
pool may also not return at all (section 5); all liveness of the stream is on
condition that it does.

### StreamBinding, AsyncPump and the code

`StreamBinding` instantiates `OrderedStream`, which `Stream` implements as long
as the pool does not panic: a call of `stream_next` that returns a plaintext is a
`Deliver`, one that returns because the stream is over an `End`. On top of it
samples have lengths (`size`) and a reader's loop has a capacity (`room`, the
`cap` of the code). What the FFI copies is `Copied`; the bytes are reduced to
their number. A call of the FFI and the test of its result are one action, since
the test reads nothing another thread can write. The lengths and capacities of
the instances are in other units than the code's 65536 and 4096; what matters is
that there are lengths of zero, below, at and above the first capacity, and one
that takes two retries. Go's `Submit` skips empty samples, so for Go 0 is not in
`Lengths`; its `C()` is a goroutine that calls `Next` in a loop, hence a reader.
`TryNextEmpty` is always possible before the end, because the promise does not
say when an accepted sample is ready.

`AsyncPump` adds the pump thread (`at` is where it is: `call` line 361, `read`
the return of that call, `chunk` 366, `rest` 370, `sentinel` 373), the
semaphore, the callbacks the event loop has been asked to make (`scheduled`), the
queue and the application. `acquire` and the request that follows it are one
step: only the pump takes from the semaphore and only the pump makes requests. A
chunk is never empty, so the empty sequence stands for the sentinel. The pump is
the only reader, as the class intends.

### Batch and the code

`WorkerPool` knows an output buffer as the set of samples written to it; `Batch`
is about the bytes. The caller lays the regions out one sample at a time
(`PushOffset`: `decrypt_par` in `src/rounds.rs`, the same loop in
`decrypt_samples_par` and in the coordinator), threads claim pairs, run the
two-lane loop one iteration at a time (`DecryptBlocks`), copy the tails
(`CopyTails`), and the caller cuts the buffer up (`Split`). A batch of one sample
is decrypted by the caller (`Crew`). How a thread comes by a pair and how the
caller learns that all are done is left to `WorkerPool`, which proves that each
pair has one worker and that all their writes are visible; here `Split` waits
until all pairs are retired.

The rounds are a free function. A byte of plaintext is named by its sample, its
place and the chain it was decrypted with; a chain is the list of the blocks that
went through `process_block` since `st_init`. That is all the code lets a byte
depend on, besides the template, and it tells a wrong lane, a chain that was not
reset, a wrong block and a wrong place apart. `Decrypt` is the public `decrypt`,
against which batches are compared. That `reconstruct_block` fills all sixteen
places of a block is a matter of the rounds: `RoundChain`.

### RoundChain and the code

`RoundProgram` holds the generated functions as a sequence of steps, in the
order of the source and one for each sum of lookups, copy, byte, offset and
ciphertext load; `RoundChain` runs them on what every place holds (`held`: the slots
`st` are the places `S(n)`, the others are locals and registers) for the block `bi`,
with `Begin` for the registers `process_block` sets up and
`EndBlock` for `reconstruct_block`, the copies to the next block and the counter.

Numbers are symbolic. A value is the set of atoms XORed together in it: keys,
bytes of keys, ciphertext bytes, table entries, the last named by the word that
was looked up; beside them it has the set of blocks whose ciphertext went into it.
A sum that is exactly a column of the previous round (four entries,
each from the table of its lane, each from the word the inverse ShiftRows takes it
from) with a whole round key gets a name, round, column and keys; anything
else becomes `Junk` when it is looked up. So a slot that is read too early, too late, or
after something else was stored in it shows as junk, and a name tells the whole
history of a number. The masking constants that the generator put in and takes
out again (`x - 2 * (x & c) + c`, `^ c`) are left out, except in the offsets, where
the code depends on how they meet the block number: `BlockAddress` has these
bit by bit. The mixing arithmetic of `round3_sub8000` (lines 1315-1345) is one term
that takes the eight words of both branches of round 9; what it computes from them
is not modelled. `NameOf`, `IsWord` and their helpers are the reading of the
program as AES, the property's side of the model; they correspond to no code.

`source` says how the template came: `load_binary_template` copies every slot,
`template_from_json` those of `ST_SLOTS`, so a key slot missing from the list is
zero in one and a key in the other. Slots above 2047 exist in neither.

### TemplateJson and the code

One action per turn of an inner loop of `parse_flat_json` and `base64_decode`;
`phase` is the loop. The document is one of a set of responses and arrives up to
any byte. The alphabet has the characters the code tells apart, one character
that is not ASCII in two bytes, and enough letters and digits for base64 and
numbers; of the five registers two stand for all, since the code treats them alike, and
names are one letter long (`c` for `ctx`, `s` for `state`, `r` and `q`). The
tables need 1 byte instead of 0x8000, the state 6 instead of 0x2000, a register
has 2 digits of at most 4 instead of 8 of 16, and the buffer of `base64_decode` 20
bits instead of 32; each keeps what the size decides (a table too short by one, a number
cut or refused, a buffer that overflows).

What a document says is never found by parsing it. `TemplateDocuments` says by the
standards what a document is (`WellWritten`: an object whose first `flat` members
are flat, each with its place, spacing and escapes), which bytes a base64 string
encodes (`Decoded`) and which template the members describe (`TemplateOf`).
`DocsAssumption` demands this of every document of an instance, so TLC evaluates it
for the responses of `MCTemplateJson`, whose expected templates are worked out a
second time, from the bytes and numbers each field was written to hold.

### SelfBuild and the code

On Linux the Go binding (`os.UserCacheDir()`, `selfbuild.go:76`) and the Python
binding (`__init__.py:469`) use the same `~/.cache/temari/src` and
`~/.cache/temari/lib/<platform>`. A process clears the directory (`Clear`,
`RemoveDir`), creates it (`Create`), writes the sources one by one (`Open`,
`Write`), runs cargo (`Compile`, `Link`) and fetches the artifact: Go by a rename
(`Move`), Python by a copy (`BeginCopy`, `EndCopy`). Where the two differ the
actions say so: Go gives up when a file cannot be removed, Python ignores it;
`os.MkdirAll` accepts a directory that exists, `copytree` does not, and goes on
after a file that failed to report it at the end. A file is whole, or half written
by the last process that opened it. `Crash` stops a process at any step. cargo's
own lock is not modelled: it is a file in the directory that the next process
removes.

## 3. Runs

| Run | Instance | Shows |
|---|---|---|
| `pool_safety` | 2 callers, 2 workers, 2 jobs, batches of 0 to 4 samples, pool dropped or not | the safety invariants, `ReturnedBufferStable`, `BatchService` is implemented |
| `pool_liveness` | 1 caller, 2 workers, 3 jobs, batches of 0 to 3 samples, fair | the inductive invariant, `JobsFinish`, `WorkersCatchUp` |
| `pool_lost_wakeup` | 1 caller, 2 workers, 1 job, fair | a violation: `run` may not return |
| `stream_safety` | 2 producers, 1 receiver, batch 3, 11 samples | the safety invariants, `FinishSeals`, `OrderedStream` is implemented |
| `stream_liveness` | 2 producers, 1 receiver, batch 2, 5 samples, fair, the pool may panic | nobody waits for ever, a receiver not even after a panic with the input open; every accepted sample is decrypted |
| `binding_readers` | 2 readers, lengths 0, 1, 2, 5, first capacity 2, 4 samples | no plaintext is cut, short ones arrive, an early end is explained |
| `binding_retry` | 1 reader, lengths 1 and 3, 2 samples | a violation: the retry loses the sample it is for |
| `aiter` | queue of 1, chunks of 2, lengths 0, 1, 3, 7 samples, fair | no overflow, in order, complete, bounded read-ahead, the iteration ends |
| `batch_lanes` | 2 threads and the caller, blocks of 2, all batches of 0 to 5 samples of 0 to 5 bytes | separate chains, no wrong byte, the result of each sample alone |
| `chain` | 3 blocks, pages of 32 bytes, a template from a file or from a response | whole columns of one block, keys kept, branches apart, the inductive invariant with the assumptions of the proofs, `CbcDecrypt` is implemented |
| `template` | 13 responses, each cut at every byte | fields kept, whole documents load, keys intact, the call returns |
| `self_build` | 2 Go and 2 Python processes, 2 sources, 1 crash | half a library only from a copy; a lone build succeeds |

Bounds. `MaxCalls` and `MaxSamples` are the only bounds of the pool. Three jobs
are what it takes for a worker to sleep through one, retake a finished one and
meet a newer one in the slot (`pool_liveness`, whose `IInv` implies the safety
invariants); two workers and two pairs are what it takes for one
worker to retire the last pair while the other still writes, and three samples
make the last pair odd. Two callers compete for `run_lock`, and two jobs are enough
for a pointer into the frame of the first to be stale (`pool_safety`). The proofs remove
all these bounds except that behaviours are finite in jobs. For the stream,
`MaxSamples` bounds what is accepted; with batch 3 the lead of the producers
reaches its limit of 9 and leaves two samples to block on; with batch 2 and 5
samples a submit blocks on a channel of 4 while `finish` waits behind it. With a
queue of one place and chunks of two, seven samples take the pump to its limit of
six plaintexts ahead of the application and leave a last chunk that is not full.
The code has 16 places and chunks of 64. For a batch, five samples are two full
pairs and a single one, which one of two threads decrypts after another pair;
lengths 0 to 5 with blocks of 2 are no block, only a tail, one or two blocks, with
a tail and without, in every combination of two lanes. `BatchProofs` removes these
bounds and the block size. The thirteen responses have every kind of value, escape
and fault that the parser tells apart, in several orders; `TemplateJsonProofs`
removes the bounds of the responses and of the sizes, and `AsyncPumpProofs` those of
the pump. Three blocks with pages of 32 bytes are a first block,
with the initial vector, a second that reads what the first left, and a third on
the next page; every block runs the same steps, so a fourth adds nothing but
another page number. The registers have 30 bits instead of 32, because TLC's
integers end there; the constants of the code need 29. `RoundChainProofs` removes
these bounds: the blocks, the pages and the width.
Two processes of either binding are every pair of kinds, with a third and a fourth to disturb
them, and two sources are what it takes for one to be gone while the other is
still being written; `SelfBuildProofs` removes these bounds.

Deadlock is checked in `binding_readers`, `binding_retry`, `chain`, `template` and `self_build`. It
is not in the others: a caller whose wakeup is lost waits for ever (which
`pool_lost_wakeup` is about), a dropped pool or stream, an abandoned iteration and
a finished batch stop, and the bounds stop the callers.

## 4. Fairness

*Pool.* Strong fairness for the steps of each caller and of each worker: they
need mutexes that are freed again and again, and std's mutexes, which are not
fair but let a waiter barge in, do not starve a thread for ever on a running
system; all their other steps stay enabled until taken. Weak fairness for the
drop. None for calls, for the decision to drop, and for spurious wakeups: the
code may not count on them.

*Stream.* Weak fairness for the coordinator, which never competes for a mutex;
strong fairness for producers inside a call (the mutex) and receivers inside a
call (others may take the plaintext they were woken for); weak for the join. None
for calls: in particular nobody has to receive.

*Pump.* Weak fairness for the pump thread, for the event loop's callbacks and for
the application, which iterates until it has had enough (`Abandon` has no
fairness). The pump's fairness includes that a plaintext the stream has accepted
comes out of it, which is `AllDecrypted` of the stream.

*Rounds and template.* Weak fairness for the next step of the one thread there
is, which neither waits nor stops. The build has none: any process may be stopped,
and no liveness is claimed of it.

## 5. What the code does not do

* **Lost wakeup (`src/pool.rs:182-183`).** The last worker may store `finished`
  and notify after the caller tested (131) and before it waits (132). The caller
  then sleeps on a finished job with `run_lock` held and all later calls, and
  every stream, wait behind it, unless a spurious wakeup occurs. Taking
  `done_mutex` around the store closes the window. `JobsFinish` shows that the
  job itself is always finished: only the notification is lost.
* **Lost wakeup in `Drop` (`src/pool.rs:70-71`).** The same pattern with the job
  mutex; `StoreShutdown`, `NotifyDrop` and `Sleep` show how. Latent: the library's
  pool is a static and never drops, so it is not listed as a hazard and no property
  is about it. The steps are in the model because the code has them: `pool_safety`
  shows that a drop disturbs none of what is said of the callers.
* **The retry of `next` (`__init__.py:285`, `temari.go:272`)** asks the stream
  again after the plaintext has left it: a plaintext of 65536 bytes or more in
  Python, 4096 in Go, is lost and the next one returned in its place.
  `ShortOnesArrive` is what can be relied on.
* **An empty sample ends Python's iteration** (`ffi.rs:170`, `__init__.py:281`):
  its length is the value that means the end. `EndIsExplained`.
* **`aiter()` holds back up to 63 plaintexts (`__init__.py:365`)** until a chunk is
  full or the stream ends: an application that submits more only after it has
  seen a result waits for ever. No document promises otherwise, so no run is
  spent on it.
* **An abandoned `aiter()`** leaves its pump waiting for a place in the queue, and
  an abandoned `C()` its goroutine, for the life of the process.
* **`try_submit` (`src/stream.rs:86`)** reports a full channel as `Closed`, which
  `stream.rs:36` reserves for "`finish()` was already called (input closed)": see
  `TrySubmit` in `Stream`. A property that says so would restate this one line, so
  no run is spent on it.
* **End of stream after a panic (`src/stream.rs:94`).** If the pool's threads cannot be
  spawned on first use, the coordinator unwinds inside line 171 with its batch and
  the channel in; the receiver reads `None`, though `stream.rs:91` says it "Returns
  `None` once the stream is closed and everything is consumed", and `drop` discards
  the panic. This is why `EndMeansConsumed` and `OrderedSpec` need `~Fallible`;
  submits are answered `Closed` from then on.
* **A response that was cut off** after its keys loads without an error, because the
  parser stops silently (`src/template.rs:65-70`): a register that did not arrive is 0
  and one that was cut is the shorter number. `KeysIntact` is what can be relied
  on; whole documents load as written (`WholeDocsLoad`). Even so it needs that the
  tables and the state stand once in the response (the last one counts, and a cut
  may leave another) and no `\u` escape stands in what is needed of them, since half of one is
  read as its digits (`KeysPlain` in `TemplateDocuments`).
* **`parse_flat_json` panics** on an unterminated key (158) and where the four bytes
  after `\u` end within a character (86); `catch_unwind` in `tmpl_from_json` makes
  them NULL, but `parse_flat_json` and `template_from_json` are public in Rust.
* **Processes that build at the same time can all fail** (`selfbuild.go:85`,
  `__init__.py:483`), since each clears the directory the others compile in. A later
  one succeeds (`LoneBuildSucceeds`), unless Python's copy into the cache was cut off
  (`__init__.py:497`): that half library is taken as built for ever after, by both
  bindings. A rename, as Go does it, would close this.
* The comment at `src/stream.rs:61` promises a lead of at most `batch` samples;
  the code allows `3 * batch` (`BoundedLag`), and never limits the channel out.

## 6. Proofs

`WorkerPoolProofs` proves, for any sets of callers and workers and any bounds
(assumptions: `ThreadsAssumption`, `BoundsAssumption`), that `IInv` is
inductive, and from it `TypeOK`, `BorrowsLive`, `ReturnComplete`,
`ExclusivePairs`, `SingleJob`, `NoLostJobWakeup`, `EpochNotAhead`,
`ReturnedBufferStable` and the refinement `ServiceSpec`.

None of the safety properties is inductive as it stands. The argument is about
counting: `pending` of a job is the number of its pairs that are not retired, so
a pair that is claimed and not retired keeps the job from being finished. A job
that is not finished is the newest, and its caller is in `run` with `run_lock`
held. Hence a worker about to follow a pointer, which has claimed a pair and not
retired it, is on the newest job and the pointers are good. In the same way the
retired pairs are exactly those whose samples are written, and the release
sequence of `pending` carries exactly them, so that the decrement to zero
acquires the writes of all. `WorkerPoolInvariant` states this in named parts; it
says which pairs are out by sets and their cardinalities, which is why the proofs
cite `FiniteSetTheorems`.

The refinement maps a caller in `InRun` to a call being served: claims, wakeups
and epochs are stutters, `Decrypt` is a `Deliver`, and leaving `test` with
`finished` set is the point from which the buffer is full, which
`ResultsAreComplete` gives to the `End` step.

`StreamProofs` proves, for any sets of producers and receivers and any batch size
(assumptions: `ClientsAssumption`, `SizesAssumption`), that `SInv` is inductive,
and from it `TypeOK`, `InOrder`, `NothingLost`, `BoundedLag` and `FinishSeals`;
and, assuming `~Fallible` as well, `EndMeansConsumed` and the refinement
`OrderedSpec`. Without that assumption both are false (section 5).

`NothingLost` says that the channel out, the unsent part of the buffer and the
channel in hold the accepted samples in a row. It is not inductive, because each
hand-over relies on where the threads are: the buffer may be cleared only after
its last plaintext (`LoopInv`), an exit leaves nothing behind only if the
coordinator saw a closed and empty channel (`ClosedInv`), nobody enters a closed
input because whoever closes it has waited for the sender inside `send`
(`LockInv`), and nobody is inside when the stream is dropped (`DropInv`). The
steps are then of two kinds, those that move no sample (`QuietData`) and the
four hand-overs: accept, receive, send out, take. `EndInv` is what the end means
to the coordinator: that it is gone, with nothing left to receive. The
refinement maps an accepted sample to `Accept`, a received one to `Deliver`,
which is the next in the row, and everything the coordinator does to a stutter.

`StreamBindingProofs` proves, for any readers, lengths and first capacity
(assumption: `BindingAssumption`), that `BindingInv` is inductive, and from it
`BindingTypeOK`, `WholePlaintexts`, `ShortOnesArrive` and `EndIsExplained`. That
a plaintext lost in a retry is not a short one needs that the room of a loop is
never below the first capacity (`RoomInv`); that a loop's room is bounded needs
that every retry has met a plaintext at least as long.

`AsyncPumpProofs` proves, for any queue, chunk, lengths and first capacity
(assumptions: `PumpAssumption`, `BindingAssumption`), that the pump implements
`BindingSpec`, so that all of the above holds of it, and `NeverQueueFull`. The latter
is `put_nowait` of a callback that was requested earlier: what has to be invariant is that
permits, requests under way and items in the queue add up to its places (`Places`).
`HandedOverInOrder` says that what the application has, the chunk it iterates over,
the queue, the requests under way and the batch are, put end to end, what the pump
received. Every step takes one plaintext or one chunk from one of them to
the next (`FlattenSeq` of the chunks is shown to follow), but two of them clear
something and must not lose it: the batch is cleared only when all of it has been
requested, and the application is done only when nothing is left (`BatchInv`,
`ItemInv`, `SentinelInv`: nothing follows the sentinel, and it is requested with an
empty batch). `IterationComplete` is this at the end, and `ReadAheadBounded` follows
from `HandedOverInOrder`, `Places` and the size of a chunk (`ChunkInv`); the three
together with the rest are `HandoverInv`.

`TemplateJsonProofs` proves, for any documents, any cut and any sizes of tables,
state, numbers and buffer (assumptions: `TemplateAssumption`, `DocsAssumption`),
`Invariance`, `Termination`, `FieldsKept`, `WholeDocsLoad` and `KeysIntact`.
What the documents are assumed to be is what the key server sends: valid UTF-8, an
object, flat up to some member, after which anything may follow; for the keys also
that the tables and the state stand once and have no `\u` escape before the bytes
that count (`KeysPlain`). A document that breaks the latter may lose its keys in a
cut, because the digits of half an escape are letters of base64.

`Inv` is what holds whatever the bytes are: types, the index, that the decoder has
put out what its letters encode (`Accumulated`, by induction over the string: the
buffer forgets what overflows, and 14 bits are all that is ever read of it), and
that a template is the one the fields read describe. `Termination` follows from it: each turn
lessens `Turns`, what is left of the text or of the string, or goes on to a later
stage. `Sound` is about the document. It says where the parser is in it (`Track`): in a
gap, in the name or the value of the member whose number is one more than the fields
read, between two pieces of its spelling, behind the start of an escape that was cut,
or past the end of what arrived. `FieldsKept` and `WholeInv` (a
document that arrived: no panic, and the fields are its members) are inductive
with that. For the keys `KeysInv` adds that a value cut short agrees with the
document's up to where it was cut, then with letters of half an escape; base64 being
decoded from the left, either the bytes needed are among those that agree or the
string is too short and refused.

`SelfBuildProofs` proves `HalfOnlyFromCopy` and `LoneBuildSucceeds` for any
processes, sources and crashes (assumption: `BuildAssumption`). The second follows
a process from the moment all others are over: what it has done so far is still
there, step for step (`Lone`). `alone` is a history variable set when the process
begins; that the others stay over is part of `Lone`, and what one of them left half
written or half removed must not matter to a directory that is cleared and filled again.

`RoundChainProofs` proves, for any number of blocks, page size and width of a
register (assumptions: `AddressAssumption`, `SampleAssumption`), that the rounds of
a sample implement the safety part of `CbcDecrypt` (`RoundsImplementCbc`), and
`ColumnsWhole`, `RoundKeys` and the inductive invariant `RoundInv` they rest on. The
theorems have three hypotheses of their own:

* `ProgramFits` and `ResultFits` say what one run of the program gives, on the first
  block and with symbolic numbers: every step reads only what this block has
  written, what a register holds, or what nothing ever writes; no value is junk; the
  words have their keys in slots nothing writes; byte `i` of the block that comes out
  has offset `i`, byte `i` of the last round's words and byte `i` of what is chained
  to it. They are formulas about the text of the program, in which neither the
  number of blocks nor the page nor the width occurs (`FirstEffect` puts the
  offsets down as the nibbles the code means, `Meant`), so that TLC decides them
  once and for all by executing the program; they are conjuncts of `RoundInv`, which
  `chain` checks. A proof of them would repeat that execution, some 300 steps.
* `SampleFits`: the block numbers fit a register shifted left by four, 2^28 blocks.
  Beyond 4 GiB in one sample `(bi as u32) << 4` loses bits and the code reads bytes
  of earlier blocks again.

What is proved is what TLC cannot see, that all blocks are like the first. The
invariant is `Matches`: a place that is ready to be read holds the first block's
value with `bi` added to its block (`ReadyMatch`), a place that nothing writes holds
the template's (`KeptMatch`), and a place that carries ciphertext over holds what
the block before ended with (`CarriedMatch`). It says nothing of a slot that this
block has not stored yet: such a slot still holds an earlier block's number, which is
why `Ready` follows the program counter. `EffectAt` is the step: if the operands of a
step are the first block's but for the block, so is what it computes. For sums and
copies that is because the code never looks at the block number (`SeenAt`); for offsets
and loads it is arithmetic. The address part of the module proves what the OR
and XOR of the generated code leave (`OffsetWithMask`, `OffsetWithoutBit2`), that the
index with its page from one register and the rest from another is that offset
(`AddressIsOffset`), that no two bytes of a sample share an index
(`AddressesDistinct`), and, from the bits to the numbers they stand for
(`NumberFromBits`, by induction over the bits), that an offset step computes
`16 * bi + k` (`OffsetNumber`) and a load reads that byte (`AddressNumber`).
`Delivered` adds the counter, which must not wrap (`CounterNext`), and the blocks
written: sixteen offsets in a row, of which `reconstruct_block` drops none (`Rebuilt`).

`BatchProofs` proves, for any threads, block size, number and lengths of samples
(assumption: `BatchAssumption`), that `BatchInv` is inductive, and from it
`TypeOK`, `RegionsDisjoint`, `ChainsSeparate`, `NothingMisplaced` and
`EachAsAlone`. The offsets are a running sum, so that they are ordered is an
invariant of the loop that pushes them, and no induction over the batch is needed.
The steps that write are seen through one lemma (`StoreRight`): to store bytes of
a sample's plaintext in its region makes no right byte wrong, because no other
region has this place (`Places`). An iteration is two such stores, the second into
what the first left, so what one lane has written survives the other's. `ClaimInv`
and `ProgressInv` carry how far each thread has come; at the end every pair is
retired, every sample is in a pair (`PairsCover`), and the buffer is full.

Model-checked only: liveness (`JobsFinish`, `WorkersCatchUp`, `CallsReturn`,
`AllDecrypted`, `NextReturns`, `DropReturns`, `IterationEnds`, `CallReturns`),
because it rests on fairness and ENABLED, which the prover does not handle.
`CallReturns` among them has its measure proved (`Termination`) and lacks only the
fairness that lets the one thread take its turns. Of `CbcSpec` the safety part is
proved; that every block leaves in the end is TLC's. `ProgramFits` and `ResultFits` are
TLC's too, as said above. And the counterexamples. `TypeOK` of the stream, the pump, the binding, the batch, the
template and the build is proved and not listed in a run; `IInv` contains that of the pool.

## 7. Not modelled

The numbers in the cipher's tables, which come from the key server with each
template, and the mixing arithmetic of the last round; packaging,
workflows, examples, benchmarks and tests (no state of the running system); the
loading of a library and its symbols; allocation failure and threads killed from
outside; poisoned mutexes (no code between a lock and its unlock panics, short of
a failing condition variable); use of a handle during or after its destruction.

The WebAssembly binding (`bindings/wasm/temari.js`) is one thread and two calls.
Its allocator only moves a pointer up from 0x80000 (line 38, "start above the Rust
static data/heap") and never frees, in a memory from whose end Rust's own
allocator takes pages. Where the two meet depends on the linker's layout and on
Rust's allocator, neither of which is in the repository.

## 8. What could be added

1. A composition of two streams over one `BatchService`, and of a stream over a pool that
   loses a wakeup.
2. `close()` of a Python or Go stream while another thread is inside a call.
