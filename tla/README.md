# Verification of tractable

`tractable` keeps a project's work items as JSON (`index.json`, one detail
file per item and a batch registry) on a dedicated Git branch. Coding agents
claim, prepare, finish and drop items through a small MCP server; several
agents, on several machines, do so at once. This directory holds TLA+ models
of the parts that must survive that concurrency, TLC runs over small
instances of them, and machine-checked proofs of the properties that matter
most, for every value of the constants.

Paths below are relative to the repository; `store.py`, `service.py`,
`git_backend.py` and `git_store.py` are in `src/tractable/`.

## 1. The system

| Part | State | Operations | Code |
|---|---|---|---|
| Items | status, `needs`, claim (worker, generation, expiry), `not_before`, detail | create, update, take, takeover, renew, release, finish, drop | `service.py` handlers, `op_*` in `store.py` |
| Deferral log | rows of an item: open, promoted, dismissed | defer, promote (link or create), dismiss | the same |
| Batches | registry: lifecycle, owner, generation, epoch, members, integration log, integrated members, final PR; per item: metadata, receipt, final evidence | register (with the schema 3→4 cutover), prepare, advance head, bind PR, recover owner, abort, finish of a member | the same |
| Snapshot validation | none | `validate_snapshot` on each load and before each publication | `store.py` |
| Publication | the remote branch; per call the fetched tip, retries, the rebuilt flag | `mutate`, `_reconcile`; also `restore_rev`, `bootstrap`, `history` | `git_backend.py` |
| Local object store | namespace directory, lock files, bare repository | `_flock`, `open`, `using`, `repair`, `maintain`, `prune_cache` | `git_store.py` |
| Reads | per machine a ref that names the last accepted tip; page cursors | `read`, `advance_tip`, `list_items`, `list_deferrals`, `show_item`, `show_batch` | `git_backend.py`, `git_store.py`, `service.py` |
| Session history | list of past sessions in the detail | `record_session`, once per operation ID | `store.py` |
| Migration, MCP server, CLI | none that outlives a call | conversion, argument checking, dispatch | `migrate.py`, `mcp/`, `cli.py` |

How they interact. An MCP tool calls a service handler, which builds an
operation and hands it to `mutate`. `mutate` opens the local store and locks
it shared, fetches the tip of the state branch, loads and validates the
snapshot, applies the operation to it, commits on that tip and pushes. The
remote accepts a push only as a fast-forward of the tip it was built on: this
compare-and-swap is all the coordination machines have. A competing push makes
the call start over; a lost reply makes it search the branch for its own
operation ID. Locks order the processes of one machine around the local store
only, which is a cache.

What is hard in it:

- a worker is a name, not a process: two images of one worker may run, and an
  image may lose its claim to an expiry, an adoption or a takeover and still
  act on what it knew;
- a receipt of a batch member says something about other members (what it was
  built on, whose files it shares), which any of a dozen operations may make
  stale;
- closing a batch is one call per member: it can stop half-way and be joined
  by other callers;
- a push may land although its call failed, and may land late, while the call
  has started over with another generation;
- the tip a machine has cached is moved by calls and reads that race, and is
  all an offline read has;
- a listing is read page by page while commits are accepted and holds end;
- the lock files of the local store live inside the directory that a prune
  renames away.

What makes each part correct:

| Part | Properties |
|---|---|
| Items | one image at most can act on a claim; a transferred claim is stale for its old holder in the same commit; closed items stay closed; dependencies stay acyclic and known |
| Deferral log | no item is finished over an open row; rows resolve once and are never lost; a promoted row names a task that exists |
| Batches | exclusive membership; only the owner records work; the log only grows; members close at one head with every required re-acceptance; receipts are void as soon as what they rest on is |
| Publication | an operation enters the branch at most once; "applied" is the truth; every call returns; a definite failure is definite; the generation a worker is given is the one that landed; a takeover replaces the claim it inspected |
| Reads | only accepted commits are served; the cached tip never moves back; a machine reads its own writes, unless the ref could not be written; a listing shows every row it began with |
| Local object store | a store is not moved under its user; maintenance is alone; only a store that failed is rebuilt; prune spares what was used; nobody waits for ever |

## 2. Modules

| Module | Contents |
|---|---|
| `TrackerState` | constants and their assumptions, the variables of one snapshot, record sets, and the pure reads the operations share (`claim_is_live`, `is_ready`, `acceptance_required`, ...) |
| `ItemOps`, `DeferralOps`, `BatchOps` | the operations, one action each |
| `Tracker` | `Init`, `Next`, `Spec`, the type invariant and all properties of the tracker |
| `ClaimLedger` | the abstract specification of claims: leases whose key one image holds; `Tracker` refines it |
| `AtomicBranch` | the abstract specification of publication: an operation lands whole and once, and answers are true |
| `Publication` | `mutate` step by step against a remote whose replies may be lost, misread or late; refines `AtomicBranch` |
| `ClaimCalls` | extends `Publication`: the calls carry takes and takeovers of one item, with the generations and the pinned claim of their attempts |
| `Reads` | extends `Publication`: the cached tip of one machine, `read` with its fallback and repair, and listings in pages |
| `LocalStore` | one namespace and its store under calls, repairs, maintenance, prune and crashes |
| `MCClaims`, `MCBatch`, `MCReads` | constant values, symmetries and constraints for TLC |
| `TrackerTypes`, `TrackerSafety`, `TrackerBatches`, `TrackerReceipts` | proofs about `Tracker`, each on top of the one before |
| `PublicationProofs`, `ClaimCallsProofs`, `ReadsProofs`, `LocalStoreProofs` | proofs about the module in the name |

A definition whose comment starts with "Fault" is no part of a model: it is a
plausible bug, and `PROJECT.json` ("mutants") pairs it with the property that
TLC finds violated once it replaces the definition it is named after. Every
property of every passing run has one.

### Tracker

One step is one accepted commit. That is justified by publication: an
operation is applied to the snapshot at a tip and lands only on that tip, and
`Publication` is shown to be an atomic branch. A refused call, and an idempotent
retry (`_no_write`), leave the snapshot alone and are not steps.

| Variable | Code |
|---|---|
| `status`, `needs`, `hold` | `index.json` entries; an item that has none is "absent" |
| `claim` | `claimed_by` and `expires_at`, the latter as ticks left |
| `holders` | which process images know the generation of the current claim |
| `meta`, `receipt`, `evidence`, `deferrals` | `batch`, `prepared`, `final_evidence` and `deferrals` of the item's detail |
| `batches`, `schema` | the batch registry and `schema_version` |

Abstractions, and why they lose nothing the properties see:

- A generation is a random token that is compared for equality only, so the set
  of images that know the current one stands for it. A call whose reply is lost
  leaves the new generation to nobody (`GrantClaim` with `{}`), and an image
  that dies forgets what it knew (`Restart`).
- Time is relative: `Tick` brings every expiry and hold one tick nearer. The
  two clock readings of `take` (readiness in the handler, liveness in
  `op_take`) are one instant.
- An update of several fields is a sequence of single edits; edits of text only
  change nothing here.
- Commit hashes are positions in the integration log. What Git knows of the
  callers' checkouts (ancestry, cleanliness, diffs) is environment: a call that
  succeeds may report any set of files its scope allows. The scope accounting of
  the final diff is left out.
- A v1 batch is a registry record without log, as schema 3 stores it; it starts
  without receipts, and only abort and the cutover deal with it. Every tracker
  starts at schema 3, with v1 batches or, just bootstrapped, without.
- `index.json` is sorted by item ID (`Order`), which matters once: `_held_claim`
  stops at the first live claim of the slot, so a worker that has two there may
  adopt the first only (`SlotFree`).
- `restore_rev` replaces the whole snapshot by an older one by design and is not
  an operation here: "a closed item stays closed" is about ordinary operations.

`ClaimLedger` is what all this amounts to for a worker. An item is leased anew
(`Grant`: take, adoption and takeover), extended (renew), returned (release,
prepare) or closed (finish, drop); leases that do not run are withdrawn together
(abort), time lets leases lapse. `RefinesLedger` reads the lease of an item from
`claim`, its key from `holders` and the closed items from `status`.

### Publication

Each call of `mutate` walks through `fetch`, `apply`, `push`, then `confirm`
(the push succeeded), `settle` (it timed out) or `recheck` (it failed in a way
that reads as offline). `inFlight` holds the tips on which its pushes the remote
has not decided are built, so a late landing is an ordinary `RemoteAccepts`
step. The constants say what the remote may do: `LostKinds` are the failures
that may be reported of a push that landed, `LateKinds` those after which it may
still land. A call that returned, or died, forgets its tip and its counters.
`noop` is the code's "applied" answer of an operation that found its
effect in place. That an operation which was pinned to a snapshot (takeover,
update with a base revision) is refused when a retry meets another one is part
of `Refuse`; for takeovers, `ClaimCalls` spells it out.

### Calls that carry a claim

Each attempt of a `mutate` call applies its operation anew, and `op_take` and
`op_takeover` make a new generation each time. `ClaimCalls` names an attempt by
the retries before it: `sent` are the attempts whose pushes the remote has not
decided, `landed` the one whose commit it accepted, `ack` the one the caller was
given. A claim is named by the commits that wrote it (`Image`); a takeover pins
the image its first attempt saw (`pinned`) and is refused when a later attempt
meets another. Every action is one of `Publication` with what it does to these.

### Reads

A revision is the length of the branch there, as the branch only grows.
`cached` is the ref of the store, `aim` and `old` are where each caller of
`advance_tip` moves it and what it read of it first: `LookAtTip` and `SwapTip` are
the two halves of its compare-and-swap. A write of the ref may fail for any reason;
`advance_tip` is "best effort", so after `MaxTries` of them it returns all the same
(`GivesUp`), and its caller is told "applied" over an old cache. A read goes through `ls_remote_tip`
(`AskRemote`), then loads a tip the store has (`ReadKnown`; whether it has the
objects is left open, as pushes bring them too) or fetches one (`ReadFetched`),
or falls back to the cache (`ReadOffline`); `ReadBreaks` is the one repair.
`Serve` makes a page, or an error. The rows of a listing are any function of the
items that are ready, sorted (`OrderAssumption`: one more item moves rows back,
never forward); operation `o` closes item `o`, so each commit takes a row away,
and `HoldEnds` adds one at an unchanged revision. `page` remembers what was `due`
when the first page was made and what was `served` since. `docs/adr/0009` names
the shift of offsets as a known limitation (and claim expiry as another cause of
it; in the code a claim sits on active items only, which are never ready, so it
is none): the model shows what that limitation leaves true.

### Local object store

`space` is the directory at the path of one namespace; `spaces` and `stores`
number directories and repositories, so that a process that keeps a file
descriptor into a directory that was moved away can be told from one that has
the current one. `proc[p].held` are its flocks; a lock is compared with the
locks of the process itself too, as `flock` does for another open file. Each call
uses the store once, and once more after a repair; starting over because of
competing pushes belongs to `Publication`.

Modelled as they are in the code: `_open_store` runs `open` before the lock is
taken; `prune_cache` reads `lock_existed` before it locks; `maintain` takes the
maintenance lock first and then the store lock *exclusively* (its docstring says
shared). `OpenFails` and `RenameFails` are the errors a call meets when a prune
moves the directory between its `mkdir` and its `open` or `rename`. `Age` passes
the prune cutoff, a day at the least, over a namespace nobody has locked. Two fields
are history: `recent` (used since the cutoff) and `backdated` (a prune that saw no
lock file put the stamp of that use back, in `Inspect`). `git
init` failing for other reasons, leftover staging, legacy files, dry runs and
the objects in the store are left out.

## 3. Runs

Every passing run is exhaustive. Each run is the `.cfg` file of the same name
(`Claims.cfg` and so on).

| Run | Instance | What it shows |
|---|---|---|
| `claims` | 2 items, 2 images of one worker and 1 of another, 2 deferral rows per item, one derived ID that exists | `SoleHolder`, `TransferFences`, `TerminalForever`, `ValidSnapshot` (acyclic, known dependencies), `NoOpenDeferralsWhenDone`, `PromotionsLand`, `RowsResolveOnce` under expiry, restarts and lost replies |
| `batch` | one leader, 2 members sharing a file, one of which may build on the other, 4 log entries (3 once there is a dependency) | the life of a batch, with edits, fixes and repeated preparation: `CloseoutComplete`, `CompletedTogether`, `DependentsFollow`, `LaterMembersReaccepted`, `FixesReaccepted`, `OnlyMetadataStrands`, `TerminalForever`, `ValidSnapshot` |
| `owners` | 2 workers, 2 owner generations, 1 recovery, 3 log entries, `develop_ref` | `OwnerRecordsWork`, `LogAppendOnly`, `RefinesLedger` |
| `cutover` | 3 batch IDs, one a v1 record at schema 3 | `OneActiveBatchPerItem`, `LegacyRetired`, `ValidSnapshot` |
| `reads` | 2 operations, one of them on the machine that reads, 1 reader, 3 rows, 2 per page, 1 retry, 2 tries of `advance_tip`; every failure may hide a landed push, offline and timeout also a late one | `AtMostOnce`, `AppliedIsAccepted`, `CacheIsAccepted`, `CacheMovesForward`, `WritesCachedUnlessGivenUp`, `FreshReads`, `NothingMissed` |
| `honest_reply` | a takeover and a take, 2 retries, timeouts and lost connections hide, timeouts delay | `AckIsLanded`, `TakeoverAsInspected`, `RefinesAtomicBranch`, `Terminates` |
| `local_store` | 2 calls and a prune | `StoreStaysUnderUser`, `RepackAlone`, `RebuildsOnlyFailed`, `PruneSparesUsed`, `EveryCallEnds` |

Why the bounds are enough for what the runs ask. Two images of a worker and one
of another are the least that tell adoption from takeover. Two members are what
an overlap, an implementation edge or a half-finished closeout relates. Three log
entries are start and the two preparations, four leave room for a fix or a
second preparation too, in any order; the constraint `Short` keeps batches whose
members build on each other at three. One owner recovery makes one deposed owner. Three
batch IDs allow a v1 batch, its successor and a competitor. In publication a
call competes with one other under one or two retries: it reaches the last
allowed retry, and fails beyond it. In `reads` the cache of a machine is advanced
by a call and a reader at once; three rows on pages of two make a listing of two
or three pages, the last of which a commit or the end of a hold may precede. The
constraint `Pending` leaves out what repeats: after the last page of a
listing the system goes on as after an error, and a hold may as well end just
before the page it matters for. The legacy cache is left to the proofs
(`Legacy`). `advance_tip` tries twice (`MaxTries`) instead of five times, which has a
failed try that is not the last and one that is; `Pending` follows second tries
only up to the first page of a listing, as pages do not depend on how the cache got
where it is, and while no call has started over, as each of its attempts advances
the ref alike; the proofs cover any number, at any time. In the local store
two calls and a prune suffice for two repairs of one failure, for a repair
during a prune and for maintenance against both; the proofs of section 4 cover
any number. A claim lives one tick (`TTL`), as every operation tells live from
expired only; two in `renew_slot`, so that a second claim runs when the first is
renewed, and three in `readopt`, where the claims of the shortest counterexample then
all run and it shows the prepared edge, not a renewal. Bounds in guards (`MaxRows`, `MaxLog`, `MaxEpoch`) cap logs the code
leaves open; no operation depends on them.

Symmetry is used for safety runs only: the two images of one worker in `claims`
(`ImageSymmetry`), and the two leaders, each with its worker, and unused batch
IDs in `owners` and `cutover` (`Alike`).

Five runs refute what a document says of the program:

| Run | Statement | What the code does |
|---|---|---|
| `renew_slot` | one live claim per slot (`docs/operations/mcp-clients.md:37`) | `op_renew` revives an expired claim after its worker took another task of the slot |
| `readopt` | a restarted worker can adopt its active claim (ADR 0003) | `_check_take_readiness` asks `is_ready`, hence status "open", of a member built on a prepared one; after a renewal like that of `renew_slot`, `_held_claim` also finds the other task first |
| `unprepared` | a batch completes once all members finish (`.codex/skills/todo/references/batch.md`) | `op_finish` finds the batch through item metadata; a last member without it leaves the batch active, and abort refuses it |
| `stale_ack` | the generation a `take` returns proves that its worker holds the claim (`README.md`) | a push reported offline that lands late, after it was looked for, is found by a later attempt, which answers with its own generation |
| `lost_reply` | a lost reply is reconciled (`README.md`, "Data safety") | a failure whose message matches no listed phrase is "rejected" and reported without looking the operation up |

### Fairness

The tracker and the safety properties need none. `Publication`, `ClaimCalls` and
`LocalStore` assume weak fairness of each call's own steps: every Git command runs under a
timeout, and a process that can move is scheduled. Nothing is assumed of the
remote (a push may stay undecided for ever), of crashes, or of time. A waiter for
a blocking lock moves as soon as the lock is compatible; `EveryCallEnds` shows
that it becomes so for good, weak fairness being enough.

## 4. Proofs

All proofs hold for every set of items, workers, images, batches, operations,
readers and processes and every bound; they rest on the named assumptions of the
modules, which say what kind of value each constant is and that markers such as
`None` are no other value. `OrderAssumption` says more: rows are sorted.

**Types** (`TrackerTypes!TypeCorrect`). `TypeOK` alone is not inductive: the head
of a batch is read from the last entry of its log, so `TypeInv` adds that a v2
record has a nonempty log (`LogStarted`).

**Claims** (`TrackerSafety`). `ClaimInv` adds to the types that a stored claim is
on an active item (`ClaimedActive`) and that the images which know its generation
are at most one, running as its worker (`HoldersFit`). Each step drops, grants
or keeps the claim of an item (`ClaimMoves`). `SoleHolder` and `TransferFences`
follow, and so does `RefinesLedger`, one lemma for each kind of step: a grant finds
an item that is not closed, what ends a running lease has its key, and the steps
that leave claims alone close nothing (`QuietSteps`).

**Closing** (`TrackerSafety`). With `ClaimedActive`, an operation that closes or
reopens needs a claim, hence an item that is not closed: `TerminalForever`. Deferral
rows are appended, or resolved while open: `RowsResolveOnce`, `PromotionsLand`;
a step that finishes an item finds no open row, and a closed item takes none:
`NoOpenDeferralsWhenDone`.

**Batches** (`TrackerBatches`). Each step enrols a batch, moves a registered
record on, or leaves it (`BatchMoves`), from which `OneActiveBatchPerItem`,
`LegacyRetired`, `CompletedTogether`, `LogAppendOnly` and `OwnerRecordsWork`
follow with the invariants before.

**Receipts** (`TrackerReceipts`). The inductive invariant is `Fits`: what the
validator wants of items, metadata, logs and receipts, strengthened by what the
operations rely on (sequence numbers and heads of a log rise, a receipt stands for
the last landing of its member, of a batch that was not aborted, with the files
the registry has of it). `ValidSnapshot`, acyclicity included, and
`DependentsFollow` follow for every execution. Acyclicity is stated without
recursion, so that it can be proved.

The closeout theorems (`CloseoutComplete`, `LaterMembersReaccepted`,
`FixesReaccepted`) go through `Closed`: while one member has final evidence the
receipts, the log and the final PR of its batch stand still, and everything the
log obliges was accepted. Their statement is `Spec /\ []OutsideWorkDone => []P`:
once a batch has begun to close, what its members build on is in the batch, or done
with its receipt. An edit upstream of such work is refused, as it would void
the receipt of a done item (`EditStopsOutside`). The code takes the condition for
granted (README.md: a receipt "can unlock only an explicit same-batch
implementation edge") and `take` refuses other edges to work that is not done, but
metadata attached to an active item is not checked for it; an edit of the outside
item then voids receipts of a batch that has begun to close (`store.py:1735`).
This is the one gap between the proofs and `Spec`; in the runs all edges are
inside.

**Refuted statements.** Three statements of the documents that runs refute are
proved with what they leave out, first as what the code does in every behaviour,
then as the documented rule under a condition:

| Statement | Every behaviour | The rule holds |
|---|---|---|
| `OneClaimPerSlot` | only the renewal of an expired claim breaks it (`OnlyRevivalDoubles`) | if no expired claim is renewed |
| `AdoptionNeverRefused` | the holder of a live claim is refused exactly when the item builds on prepared work or another of its live claims in the slot comes before it by ID (`AdoptedWhenFirstAndUnprepared`) | while claimed items build on none and no expired claim is renewed |
| `BatchCompletes` | the step that closes the last member completes the batch, unless that member has no metadata (`CompletesUnlessBare`) | while unfinished members have metadata (`MembersCarry`) |

The first is the hardest: a slot is the set of active batches of an item, so
enrolment and the end of a batch change it under live claims. Enrolment parts
slots and never joins two, as members are in no other active batch; a batch ends
only when no member is held (`BatchesKept`).

**Aborted batches.** The code promises in a comment on `op_abort_batch` that an
abort strands no member behind the archived record. That holds, and completion
strands none either: `OnlyMetadataStrands` says that an open item comes to stand
behind a batch that is over (`Stranded`) only by metadata attached to it afterwards,
for a batch aborted before (`MetaAllowed` asks whether the batch is registered and declares
the item, not whether it is active). `StrandedStays` says what that costs: such an
item is never prepared or finished and its metadata never replaced; it leaves the
state only when it is dropped, or detached by the abort of another batch that
declares it. Both follow from `Fits`, `CompletedTogether` and the moves of metadata
(`MetaMoves`, `AbortDetaches`). Run `batch` checks the first; the second is only
proved.

**Publication** (`PublicationProofs`). `PushInv`: an undecided push is built on a
tip whose history holds no commit of its operation. As the remote accepts a push
on its own tip only, at most one push of a call can land, whatever is lost or
late: `AtMostOnce`, `AppliedIsAccepted`. `HonestRefines` needs the assumption
`Honest` (only timeouts and lost connections hide a landed push, and only a push
that timed out lands late) and the stronger `HonestInv`: a call has no undecided
push while it starts over or after a definite answer. The refinement mapping is
`history <- branch` and the outcome read as an answer; every step maps to `Land`,
`Answer` or a stutter. `FailuresAreDefinite`, which `lost_reply` refutes, follows
under `Honest` from the abstract branch alone: `Land` is closed to an operation
whose caller was told that it failed. For any remote, each step of a call
lowers `Remaining` and nothing else raises it (`CallsCountDown`; it is at most
`6 * (MaxRetries + 2)` and zero exactly when the call is done): with fairness, this
is what `Terminates` rests on.

**Claims in calls** (`ClaimCallsProofs`). Its steps are steps of
`Publication`, so it refines `AtomicBranch` under `Honest` as before (`ClaimsRefine`).
`AckIsLanded` needs only that no push but one that timed out lands late
(`AckInv`): a call that starts over then has no undecided push, so what is found on
the branch is what its current attempt sent. `stale_ack` shows what happens without. `TakeoverAsInspected` holds for every remote: an undecided
push of a takeover is built on a tip with the pinned image.

**Reads** (`ReadsProofs`). `CacheInv`: the cached tip and all tips it is about to
move to are accepted, and who has read the ref moves it forward from what it
read. `WriteInv` relates a call's answer to the tip it still has to advance to: when
the caller is told, the ref has it, or the last try has failed in that very step
(`WritesCachedUnlessGivenUp`). A call that is killed or times out inside its
last `advance_tip` is one that is never told.
`PageInv`: each row that is due and was not served lies behind the cursor, at the
page's revision, by now; commits do not change the rows of a revision, and the end
of a hold moves them back. No assumption on the remote is needed.

**Local store** (`LocalStoreProofs`). `LockInv`: a process that acts under the
store lock has locked the file that is at the path (`LocksFit`), it wants there
what its place says (`TaskFits`), the store it found is the one there or, in a
repair, one that failed (`StoreFits`), and two locks on one file are both shared
(`Exclusive`). The crux is that the path changes only under an exclusive lock of
the file at the path, and that `_flock` compares the two after it has locked.
`StoreStaysUnderUser`, `RepackAlone` and `RebuildsOnlyFailed` follow.
`PruneSparesUsed` needs `UseInv` too: a use leaves a fresh lock file, and a
namespace about to be discarded was not used, as `prune_cache` keeps the lock from
its look to its rename and whoever uses the namespace does so under that lock. The
exception it names is real: a prune that looks for the lock file before a user has made
one, and locks after it, takes that file for its own and puts its stamp back.
`PruneSparesUsedStrictly` shows that it is the only one: where no prune does this, no
namespace used since the cutoff is moved aside.
`HoldInv` says which locks a process may have at each place of the code: none on
the store where it asks for that lock (a repair gives up the shared one first),
and none when it has ended. So whoever is waited for neither ended nor waits
(`WaitersHaveRunners`): waiting is never mutual.

Model-checked only: the liveness properties `Terminates` and `EveryCallEnds`, as
liveness under fairness and `ENABLED` are out of the prover's reach, like
induction over data; `CallsCountDown` and `WaitersHaveRunners` are the safety
they rest on. No module declares a `RECURSIVE` operator.

## 5. Not modelled, and why

- `restore_rev` replaces the snapshot by an older one, claims and their
  generations included, by design; `bootstrap` makes the branch, `history` lists
  it. A branch that is rewritten or removed is not modelled: it only grows.
- The windows of `show_item` and `show_batch` and the pages of `list_deferrals` are
  pinned to a revision like those of `list_items`. Rows of the ready queue that
  depend on the state of the caller's checkout (`_batch_runtime_ready`) may leave it
  between two pages; sorting says nothing about that, so `NothingMissed` is not
  claimed for them.
- Session history: an audit trail that no operation reads back.
- Receipts of schema 1 batches, worktree relocation, the scope accounting of
  the final diff: Git facts and legacy records.
- Migration, the MCP layer, the command line: parsing, formatting and dispatch.

Four hazards in `PROJECT.json` have no property and say why: an edge between two
batches lets an edit void a receipt of a batch whose closeout has begun
(`store.py:1735`; section 4, closing); a claim acknowledged as a duplicate leaves its
worker without the generation (`git_backend.py:572`; modelled, a legal state); a
namespace whose lock file appears while prune waits is removed although it was used
(`git_store.py:777`; modelled, the exception of `PruneSparesUsed`); and a
`mkdir`/`open` race with prune ends a call with an error nobody handles
(`git_store.py:300`; modelled, it counts as an end). Metadata that names an aborted
batch strands its item: that is the exception of `OnlyMetadataStrands`.

## 6. Plan

Done, in this order: the tracker (claims, deferrals, batches), publication with
its abstract branch, the local store, calls that carry claims, reads and
listings, and the proofs above. Next:

1. *A third item*: edges between two batches, so that the receipts an edit voids
   across batches get a run. It takes three items, two batches and some eighteen
   calls, so it needs a coarser model of claims first.
2. *Restore and bootstrap* as operations of `Publication`: a restore brings back
   generations a takeover had fenced.
To check a run: `tlc -workers 2 -config Claims.cfg MCClaims`; to check a proof:
`tlapm TrackerSafety.tla`.
