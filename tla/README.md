# TLA+ verification of the DRN framework

This directory holds TLA+ models of the core of DRN-Project (a C#/.NET framework:
`DRN.Framework.*`, with the browser code of its sample application), the TLC
configurations that check them on small instances, and proofs that TLAPS checks for
every instance. `PROJECT.json` lists the components, runs, mutants, the source lines
behind every definition, the hazards and the theorems.

## The system

| Component | State | Operations | Interacts with | What makes it hard |
|---|---|---|---|---|
| Cached clock (`Utils/Time/TimeStampManager.cs`, `ApplicationLifetime.cs`) | cached ticks, drift flag, drift exception, shutdown action | `Update`, `UtcNowTicks`, `CurrentTimestamp`, `RequestShutdown` | timer calls it; id generator and auditing read it; host registers its stop action | clock steps back; plain writes read by other threads; shutdown ordering |
| Id sequence generator (`Utils/Ids/SequenceManager.cs`) | one static scope per entity type: stamp and atomic counter | `GetTimeScopedId`, `UpdateTimeScope`, `TryGetNextId` | reads the cached clock | lock-free publication of scopes; exhausted units; stale reads |
| Recurring action (`Utils/Time/RecurringAction.cs`, `Concurrency/LockUtils.cs`) | started, disposed, running, the timer | `Start`, `Stop`, `Dispose`, callback | runs the clock's `Update` | one-shot timer rearmed by its own callback; overlapping callbacks; failures |
| Cancellation scopes (`Utils/Cancellation/*.cs`) | token source, merged tokens, registrations, flags; root and keyed children | `Cancel`, `Merge`, `ReleaseResources`, `GetOrCreateScope`, `Dispose` | repositories and request code merge and cancel | callbacks under way on another thread; reentrant disposal; locks and waits |
| Id encoding (`Ids/SourceKnownIdUtils.cs`, `EpochTimeUtils`, `Numbers`) | none | `Next`, `Parse` | generator, interceptors | sign bit as half of the epoch, field widths |
| Entity ids (`Ids/SourceKnownEntityIdUtils.cs`, key ring) | keys | generate, parse, secure and plain forms | id encoding, type registry | collision of the two forms, key rotation |
| Entity type registry (`SharedKernel/Domain/SourceKnownEntity.cs`) | two concurrent dictionaries | look-up and registration | entity ids | concurrent registration of a conflict |
| Pagination (`SharedKernel/Domain/Pagination`, `Utils/Entity/PaginationUtils.cs`) | cursors held by the client | request, jump, refresh, result | a table that changes | boundaries, page jumps, writes between pages |
| Repository and EF Core integration (`DRN.Framework.EntityFramework`) | change tracker, generators, rows and their stamps | add, get, remove, delete, save, mark | all of the above | failed and repeated saves, lost answers, concurrent updates, restarts with other keys |
| Rate limiting (`Hosting/RateLimiting`, `Middlewares/PreAuthRateLimitingMiddleware.cs`) | limiters, leases, selection of each request, gauge | evaluate, acquire, refuse, release | two middlewares of the request pipeline | lease accounting on every path, what a refused attempt leaves behind |
| Page components (`Sample.Hosted`: drnOnmount, onmount, appPostload, reactBundle) | registry, behaviours, React roots and handles | register, poll, mount, update, dispose | browser events, htmx swaps | scripts that run again, swaps under way, late timers |
| Request pipeline (`Hosting/Middlewares`) | per-request state | scope, exception handling, buffering, MFA | hosting | failures after the response has started |
| Start-up (`Hosting/Utils`, `BackgroundServices`) | manifest cache, warm report | load, warm, wait | host life cycle | one-time initialisation, cancellation |

The remaining parts (authentication and identity pages, tag helpers, dependency
injection by attributes, settings, HTTP, JSON and hashing helpers, logging, analyzers,
test contexts, samples, migrations, vendored web assets, papers) are request-local glue,
pure functions, I/O, configuration or generated code; `PROJECT.json` gives each one's
reason. `DRN.Framework.Jobs` and `DRN.Framework.MassTransit` hold no code.

## Modules

| Module | Models |
|---|---|
| `TimeStampManager` | the cached clock and the shutdown hook |
| `MCTimeStampManager` | the same with a history variable, for TLC |
| `UniqueIds` | abstract: what an id source promises |
| `SequenceManager` | the id generator over the clock; refines `UniqueIds` |
| `MCSequenceManager` | symmetry of the threads, for TLC |
| `SequenceManager_proofs` | theorems about clock and generator |
| `RecurringAction` | the recurring action and its timer |
| `RecurringAction_proofs` | theorems about it |
| `CancellationScope` | one cancellation scope over a .NET token source |
| `CancellationUtils` | root and keyed scopes, their owner and their users |
| `CancellationUtils_proofs` | all its safety properties, for any threads, scopes and nesting of calls |
| `SourceKnownIds` | the 64-bit id: packing, parsing, creation-time filters |
| `SourceKnownIds_proofs` | ids: round trip, order and filters, for fields of any size; entity ids: both forms are read back, for any cipher and MAC |
| `SourceKnownEntityIds` | the entity id: plain and secure forms, collision guard, key ring |
| `EntitySaving` | units of work, interceptors, database and processes, over both id modules |
| `MCEntitySaving` | a small cipher with collisions, for TLC |
| `EntitySaving_proofs` | identity, updates and entity ids, for any instances, settings and faults |
| `Pagination` | page requests and results over a table that others change |
| `Pagination_proofs` | walks, places of pages and `HasNext`, for any rows, page sizes and changes |
| `RateLimiting` | requests through the limiter chains before and behind authentication |
| `MCRateLimiting` | four rules, one of each sort |
| `RateLimiting_proofs` | chains, permits, gauge and judgement, for any rules and requests |
| `ElementMounting` | page components, their registration and the events that poll them |
| `ElementMounting_proofs` | its safety properties, for any elements, behaviours and order of events |
| `MCElementMounting` | two pages with scripts of every kind |

### TimeStampManager

`cachedUtcNowTicks`, `driftDetected` and `driftException` are the static fields. `Update`
is cut at its writes: `Advance`, `Freeze` and `DetectDrift` are the three outcomes of
comparing the truncated reading with the cached one, `RaiseFlag` writes the flag,
`RequestShutdown` invokes the hook if one is registered. The system clock is any reading
at any update, so it may jump in both directions. Readers call `CurrentTimestamp` only
while `Readable`; otherwise `UtcNowTicks` throws. The two volatile reads of
`UtcNowTicks` are one step, which loses nothing: a reader that saw the flag down and then
reads a later value behaves as one whose whole read happened at the first moment
at which both held, because the cached value never goes back. After critical drift an
update may still advance the cached value when the system clock has caught up; nobody
can read it.

### SequenceManager and UniqueIds

Each thread runs `GetTimeScopedId`, one action for each access to shared state: the
clock, the static field `_timeScope`, the counter of a scope. `pc` names the next access:
`check` and `load` read the field, `take` increments, `wait` is the sleep loop, and
`stamp`, `expect`, `swap`, `reread`, `compare`, `renew` are the lines of
`UpdateTimeScope`. `scopes` is the sequence of all scopes ever published, so that a thread
can hold an old one; the field is always the last of them. `Throw` is the
`ClockDriftException` out of any clock read. `issued` and `begunAt` are history.

`UniqueIds` says what callers rely on: an id is new, and greater than every id returned
before the call began (calls that overlap may return in any order, a call may fail).
`ImplementsUniqueIds` is the refinement, with the identity on the two history variables.

**Timing assumption.** The constant `ReadGapIsShort` restricts the clock step: when TRUE,
the clock does not tick while a thread stands between line 86 of `SequenceManager.cs`
(stamp of the new scope) and line 87 (scope to replace). Nothing in the code enforces it.
With the assumption ids are unique, with a proof. Without it they are not: the run
`sequence_stalled_read` shows a thread that is descheduled between the two lines for
longer than the rest of its unit; another thread opens the scope of the new unit; the
first one then reads this newer scope, sees that its stamp differs, and swaps in a scope
with the old stamp whose counter starts again at 0. Reading the scope before the stamp
would close the gap.

### RecurringAction

`Start`, `Stop`, `Dispose` and the rescheduling are one step each: they hold
`_scheduleLock`. The callback of a pool thread is `queued`, then claims `_isRunning`
(`Claim`) or returns (`Skip`), runs the action (`Succeed` or `Fail`, then `Report` for the
failure handler), gives the claim back (`Release`, outside the lock) and reschedules.
`Fire` and `Discard` are the .NET timer: a callback that was handed to the pool
is not recalled. Delays are abstracted: an armed timer may fire at any moment.

### CancellationScope and CancellationUtils

A call of `Cancel` runs the callbacks of the token source on the caller's thread, and each
of them cancels another scope. Every thread therefore has a stack of frames; the step of
the innermost frame is the next critical section, or the next call of the token source
outside it: `cancel`, `signal`, `notify`, `finish`, `unregister` for `Cancel`; `merge`,
`register`, `accept`, `drop` for `Merge`; `release`, `before`, `registrations` for
`ReleaseResources`; `get`, `add` and `dispose` for `CancellationUtils`. Users call from a
free thread or from a callback of a token they know. Token sources and registrations are
.NET's: cancelling notifies once, registering on a cancelled source runs the callback at
once, `Unregister` does not wait, `Dispose` of a registration waits while another thread
runs its callback. Callbacks run in any order (.NET: last registered first), so what
holds here holds for any order. Exceptions of callbacks leave `Cancel` through the
same `finally` block and are left out.

`RootReachesChildren` has to allow for a child that is *being* cancelled
(`isCancellationInProgress`): a thread may have claimed the child's cancellation and not
yet called `_source.Cancel()` when the root's own notification ends on another thread.

### SourceKnownIds and SourceKnownEntityIds

These two have no state: they are the operators `EntitySaving` computes with. The bit
fields of the id are digits of a number, whose bases (`TicksPerHalf`, `Apps`,
`AppInstances`, `Sequences`) stand for 2^32, 2^7, 2^6 and 2^18; the sign bit is a term
that is subtracted in the first half of the epoch. The code's masks and shifts compute
these digits as long as every field is in range, which `Generate` checks and the model
takes as the domain of its arguments.

A GUID is a block with a content and a MAC; cipher and MAC are arbitrary functions per
key, of which only `Dec[k][Enc[k][b]] = b` is assumed. `UsableVariants` is the loop of
`GenerateSecure` (the first variant byte whose cipher text does not look plain),
`Jackpot` its exception when there is none, `IsLegitimate` the proof the parser asks for
before it accepts a variant byte other than the default one.

### EntitySaving

Each app instance has one `DbContext` at a time. `Add` takes an id from the generator,
as the value generator of Entity Framework does; `Save` is `MarkEntities` for all
entries, in order, up to the first that throws, and keeps what was marked;
`Commit`, `CommitUnanswered` and `SaveThrows` are what becomes of the write. After the last two
the entries stay as they are and the application may save again or leave. `Get` and
`DeleteById` take any entity id that was ever given out, also by a process with other
settings. `Crash` loses the unit of work and the generator; `Start` brings the process
back with one of `Configs`.

Assumed and external: Entity Framework's tracking, a transaction per save, a key and a
concurrency check per row. `DateTimeProvider.UtcNow` is the uncached system clock, so
its readings are modelled as all different. Every type has a table of its own, as every
entity of the repository has. App instances have different numbers, and a
process that comes back does so after the last time unit it used: a restart *within* one
unit repeats ids, because nothing is persisted (`SequenceManager.cs:23`). `IdIsIdentity` holds
under this assumption and therefore says nothing about such a restart. The
interceptor's own call of `Next` is reached only for an id that is still 0, which is also the
value of the first id of the second half of the epoch with app, instance and sequence
number 0; the bounds contain it. Domain events, and drift exceptions out of `Next`, are
left out.

### Pagination

`Start`, `NextPage`, `PreviousPage`, `Refresh` and `Jump` build a request as
`PaginationRequest` and `PaginationResult` do; `ReadItems` and `CountRows` are the two queries of
`GetResultAsync`, between which `Insert` and `Delete` may happen. A row is its id; ids
say when a transaction began and not when it committed, so that rows may appear anywhere
in the order. Requests with an empty cursor id end in a `ValidationException`
(`refused`). This happens to a client that follows `HasNext` when the total is older than
the last deletions: the page it gets is empty but still has a next one, and asking for it is
refused. `FromOffset` only computes a page number and is left out.

### RateLimiting

A request goes through `Arrive`, the links of the first chain, `Admit` (the gauge
goes up), authentication, the links of the second chain, `Respond` and `Leave` (the
gauge goes down, the lease is disposed). A link is `ClearSelection`, `PassBy`,
`Skip`, `Allow`, `Acquire` or `Refuse`; `Fail` is an exception or an aborted request at any
of them. Which result a rule returns is open, within the results `Rule` allows it. A
limiter is made by the first result that needs its partition and kept until `Evict`; its
key leaves the action out, as `Equals` does. .NET's chained limiter, limiters and
second middleware are external; the second middleware tries a refused request twice.
A denying limiter reports no idle time and is never evicted.

### ElementMounting

`Register` is `drnOnmount.registerFull`; `Poll` runs every behaviour over the
elements, in the order of registration, with `Enter`, `Fail` and `Leave` as the life cycle of
onmount and `Mount`, `UpdateHandle` and `DisposeHandle` as reactBundle's. `ui[e]` collects
what happened to an element: `loaded` is the mark onmount leaves on it, which `Due` asks for, and
`inits` counts, as history, how often each behaviour was initialised there. Document parsing,
classic and module scripts, htmx swaps and `htmx:load` are the browser's and htmx's, as the
header of the module says.

The initialisers of the behaviours in `Fallible` may return false or throw, at any element and in
any poll. onmount then leaves the element unmarked (`onmount.js:235`), so the next poll tries
again. One that throws also ends the poll (`PollThrows`): the elements not yet reached and all behaviours
that follow are left out, and so is the rest of the script whose registration polled
(`PollScript`). A failed initialiser leaves nothing of its own behind, but a root of another
component that `DRN.React.mount` unmounted before it failed stays unmounted. Assumed of the
others is that they succeed, and of unregister callbacks that they do not throw.

`ComponentsFollowThePage` needs an exception because of this: it allows the state after a poll in
which an initialiser failed (`~complete`). Then a behaviour that has nothing to do with the one that
threw may be missing from the page until another event polls, and nothing in the code makes one happen.

Every registration of the model gives an unregister callback, as those of the pages do.
Without one `registerFull` passes no exit handler to onmount, although its documentation
(`drnOnmount.js:60`) names `drnOnmount.unregister` as the default: a component
registered that way is not disposed when its element goes. A registration from within a
register callback, which would poll onmount again in the middle of a poll, does not occur
in the application and is not modelled.

## Runs

| Run | Bounds | Shows |
|---|---|---|
| `clock` | readings 0..13, 2 readings per unit, 4 per second, drift limit 2 s | the served clock is monotone, a freeze hides less than the limit, flag after exception, a registered host is stopped |
| `sequence_safety` | 2 threads, 2 ids per unit, 4 calls, 4 units, limit 2 s, `ReadGapIsShort` | types, uniqueness, refinement of `UniqueIds` |
| `sequence_liveness` | 2 threads, 1 id per unit, 3 calls, 3 units, no timing assumption | scopes are not ahead of the clock, counters bounded, calls end or sleep, drift wakes sleepers |
| `sequence_stalled_read` | 2 threads, 2 ids per unit, 4 calls, 3 units, no timing assumption | **violation** of `Unique` (the finding) |
| `recurring_action` | 3 pool threads | no overlap, no lost schedule, stop is respected, a started action keeps running, a stopped one comes to rest |
| `cancellation` | root, 2 children, 1 foreign token, 2 threads, 4 user calls | propagation, causes, source ownership, clean-up, no deadlock |
| `pagination` | 5 rows of which 2 change, pages of 2, 5 pages, jumps limited to 2 pages | walks repeat and miss nothing that stayed; in a quiet table pages have their place and `HasNext` is exact |
| `pagination_jump_cap` | 4 rows, pages of 1, jumps limited to 1 page | **violation** of `JumpIsCapped` |
| `rate_limiting` | 2 requests, 4 rules, 1 permit per limiter, denials with a key of their own | no request is served unjudged, the gauge is exact, permits come back |
| `rate_limit_deny` | the same, denials under the client's key | **violation** of `DeniedIsRejected` |
| `entity_saving` | 2 app instances, 2 time units, 2 sequence numbers, 2 entities, 2 keys, 1 fault of one instance | an id is an entity for ever, entity ids are read back, no lost update |
| `element_mounting` | 2 pages, 4 behaviours of which an island may fail, 2 swaps | initialised once also after failed polls, popups survive, roots are used safely, components follow the page after a poll without failure |

Why these bounds are enough: the clock's bounds let a reading fall inside a unit, inside a
second, just below and just at the drift limit. The generator's cover a lost
compare-and-swap (two threads), an exhausted unit (one or two ids), an old scope held
across two ticks, a freeze and a critical drift. Three workers are one executing, one
skipped and one queued. Four user calls make a child, merge, cancel and
dispose in every order, on two threads and reentrantly. Five rows in pages of two give a
full page, a last page that is not full and an excess row in both directions; jumps of two pages
skip one, forwards and backwards, and in `pagination_jump_cap` a limit of one page makes a jump of two exceed it. Two requests meet at a limiter with one permit, and
the rules cover all results, both phases, a scoped rule and a short-circuiting one. In
`entity_saving` the id 0, ids in both halves of the epoch, colliding cipher texts and
exhausted variant bytes all occur; the entity and time bounds leave room for an id that
is taken, lost by a fault and looked up again by the other instance under exchanged
keys. Two swaps let a page come back after another one with registrations of both. The island that
may fail matches two elements, one of them shared with the other island, and its place among the
behaviours varies, so that a throw leaves out none, one or two of them.

Deadlock is checked in the runs of the clock, the generator, the recurring action,
cancellation and pagination; requests, users of a page and bounded units of work may
really come to an end. In `CancellationUtils` the action `Rest` lets users
stop calling, and only when no call is under way; a set of calls that block each other is
therefore a deadlock for TLC.

**Fairness.** Clock: the two steps after a detected drift, which are straight-line code.
Generator: each thread is scheduled; the clock itself owes nothing and may stand
still for ever. Recurring action: an armed timer fires, the pool runs what it was given, and the
action ends (the framework's own action is a short synchronous function). Cancellation:
threads are scheduled. Page components: the browser runs the scripts and events it has
queued. All of it is weak fairness, and no user owes a call.

`CallsEndOrSleep` is checked with a bounded clock and a bounded number of calls. In a
behaviour without these bounds a thread loses the compare-and-swap only to a thread that
published another scope, so it could go round for ever only if a clock unit passed in
each round; the run shows that no other cycle exists.

`CounterStaysBounded` matters because the counter is a 32-bit integer that is
incremented also when exhausted; the range test would accept a negative number.

## Proofs

The theorems hold for every value of the constants. Each invariant is proved
with a stronger one that every step preserves; before it was proved, TLC checked that
stronger one on the instance of the run. The assumptions the proofs rest on are the
`ASSUME`s of the modules, which TLC evaluates in the runs.

**`SequenceManager_proofs`**, for every set of threads, sequence limit, clock range and
drift limit:

- of the clock, with any readings: `ClockTypeCorrect`, `ExceptionBeforeFlag`
  (`FlagHasException`), `ClockIsTracked` (`ServedTimeTracksClock`),
  `ServedTimeIsMonotone` (`TimeIsMonotone`). The invariant `ClockInv` relates the served
  time, the last reading and the place where `Update` stands;
- `TypeCorrect`, `ScopesNotInFuture` (`NoFutureScope`);
- `CountersBounded`: `IsFiniteSet(Threads) => (Spec => []CounterStaysBounded)`;
- `UniqueIfGapShort`: `ReadGapIsShort => (Spec => []Unique)`;
- `Refinement`: `ReadGapIsShort => (Spec => ImplementsUniqueIds)`.

`BaseInvariant` needs no timing assumption: types, every scope index a thread holds exists
(`HoldsScope`), a stamp about to be published and every published stamp have been served
(`StampServed`, `NoFutureScope`), and every id that is out is at or below the counter of
a scope with its stamp (`IssuedFromScope`). `Unique` and the refinement rest on
`OrderInvariant`: `Unique` is not inductive, it needs that the stamps of scopes strictly
increase (`ScopesIncrease`), for which a thread about to swap must hold a stamp above
that of the scope it expects (`SwapAdvances`; this is what the timing assumption gives), and,
for the order of ids, that a thread about to take an id holds a scope no older than any
id that was out when its call began (`TakesLater`). `CounterStaysBounded` is a counting argument
(`HasRoom`): a counter, the threads that may still take an id of its scope and those that may do
so twice add up to at most the bound, and each increment takes a thread out of one of
these sets, for a thread that found a scope exhausted comes back to it at most once.

**`RecurringAction_proofs`** proves types, `NoOverlap`, `NoLostSchedule` and `StopHolds` for
every set of pool threads, from one inductive invariant: the claim is set exactly while
one callback executes, a started action has its timer armed or a callback on its way
that will rearm it, and a stopped one has its timer off.

**`CancellationUtils_proofs`**, for any threads, scopes, foreign tokens and number of
calls, in any nesting and on any stacks; the assumptions say that scopes and other tokens
are different things, that the root is a scope and that `noThread` is no thread. The invariants
speak of `Running`, the frames of all stacks, and of `FrameAt`, which counts them from the
bottom of a stack, so that a call on top of it leaves the places of the others alone.

- `TypeCorrect` (`TypeOK`, with what every frame is like: `FramesFit`);
- `SourcesAreSafe` (`SourceUsedSafely`), from `SafetyInv`: of each scope one frame at most
  cancels and one at most disposes, the flags say which, and a disposal that
  finds a cancellation under way leaves itself to that one (`CancelAt`, `DisposeAt`);
- `CancellationIsCaused` (`CancellationHasCause`), from `CauseInv`: a frame that cancels has
  a cause, and a callback is registered only with a token its scope has merged;
- `ChildrenOutlive` (`ChildrenOutliveRootCallbacks`), from `FamilyInv`: one thread at a time
  makes a scope, under the lock; the root is released once; and a child is disposed only
  when the root will run no callbacks any more (`RootGone`);
- `NothingIsLeft` (`NothingLeaks`), from `LeftoverInv`: whatever is left to do of a registration
  or of a disposal is with a frame, or with the cancellation a disposal was left to
  (`Seen`, `Awaited`);
- `ChildrenAreReached` (`RootReachesChildren`), from `ReachInv`: a child that users know is
  cancelled or being cancelled, or the root never will be, or the root's source knows the
  child and has not told everyone, or the frame that cancels the child stands on the frame
  that tells (`WillBeReached`); a child that is being made may in addition stand before its
  registration (`Joining`), and until then nothing has touched it (`MakeInv`).

**`RateLimiting_proofs`**, for any rules, requests, limits and orders of the rules:

- `ChainInOrder`: a chain has every rule of its phase once, in order, behind the link that
  clears the selection (the factory's sort is some ordering of the set of links; the
  theorem says that there is one and that it is the one expected);
- `TypeCorrect`, and `PermitsAreConserved` (`PermitsComeBack`) from `PermitInv`: each limiter's
  free permits and its holders add up, and a request holds permits only of links it has passed;
- `GaugeIsExact` (`GaugeCountsAdmitted`);
- `OnlyJudgedPass`: `DenyKey # Client => (Spec => []OnlyJudgedAreServed)`. The hypothesis is
  the configuration of the run `rate_limiting`; without it the property is false, which
  is the third finding. The invariant says what a request has asked so far: each rule
  behind its place in the chain that concerns it, in order, none of which ended the matter.

The orders of the rules are integers not below `MinOrder` and there are finitely many rules;
no rule has the name of the clearing link or of the empty selection (`LinkNames`).

**`SourceKnownIds_proofs`** proves, for fields of any size (`FieldAssumption`):
`ParseInvertsGenerate` (so ids of different parts differ), `LaterIsGreater` (the order of ids
is that of time stamps, also across the middle of the epoch, and that of sequence numbers
within a unit) and `FiltersFollowTheTime` (the creation-time filters compare time stamps,
with bounds in either order). The argument is division with remainder, field by field:
the fields below one of them add up to less than its unit.

The same module proves of entity ids, for any cipher that decrypts what it encrypted and
any MAC (`CryptoAssumption`): `PlainIsReadBack`; `SecureIsReadBack`, for every entity id
that `GenerateSecure` returns (`~Jackpot`), where the guard's choice is shown to be just what
the parser asks a proof of; and `FallbackKeysRead`, that a ring with the right key
behind others reads back an id of either form, if no key before it accepts it by coincidence of the MAC.

**`EntitySaving_proofs`** uses both, for any app instances, types, settings, key rings, faults
and restarts:

- `IdentityHolds` (`IdIsIdentity`): whatever bears an id, in the database, in a unit of work
  or given out, has one its app instance's generator has used and not one it will (`NamesInv`, `UsedBy`).
  An entry with the id 0 needs care (`IdFits`): 0 is both "not set" and the first
  id of the second half of the epoch;
- `UpdatesAreKept` (`NoLostUpdate`): the concurrency stamp stands for one version of its row
  (`StampInv`), among the stamps rows have, entries were read with, and saves are about
  to write, so that equal stamps mean that the version is the one that was read;
- `HandedOutIsRead`: `Spec /\ []NoCoincidence => []EntityIdsAreRead`. `NoCoincidence` says
  that no key accepts an entity id that was handed out under another one, which the code
  leaves to 32 bits of MAC. The small cipher of `MCEntitySaving` has this property for
  all ids (`KeysApart`, which TLC evaluates), so the run needs no such hypothesis.

**`Pagination_proofs`**, for any finite set of rows, page sizes, jumps and any inserts and
deletes of other transactions, also between the two queries of one request:

- `TypeCorrect` (`TypeOK`) from `TypeInv`, which says of every field what it holds, and that
  what waits for its count is in order and at most one row too long;
- `WalkSeesWhatStaysHolds` (`WalkSeesWhatStays`) from `WalkInv`: every row that stayed was shown
  or stands after the last one shown (`StayedFits`), the request under way continues from
  just that row (`WalkAsks`), and what was read but not yet counted holds all of the rest or
  one row more than the page (`ReadFits`). The property is not inductive: it says
  nothing of the cursor, nor why an empty page may not lead back to the first one;
- `PageNumberIsPositionHolds` and `HasNextIsExactHolds` from `QuietInv`, which speaks of sessions whose
  table did not change: the ids of a cursor stand at the ends of the page it names
  (`Positioned`), which is what jumps and skips count from, totals are those of the table, and
  a refreshed page carries the right mark (`MarkExact`);
- `JumpsAreShort`: a jump leads at most `MaxJump` pages away, for any result. That is what holds
  of the limit, whose direction is the second finding.

The argument is about windows of one sorted sequence: what a request reads, forwards or
backwards, is a window of the sorted rows of its query (`Entities`), and the sorted
rows behind or before a cursor are a window of the sorted table (`SortedWindow`). `Sorted` is
stated by rank, the i-th row being the one with i - 1 rows before it, so that it is
unique (`ListIsSorted`) without a recursion.

**`ElementMounting_proofs`**, for any pages, elements, behaviours, numbers of swaps and failing initialisers:
`MountedOnceHolds`, `AppendedStaysHolds` and `RootsUsedSafelyHolds` from `MountingInv`. It has three parts:
the registry and the lists of behaviours and listeners hold each name once and
none in both (`RegistryInv`); on contents to come, and on the newest one during its swap, nothing was
initialised (`Fresh`), and the body is of contents that were shown (`ContentInv`); and each element is in order
with respect to the behaviours (`ElementsInv`): no dead root was used, the live root is the
one `reactBundle` knows, a root belongs to a behaviour that is mounted there and can dispose of it,
what a mounted behaviour appends is there while the element is attached, and no behaviour was
initialised twice on it, where one that was is still mounted if the element is attached
(`InitsFit`): that is why a behaviour that is due, having no mark, was never initialised there. A poll visits an element
with one behaviour after the other (a recursive function of the model); that the visits exist
(`VisitsExist`) and that each leaves the element in order (`PollFits`) is shown by a least
counterexample, since the induction theorems of the library cannot be instantiated. The lemmas speak of
any set of failures and any visits that are cut off (`Polls`), so they cover every place at which
an initialiser may throw.

Only model-checked: all liveness properties (`DriftStopsHost`, `CallsEndOrSleep`,
`DriftReleasesThreads`, `RunsOnWhileStarted`, `Quiesces`, `CallsReturn`,
`ComponentsFollowThePage`), which need `ENABLED`, out of the prover's reach. The three runs that
expect a violation refute what the repository says; where something weaker holds, a theorem
states it (`UniqueIfGapShort`, `OnlyJudgedPass`, `JumpsAreShort`). Every other property of the
runs is the subject of a theorem.

## Findings

1. `SequenceManager.cs:86`: the stamp is read before the scope (above, `sequence_stalled_read`).
2. `PaginationRequest.cs:70`: a jump beyond the limit goes the limit's distance in the
   opposite direction. With the limit of 10, a jump from page 20 to page 1 leads to
   page 30. The documentation of the repository says that such jumps are capped.
3. `RateLimitRulePartitionKey.cs:69`: keys are equal whatever the rule decided. A rule that
   limits a client and later denies it under the same key finds the limiter made for the
   limiting result, which lets the request through; the other way round the client stays
   denied for good.

## Not modelled, and plan

`json-editor.js`, a vendored library, holds 96% of the script lines of the repository, and
the framework itself is written in C#. The remaining scripts (error page, cookie manager, error handler, utilities)
parse, format and display. Of the framework, the parts listed as not modelled in
`PROJECT.json` are sequential, request-local, configuration or I/O.

Next, in this order:

1. A composition of `EntitySaving` with `CancellationUtils`: a repository's cancellation
   during a save.
2. `RequestPipeline`: one request through scope, exception handler and body buffering,
   where an exception after the response has started meets
   `HttpScopeMiddleware.cs:40`, which sets a status code that can no longer be set.
