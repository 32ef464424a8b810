# metery in TLA+

This directory holds TLA+ modules of [metery](../src/README.md), a metering and
entitlement service: a Go server over one SQL database (SQLite or Postgres)
that ingests usage events, issues credit grants, one-off and recurring, and
answers what a customer may still use. The modules are checked with TLC on
small instances, and their main safety properties are proved with TLAPS for
every value of the constants. Paths below are relative to the repository's
root; line numbers are in `PROJECT.json`, definition by definition.

## The system

| part | code | state | operations |
|---|---|---|---|
| catalogue | `internal/service/{customer,meter,feature,plan}.go` | `customers`, `meters`, `features`, `plans` | create, rename, archive |
| subscriptions | `internal/service/subscription.go` | `subscriptions`, and through one transaction `entitlements` and `grants` | create, change, cancel |
| entitlements, grants | `internal/service/{entitlement,grant}.go` | `entitlements`, `grants` | create, delete, reset; create, void |
| recurrence worker | `internal/worker/{recurrence,run_once}.go` | the pass's local copies; `grants` | one pass over the recurring subscriptions |
| usage | `internal/service/event.go` | `usage_events` | ingest |
| balance reads | `GetEntitlementValue` in `entitlement.go` | the handler's copies; `balance_snapshots` | read a balance, save snapshots |
| ledger | `internal/ledger/ledger.go` | none, a pure algorithm | `CalculateBalance` |
| the rest | `internal/auth`, `internal/web`, `cmd` | sessions, users, configuration | log in, render, start |

They meet in the database only. Handlers run concurrently, each a sequence of
single queries and at most one transaction; nothing read before the
transaction is locked. A recurrence pass runs on a ticker in the server, in a
worker process, and on demand at `/worker/run`, so several may overlap; it
lists subscriptions once and works from that copy. A balance read answers and
leaves behind a goroutine that saves snapshots, with errors only logged. What
keeps the parts consistent is a handful of unique indexes: one active
subscription per customer and plan, one live entitlement per customer and
feature, one unvoided grant per (subscription, entitlement, effective_at), one
event per id, one snapshot per (entitlement, as_of).

What is hard in it, and what correct means:

- **Issuing.** Overlapping, failing and stopped passes, a failed read taken for
  "nothing emitted yet", rows cancelled, changed or voided under a pass that
  listed them. Each cycle is credited at most once, on the plan's cadence,
  never early, and in the end always.
- **Subscribing, changing, cancelling.** Checks and writes are apart. No
  stacked credits from calls that race past the duplicate check, all or nothing
  materialised, one plan's first grants in force at a time, nobody else's rows
  touched, marks for good.
- **Balance.** Half-open windows, boundaries of periods, expirations and caps.
  Every event counted in one period, grants burnt in order, no balance from
  nothing, monotone in what was recorded.
- **Periods of the calendar.** Three parts of the code step through months that
  differ in length, each from its own last result, and from different times:
  cycles from `starts_at`, periods from the entitlement's anchor. One read's
  periods tile time, reads agree with one another, no period is credited two
  cycles, and a read ends.
- **The catalogue.** A feature or plan is inserted after its references were
  looked up; rows come and go while clients page. A stored reference means the
  row that was looked up, and paging to the end misses nothing.
- **The snapshot cache.** Snapshots by concurrent reads with stale views, saved
  late, in part or never, never replaced. A snapshot holds nothing impossible,
  and reading from one makes no difference when it is right.

`PROJECT.json` lists each hazard at its line, with the properties that cover it.

## Modules

**`Subscriptions`** is everything that issues credits: the three subscription
handlers, the one-statement handlers of entitlements, grants and plans, and the
recurrence worker. `subs`, `ents` and `grants` are the tables as sets of rows,
`archived` the plans with `archived_at` set, `now` the clock in ticks. `req[r]`
is what handler call `r` has read so far and `wrk[w]` a pass: its phase, the
copied listing, the entries left, the time it took, and before an insert the
due cycle. Every query is an action; a transaction is one action
(`CreateSubscriptionCommit`, `ChangeSubscriptionCommit`, `CancelSubscription`).
The handlers that are one lookup by id and one statement are one action, the
lookup's result being immutable. Unique indexes are guards (`ActivePlanUniq`,
`EntitlementFree`, `EmissionFree`). Faults of a pass are actions of their own:
`ReadLatestFails`, `SkipEntry`, `PassAborts`.

Ids name rows and never enter a decision; a row's `gen` tells rows with equal
keys apart. `via` on a grant is a history column: which path inserted it.
`calls` bounds the API calls (`MaxCalls`); no code reads it.

**`CreditIssuing`** is what `Subscriptions` promises, without its tables, calls
and passes: a ledger of credits. A subscription opens once with its first
credits, loses all and gets new ones when its plan is replaced, is credited
cycle by cycle, never the same cycle twice in force, never ahead of the clock,
never for another customer; and a credit taken back stays so. `Subscriptions`
instantiates it under a refinement mapping (`Account`, `Credit`, `Issued`,
`Unvoided`): the accounts are the subscription rows without their marks, the
issued credits all grants that name a subscription, those in force the unvoided
ones. `IssuesCredit` says that every step is one of the ledger's or a stutter.

**`SubscriptionsProofs`**, **`EmissionProofs`** and **`AccountProofs`** hold the
proofs, each on top of the one before, and **`CreditProofs`** the two that
build on all of them, the refinement and the bound on credits.

**`MCSubscriptions`** gives two plans, `basic` every tick and `pro` every two,
and states what the API's documentation promises of cancelling and archiving.
Both plans entitle to `credits` and `storage`, in different orders; `basic`
grants the first only, `pro` both, so a change of plan meets a feature it must
grant anew, one whose entitlement is there and one without credits.

**`Ledger`** is `CalculateBalance` as operators: `Periods` (`buildPeriods`),
`Enter` (grants taken in, expired ones pruned), `Spend` (the burn loop),
`CarryOver` (the boundary), `EvalPeriod` (one turn of the loop), `Walk` (the
states after each turn, a recursive function), `StartState` (the seed), and
the stateless case. The grants in force are a sequence, as in the code. Grants
equal in priority and effective time keep their places: `sort.Slice` does so
for up to a dozen, and the model holds two. **`LedgerProofs`** has the lemmas
about these operators: what sorting, filtering, burning and carrying over keep
of the grants in force, that the walk is what its recursion says, and when two
walks, or a walk and its continuation from a snapshot, hold the same.

**`Balances`** EXTENDS `Ledger` with the tables of one metered entitlement
(`grants`, `events`, `snaps`), its row `ent` and its meter's aggregation, the
handlers that write them, and `GetEntitlementValue` query by query in
`read[r]`: the row, the grants, then the time of the evaluation (`ReadTime`,
which the code takes after listing), the seed, then one usage query per period.
Both dropped errors are there: a failed snapshot query means no seed, a failed usage
query means no usage. At the last period the read's snapshots go to `saves`,
the goroutines at large; `SaveSnapshot` inserts one row, `SaveFails` loses the
rest. Events are those of one customer under its key and one meter; values are
natural numbers, as `docs/design.md` has it for v0, and amounts positive. A
write whose time is stamped before it is inserted is one dated into the past.
`orderly` is a history variable: it turns false at the first step that could
make a snapshot disagree with the ledger, and no code reads it.

**`MCBalances`** instantiates it, and **`BalancesProofs`** holds the proofs,
on top of `LedgerProofs`.

**`UsagePeriods`** follows one subscription and the entitlement it credits
through a real calendar. The cycles step from `sub.starts`, the periods from
`anchor`, and no code makes the two one: the anchor is the plan entry's, or the
time of creation where that is NULL, or what an entitlement that was there
before has, and a client may set `starts_at`. So `Init` takes any two. A time counts hours, `MonthStart` gives the day
each month begins on, and `AddDate` (Go's, external) keeps the day of the month
and runs over at a short month's end. The three copies of `shiftTime` are
`ShiftTime` (the ledger's, which steps both ways), `NextCycle` (the worker's)
and `Expiration` (the handlers'); the last two ignore a duration's sign, as the
code does. `EmitCycle` is the worker's step, `StepBack` and `StepForward` one
turn each of the two loops of `buildPeriods`, and `grids` keeps what earlier
reads returned. In `Balances` periods are a fixed number of ticks; the two
modules meet in `GridTiles` and `GridsAgree`, which is all the walk of `Ledger`
asks of its periods. **`MCUsagePeriods`** has the calendar of October 2023 to
September 2024, with the leap day; **`UsagePeriodsProofs`** the proofs.

**`Catalog`** is customers, meters, features and plans: `rows` is the four
tables, and `call[c]` what a client waits for, the create call that looks up one
name per query (`Lookup`) and inserts (`CreateEnd`), or the list it pages
through by cursor (`WalkBegin`, `WalkPage`). Handlers of one statement are one
action. Any name in a request may be a row's id or its slug, as the queries
have it (`Found`), and since nothing keeps a client from choosing an existing
id as slug, `Insert` lets it. **`MCCatalog`** instantiates it and
**`CatalogProofs`** holds the proofs.

The two machines share the grants table and agree on it: issuing never reads an
amount, and a balance never asks which subscription a grant is from.

## Runs

| run | what it shows |
|---|---|
| `emissions` | Two workers, one subscription: no cycle twice (`EmissionUnique`), none off the cadence or early (`EmissionCadence`), total bounded by elapsed time (`NoOverCredit`). |
| `handlers` | Two customers, two concurrent calls and a pass: racing subscribes credit no one twice over (`NoOverCredit`), signing up is all or nothing (`MaterializedWhole`), one plan's first grants are in force (`SingleEpoch`), on the right customer's entitlements (`OwnCustomer`), others' rows stay (`RowIsolation`), marks too (`Tombstones`), and it implements `CreditIssuing` (`IssuesCredit`). |
| `recurrence` | Under fairness: every due cycle goes out (`CycleEmitted`), and after a cancellation the copies drain for good (`CancelDrains`). |
| `balance_rules` | The balance from the ledger at every time after any four writes: `UsageCountedOnce`, `BurnsInOrder`, `CarryBounded`, `Monotone`. |
| `snapshots` | Two concurrent reads and their goroutines against writes: what a snapshot may hold (`SnapshotSane`), when it is what the ledger says (`SnapshotsAccurate`, `ClosedPeriodsOnly`), and when a read from it is exact (`SeedExact`). |
| `periods` | Six intervals from three starts and three anchors: reads' periods tile (`GridTiles`), agree (`GridsAgree`) and do not overlap (`PeriodsDisjoint`), no period is credited two cycles (`PeriodCreditedOnce`), cycles begin periods where the anchor is the start (`CadenceOnGrid`), one grant follows the other (`NoGap`), a read ends if and only if the duration is positive (`ReadEnds`). |
| `catalog` | References keep their meaning (`RefsResolve`), pages go up (`PagesAscend`) and miss nothing (`WalkComplete`), rows stay as made (`RowsKept`). |
| `canceled_emits`, `archived_plan`, `off_grid`, `cached_balance`, `early_grant` | the findings below, each a counterexample. |

`Tombstones`, `RowIsolation`, `MaterializedWhole`, `RowsKept` and `Monotone` are
action properties. `MaterializedWhole` is about the step that signs a
subscription up for a plan (`Signed`): it inserts the row, moves it to another
plan, or materialises a plan for it, and what it leaves in force must be the
whole plan and nothing else. `NoOverCredit` counts, for a subscription that never
changed its plan, what is in force on an entitlement from it and from any other
active subscription of that customer to that plan (`Stacked`), so what slips
past the duplicate check shows as credit. That a plan never changed is read
off the grants (`NeverChanged`), voided ones included. `SeedExact`
is the part of the cache's promise that holds: a snapshot that agrees with the
ledger *and dropped no grant as spent* gives the same answer as none.
`SnapshotsAccurate` says when snapshots do agree: as long as nothing was dated
into, voided in or reset over a closed period, no usage query of a closed period
failed, no read was asked ahead of the clock or listed its grants in one period
and took its time in the next. Each of these exceptions is needed: without any
one of them TLC finds a snapshot that is wrong for good.

Five more properties name an exception, because the code has one.
`PeriodsDisjoint` and `PeriodCreditedOnce` are about `Invertible` steps: a month
counted from the 31st and stepped back does not return, so periods before such
an anchor may overlap, and one be longer than a cycle; from the anchor on
`GridsAgree` needs no exception. `CadenceOnGrid` is about an entitlement
anchored to its subscription's start, which is what `docs/design.md` says of
them all; without that premise it is `CyclesBeginPeriods`, and false. `RefsResolve` allows a second row
whose slug is another row's id. `WalkComplete` allows for the list of customers,
which drops deactivated ones after the LIMIT: a page of nothing else is empty,
and to a client that is the end (`Emptied`).

Each property of a passing run has a mutant, a plausible slip in one mapped
definition (named `X_Slip` beside `X`), under which TLC finds it violated.

### Bounds, and why they are enough

- `emissions`: one subscription, since the emission index, the base and the
  cadence are per subscription and entitlement; two passes, since an insert can
  race at most one earlier one on a key; three ticks give three cycles of
  `basic` and one of `pro`, enough to fall behind and catch up. Start and
  effective times come from the clock, three API calls reach create, change
  and cancel or void.
- `handlers`: two requests on two customers and plans, for races of check and
  write and for isolation; plans of two entries, so that a transaction may fail
  between them, and of two features, so that a change may find one entitled and
  one not; one tick and timestamps one tick ahead distinguish now from later.
- `recurrence`: one subscription, two calls, three ticks, no symmetry.
- `balance_rules`: two grants of two priorities, expiring within the period or
  never, two events of which one is more than a grant; periods of two ticks
  over four, so one boundary lies inside and one at the edge; with and without
  a period and a cap. `AtInputs = {0}` adds backdated grants, late events and
  resets to the past to those stamped by the clock. `Monotone` is checked for
  `sum`; it is not expected of `min` and `avg`.
- `snapshots`: one event, two grants, up to two reads at once, four calls; two
  boundaries, so that a snapshot is made from another, and reads about now and
  about a time that is ahead at first and past later. A grant of three under a
  cap of two and a use of two tell apart a grant carried whole, capped, used in
  part and spent; `balance_rules` has the entitlements without cap or period.

- `periods`: a month, a month and twelve hours, three weeks, thirty days and
  twelve hours, nothing, and minus a month, with cycles from January 14th at
  noon, January 31st or March 31st and periods from any of the three. That has
  anchors before, at and after the start, short months, the leap day, the turn
  of the year behind the anchor, days that drift across months, and both ways in
  which a read fails to end. Two remembered reads, since agreement is between
  two; `MaxPeriods` cuts off a read that would go on for ever.
- `catalog`: three rows, one client whose calls take several queries while the
  one-statement calls of others come between; pages of one row. Three ids in
  any order make a row before, at and after a cursor, or a plan, its feature and
  one taken for it by name. Proofs cover the sizes beyond.

`CHECK_DEADLOCK FALSE` is set for `UsagePeriods`, where the calendar ends, and for `Balances` because a system at its last tick
with its calls used up and no read under way has nothing left to do. In
`Subscriptions` a worker can always start another pass.

### Fairness

`FairSpec` adds weak fairness of each handler call that has begun (the server
runs it to its return) and of each worker's next step (the ticker keeps
starting passes and a stopped process is restarted). Nothing makes anyone call
the API or the clock tick, and `RequestStep` may be a failure. `FaultsEnd` says
that from some time on passes take no step that only a failure explains; without
it a database that fails every insert would refute any liveness property.

In `UsagePeriods` it is weak fairness of `ReadStep`, a loop in memory that
nothing holds up. `ReadEnds` asks for a positive duration; with one that is
zero or negative, which the handlers accept, the loop never ends.

## Proofs

For every value of the constants that satisfies the ASSUMEs of the module
proved about:

| theorem | says |
|---|---|
| `TypeCorrect` | `Spec => []TypeOK` |
| `NothingRevived` | `Spec => Tombstones` |
| `CreditedOnce` | `Spec => []EmissionUnique` |
| `OnlyOnCadence` | `Spec => []EmissionCadence` |
| `GrantsOwned` | a grant that names a subscription names one that exists |
| `CustomersApart` | `Spec => []OwnCustomer` |
| `OnePlanInForce` | `Spec => []SingleEpoch` |
| `AllOrNothing` | `Spec => MaterializedWhole` |
| `OthersUntouched` | `Spec => RowIsolation` |
| `CreditBounded` | `Spec => []NoOverCredit` |
| `ImplementsIssuing` | `Spec => IssuesCredit`, the refinement |
| `PeriodsTile`, `PeriodsAgree` | `Spec => []GridTiles`, `Spec => []GridsAgree` |
| `CyclesOnGrid`, `GrantsFollow` | `Spec => []CadenceOnGrid`, `Spec => []NoGap` |
| `PeriodTypes`, `PeriodsApart` | `Spec => []TypeOK` of `UsagePeriods`, `Spec => []PeriodsDisjoint` |
| `CreditedOnce` of `UsagePeriods` | `Spec => []PeriodCreditedOnce` |
| `BalancesTyped`, `ClosedOnly` | `Spec => []TypeOK` and `Spec => []ClosedPeriodsOnly` of `Balances` |
| `SnapshotsSane` | `Spec => []SnapshotSane` |
| `CountedOnce` | `Spec => []UsageCountedOnce` |
| `BurntInOrder`, `CarriedWithinCap` | `Spec => []BurnsInOrder`, `Spec => []CarryBounded` |
| `SeedsExact` | `Spec => []SeedExact` |
| `CacheAccurate` | `Spec => []SnapshotsAccurate` |
| `CatalogTyped` | `Spec => []TypeOK` of `Catalog` |
| `RowsStay` | `Spec => RowsKept` |
| `ReferencesResolve` | `Spec => []RefsResolve` |
| `PagesInOrder`, `WalksComplete` | `Spec => []PagesAscend`, `Spec => []WalkComplete` |

`TypeInv` strengthens `TypeOK` with what a step needs to keep the types: the
tables are finite, so that the counts behind `gen` are natural numbers.
`NothingRevived` is proved action by action from it; each leaves rows alone,
adds some, or sets a mark that was clear.

`EmissionUnique` and `EmissionCadence` are not inductive: an insert works from a
copy of the row and a base read earlier. The invariant `EmissionInv` adds

- `Owners`: a grant's subscription exists, so a new subscription has no grants;
- `Copies`: a copy that a pass or a change holds agrees with the table on the
  columns that never change, `id` and `starts_at`;
- `Pending`: a cycle a pass is about to insert is due by its clock and on the
  cadence as the table stands *now*. It stays so because grants are never
  removed and keep their time (`GrantKept`), even when they are voided or the
  subscription has moved to another plan.

`EmissionFree` is then what makes an insert keep `EmissionUnique`; for the
grants of a change it holds because all the subscription's earlier ones are
voided in the same transaction.

`AccountInv` of `AccountProofs` adds what handlers carry: a call holds a
subscription as listed, which agrees with the table on all but its marks and
plan, and ids are apart. `OneActivePerPlan`, which the unique index keeps, is
one of its conjuncts and used in `CreditBounded`. `Numbered` says that `gen`
tells the rows of one key apart, so a row a step adds is new.

`SingleEpoch` (`OnePlanInForce`) is proved of any table that a change makes of
another: what is left of the first grants of a subscription is of other
subscriptions, or among those put in, which are of one time and one to a feature
of the new plan (`Replaced`, `EpochAfter`). It is about first grants. A pass
that listed a subscription before a change may still insert the old plan's
cycle after it; that grant is no first grant, and is mentioned under Findings.

`AllOrNothing` is an action property, and is proved of the two commits from
what they read: for each entry there is a live entitlement or one is made
(`MaterializeFeature`), at most one is live for a customer and feature
(`OneLive`), so each grant entry gets one grant and no other; and after a change
all earlier grants of the subscription are voided (`WholeStep`). No other step
signs a subscription up.

`OthersUntouched` is proved action by action from that invariant: a change
or cancellation voids by subscription, and inserts grants of its own only.

`CreditBounded` takes a subscription that never changed its plan, and nothing
else: grants may be voided, by a client or by a cancellation, and calls and
passes race. `BoundInv` says that every grant of such a subscription lies on
the grid of its start and its plan's interval (`GrantsOnGrid`), and that a
pass about to insert keeps it so, even from an old copy (`PassOnGrid`). That
needs two things. A change must show for ever in the grants: the old plan's
first grants stay in the table, voided, beside those of the new one, so a
feature has two or the plan lacks it (`ChangeShows`). And a copy a pass holds
must be of the plan the subscription is on still, or of one that grants nothing
(`PlanHeld`), because a plan with grants cannot be left without a trace
(`Rooted`). What is in force is then counted without induction: one to a point
of the grid (`EmissionUnique`), none ahead of the clock, so no more than the
points from 0 to elapsed ÷ interval (`BoundFollows`).

`ImplementsIssuing` follows from `EmissionInv` and `OwnCustomer`: a create is
`Open`, a change is `Replace`, an insert of a pass is `Recur`, its cycle
being one interval after a grant that is in the table, voided or not; a void or
a cancellation is `TakeBack`; every other step leaves the three mapped sets
alone.

In `UsagePeriods` the invariant speaks of the loop in progress: going back,
nothing is collected; going forward, what is collected is a chain that ends
where the loop stands, and stands at the anchor or has begun there if the time
asked about is not before it. Since `ShiftTime` is a function of where the loop
stands, two reads that begin alike go on alike. It holds for any calendar that
satisfies `CalendarAssumption`, and for any durations. Where the anchor is the
start, the worker joins in, because its `NextCycle` is the same function when
the duration is positive: each grant but the last is followed by one a step
later (`GrantSteps`, `NoGap`), and the loop of a read from the anchor, which
starts on the first grant, stands always on a grant or past the last one
(`LoopOnCadence`). That steps go forward needs months that increase, which is
part of `CalendarAssumption`.

`PeriodsApart` adds `OnLattice`: if the duration has a fixed length, or is of
months alone from a day every month has, the loop stands on a point `At(k)`,
which is `k` steps from the anchor, counted in hours or in months, and a period
found lies between two neighbouring points. A step back is then a step to
`At(k - 1)`, and the points increase with `k`, so two periods are the same or
do not meet. The last needs that no month is shorter than 28 days
(`CalendarAssumption`), and fails, as it should, for a day some month lacks.

`CreditedOnce` asks nothing of where cycles begin. Of two grants the first
expires one step on and no later than the second takes effect (`NoGap`), and a
period, too, is one step of the loop. A step from a later time never ends
earlier (`StepMonotone`), so the second grant is at or after the end of the
period that holds the first (`CreditsApart`).

In `Balances` the invariant follows a read through its steps: until something
disturbs the order, the row it copied is still the entitlement's and its time is
not ahead, so every period but the last has ended by the clock when its snapshot
is taken; and the clock only goes on while the snapshot waits to be saved.

`SnapshotsSane` needs more: the walk under way holds each grant once and nothing
it does not know (`SaneInv`). What a read has taken in is in `seen`, so a grant
taken in next is not in force yet; a seed is an earlier snapshot and sane, with
the voided ones passed over; burning leaves every grant between nothing and
what it was, and the boundary drops the empty and the expired and applies the
cap. It holds whatever was late, voided or lost.

`CountedOnce` joins window to window: the sum over two adjoining windows is the
sum over both, so the sum over a chain of them is that of the time they span.
`BurntInOrder` and `CarriedWithinCap` follow the walk a read from the anchor
makes, period by period: each state in it is sane, what the burn loop takes from
the grants is what it takes from the usage, and it reaches a grant only with
usage that emptied the ones before it.

`SeedsExact` compares two walks. Grants in force are kept in the order of the
table (`InOrder`), and an order of the same grants is unique, so two walks that
have taken in the same grants hold them in the same places and burn them alike
(`EvalAgrees`). At a boundary where the snapshot is what the whole walk has, the
two differ only in what each believes it has seen; `SeenAfter` says that the
whole walk has seen every grant created before the boundary, and since no grant
was dropped as spent or expired, the seeded one believes the same (`AllKnown`).
From there on both take in the same grants (`TakenAlong`), and `WalksAgree`
carries this to the last period. The periods themselves agree because those of
an earlier time are the first ones of a later (`PeriodsPrefix`).

`CacheAccurate` needs an invariant that speaks of the past: while every closed
period was left alone, what was read some steps ago must still be what the
tables say of it. `SettledInv` has three parts.

- `ReadKin`, always: the rows a read has listed are the table's, but for voids
  made since.
- `Calm`, while order holds: snapshots, saved or not, are of boundaries that
  have passed, and a read under way holds the same grants as the tables do of
  the time before the last of its periods (`Alike`). `ReadTime` is where that
  could fail, and why listing in one period and taking the time in the next is
  an exception.
- `Faithful`, while besides no saved snapshot dropped a grant as spent
  (`Whole`): each snapshot holds what the ledger carries over its boundary
  (`CarriedTo`), and a walk under way is in step with it (`InStep`), whichever
  snapshot it began from. That is two cases: it has just begun from a snapshot
  and has seen only what that holds, or it has seen everything before the
  boundary.

That such a walk leaves a period as the ledger's own walk does is `EvalInStep`,
by the comparison behind `SeedsExact`. What is carried over a boundary depends
on neither the time the walk is for (`CarriedInWalk`) nor on usage and grants
dated after it (`CarriedSame`). So every orderly write and every tick leaves
`View`, the ledger as the invariant sees it, `Undisturbed` before the period of
the clock, and with it all that was said of boundaries that have passed
(`QuietSettled`). Reads and saves change one call and leave the view alone
(`OwnSettled`). A step never makes a snapshot whole again that was not
(`WholeBefore`), which is what lets `Faithful` be conditional.

Induction over loops, sequences and sums takes the form of the least
counterexample: `LeastNat` and `LeastPart` of `LedgerProofs` say that a set of
naturals, or of parts of a finite set, that is not empty has a least element,
and `CountInduction` and `PartInduction` put this into the shape of a rule for
sets. That the recursive functions of the burn loop and the walk exist at all is
proved in the same way (`TurnsExist`, `WalksExist`).

In `Catalog` every step replaces rows by rows of the same identity or adds one
with a new id and a slug no row of its table has. So what a name was found to
mean it goes on to mean, the references of calls still under way included
(`CallRefsHeld`), and with two rows under one name the two of them differ in
which column matched. For the walks, a row that was owed and is not archived is
shown already or lies beyond the cursor, up to `Emptied`; `TakenFinite` makes a
page have a last row.

Only model-checked: the liveness properties (TLAPS does not handle fairness
here), and `Monotone` of `Balances`, which compares the walks of two ledgers.

## Findings

Each is a run whose counterexample is the finding; `PROJECT.json` quotes the
documents.

1. *A spent grant comes back* (`cached_balance`, `internal/ledger/ledger.go:140`).
   A snapshot does not name grants emptied before its boundary, and a walk that
   starts from it adds every earlier grant it does not name, whole. A grant of
   2, used up in one period, is worth 2 again in the next from the moment the
   snapshot is saved.
2. *A cancelled subscription is credited* (`canceled_emits`): a pass that listed
   it before the cancellation inserts afterwards. `CancelDrains` bounds this to
   passes already under way.
3. *Archiving a plan stops its subscribers' credits* (`archived_plan`): a
   subscription that was active when its plan was archived is not listed any
   more, against "existing subscriptions keep working".
4. *Cycles are off the periods* (`off_grid`, `internal/store/store.go:738`).
   `docs/design.md:180` has the usage period anchored to the subscription's
   start; the code anchors it to what the plan's entry says, to the time of
   creation, or to what an entitlement that was there before has. A cycle then
   falls inside a period, and its credit is pooled with the one before.
5. *A grant counts before it takes effect* (`early_grant`), within the period
   it takes effect in.

Seen while modelling and not stated as a run: `CancelSubscription` writes a time
still to come into `canceled_at` and voids the grants at once, though
`subscription.proto:86` speaks of scheduling the cancellation; a plan archived
between `CreateSubscription`'s check and its insert gets a new subscription,
though `plan.proto:117-118` has those rejected; a balance read about a future
time (`at` is not checked, `internal/service/entitlement.go:149`) saves
snapshots of periods that are not over, and what is used in them later is never
counted; a grant created, and a period ended, between a read's listing and its
clock is missing from the snapshot of that boundary; a reset to a boundary that
has a snapshot goes on from it instead of beginning anew (these three are
exceptions of `SnapshotsAccurate`); a pass that listed a subscription before a
plan change may still emit the old plan's cycle, and the new plan's cadence then
counts from it; a usage query that fails is read as no usage, and the snapshot
taken with it stays; events stored under a customer's id instead of its key are
never counted. `proto/metery/v1/customer.proto:10-12` has it that ids and keys
cannot be confused, as a key that looks like a ULID is rejected; the code has no
such check, so a row may have another's id for its slug. `ListCustomers` may
return an empty page before the last one. A usage period of no or negative
length is accepted and then hangs every balance read, and the worker and the
handlers step forward by a negative duration as by a positive.

## Not modelled

- Minutes and seconds of a duration, which behave as its hours. Time zones and
  the clock's precision: the code works in UTC.
- READ COMMITTED inside one Postgres transaction. SQLite runs transactions one
  at a time, and the model does.
- Authentication: checking a bearer key, a signature or a cookie is a pure
  function of the request; signing in writes one row by `INSERT ... ON CONFLICT`
  that keeps the id, which nothing else reads for a decision.
- The web console only lists and renders; the command line parses flags, runs
  the migrations in order and starts the server.
- Page sizes of zero or less, JSON, validation of single fields. `ends_at` is
  stored, as in the code, which never acts on it.
- Several entitlements in `Balances`: reads and snapshots are per entitlement.
- The LIMIT of 1000 on the entitlements a pass lists for a customer
  (`internal/store/store.go:337`): instances have fewer, and a customer who had
  more would not be credited on those behind it.

## Plan

What is left, in the order of its worth:

1. `Monotone` by proof, one period at a time: what is left of each grant moves
   one way, and carrying over keeps it so.
2. A run in `Catalog` for what the proto says of keys that look like ids, and one
   in `Balances` for a read about the future.
