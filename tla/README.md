# backbone-telephony in TLA+

A verification project for the telephony module: a call-detail-record (CDR) log.
A telephony provider posts CDRs at least once; the module records each call once,
derives its talk time, links it to what it concerns, and turns it into a routing
event (`CallLogged` or `MissedCall`) that CRM and support act on.

## 1. Inventory

| Part | Source | State it keeps | Operations |
|---|---|---|---|
| Write service | `src/application/service/telephony_write_service.rs` | none of its own; one database transaction per request | `record_call`, `link_call` |
| CDR data | same file, `talk_time` and the choice of event | none | pure |
| Call repository | `src/infrastructure/persistence/call_repository.rs` | `telephony.calls` | the dedup lookup, the insert, the subject update |
| Validated HTTP handlers | `src/presentation/http/telephony_write_handler.rs` | the service and the event sink | `ingest_call`, `link_call_handler`, error to status |
| Events and sink | `src/application/service/telephony_events.rs` | what the in-process sink was given | `publish` |
| Outbox and inbox | `migrations/20260709000200`, `20260726100000` | `telephony.outbox_events`, `telephony.inbox_consumed` | stage (here), drain and consume (relay and consumers, outside) |
| Schema migrations | `migrations/` | tables, indexes, CHECKs, policies | create, fence the outbox, strip tenancy, add declared checks |
| Generic CRUD surface | `call_handler.rs`, `call_service.rs`, `call_dto.rs`, `domain/entity/call.rs` | `telephony.calls` | create, update, patch, delete, restore, purge, list |
| Connections | `telephony_write_handler.rs`, `call_repository.rs`, the composing service's middleware | the pools' connections and the fence variables on them | dedicate, lease, begin and bind, give back, time out |
| Audit triggers | `migrations/20260426220001`, `20260426220004` | `metadata` timestamps | before insert and update |
| Pagination, filters | `domain/repositories/call_repository.rs` | none | pure |
| Wiring | `lib.rs`, `lib.ext.rs` | which routers are mounted, the boot pool | builder, the four router methods |
| Exports, seeders, scaffolding | `exports/`, `seeders/`, `bin/`, `handlers/`, `application/workflows/` | none | none at run time |

How they interact. A composing service mounts the routers behind a middleware
that binds an *org scope* to each request. `ingest_call` calls `record_call`,
which reads that scope, looks the provider's id up on the request's scoped
connection, opens a transaction on the pool, inserts the row, stages the event in
the outbox *in the same transaction*, commits, and then hands the event to the
in-process sink. A relay drains the outbox at least once; consumers deduplicate
through an inbox. Since the strip-tenancy migration the module owns neither a row
fence nor a unique index on the provider's id: the composing service's tenancy
descriptor installs both.

What is hard, and the property that is about it:

* **Redeliveries race.** Lookup and insert are two statements with awaits between
  them, so only the index decides; the losers must find the winner and give the
  same answer (`OneCallPerProviderId`, `RedeliveriesAgree`, `OneOriginal`).
* **An insert waits for another request's uncommitted row**, whose handler may
  have failed or been dropped (`EveryRequestReturns`).
* **Failure at every await**: the statement fails, the caller disconnects, the
  process dies, or a COMMIT takes effect after its client gave up
  (`ImplementsCdrLog`, `RecordedWithItsEvent`, `RefusedLeavesNothing`).
* **Who can see what.** Under the fence a lookup must not answer with another
  unit's call (`AcknowledgedIsRecorded`, `AcknowledgedIsRouted`).
* **The generic endpoints** delete, restore and purge calls under the race
  (`AcknowledgedIsRouted`, `ImplementsCdrLog` in run Admin), and create and rewrite
  rows whose provider ids the validated path deduplicates by, with a read and a
  write that anything may come between (`NoDeliveryIsSwallowed`,
  `RoutedAgainOnlyAfterRelease`, `ValidatedSurfaceKeepsTheLog`).
* **A request that holds a connection takes another.** With every connection of a
  pool bound to such a request nobody moves until an acquire times out
  (`OnlyBeginStarves`, `EveryHandlerReturns`).
* **Fence variables live on pooled connections.** Each statement must run in its
  tenant's database under its own scope, and no early return may leave a scope
  behind for the next request (`StatementsKnowTheirTenant`,
  `ScopeDiesWithItsRequest`, `EveryConnectionIsReturned`).
* **Stamps are transaction starts**, not write times (`StampsInOrder`, `CreatedOnce`).
* **One row, three request bodies.** A full update, a partial one key by key
  and a test for "no changes" must agree on fields, null and spelling
  (`PatchIsReadModifyPut`, `NoChangesOnlyClears`); pages are computed in 32 bits
  (`PagesPartitionTheList`).
* **Contradictory and skewed CDRs**, in versions that race: the row that stays and the
  event that is owed must tell one story (`TalkTimeIsWholeSeconds`,
  `RowsMatchTheirEvents`).
* **A migration that drops the tenancy key** guards itself by counting rows, while
  releases and the decorator come and go, and may stop between two of its DROPs
  (`KeyKept`, `OwnerSees`, `DedupKept`, `FenceHolds`).
* **One set of rules kept in two places**: a guard in front of the generic
  surface, which checks against a row read earlier, and CHECK constraints added
  over live rows (`ConstraintsHold`, `GuardLetsNothingIn`, `GuardAnticipatesChecks`).

`PROJECT.json` lists each hazard at its line.

## 2. Modules

```
CallRecord            data: CDR, talk time, row, event        (parameters and assumptions)
  |- CallRecordProofs   theorems about the operators
  |- CdrLog             abstract specification of the log
  '- TelephonyWriteService   record_call and link_call, concurrent
       '- TelephonyInvariant   the inductive invariant IInv
            |- TelephonySurface   one unit's calls as CallSurface's routers see them
            |    '- MCTelephony        TLC instances
            '- TelephonyProofs    safety theorems
                 '- TelephonyRefinement   refinements of CdrLog and of CallSurface

StripTenancy          the strip migration, the decorator and two releases
  |- MCStripTenancy     TLC instances
  '- StripTenancyProofs   theorems

DeclaredRules         row rules, constraints and the writers between them
  |- MCDeclaredRules    TLC instances
  '- DeclaredRulesProofs  theorems

RequestConnections    which connection each statement of a request runs on
  |- MCRequestConnections    TLC instances
  '- RequestConnectionsProofs  theorems

CallSurface           the module's routers side by side over one log
  |- MCCallSurface      TLC instances
  '- CallSurfaceProofs  theorems

CallData              a CDR, a page, a patch: CallRecord, Paging (page arithmetic)
  |                     and CallEntity (request bodies and the row)
  |- MCCallData         TLC instances
  '- CallDataProofs     theorems
```

The groups share the table `telephony.calls` and look at different sides of it:
TelephonyWriteService at identity and routing statement by statement,
StripTenancy at the tenancy key, DeclaredRules at the texts the rules limit,
CallSurface at provider ids, soft deletion and stamps with every writer beside
every other, RequestConnections at what the statements run on and not at what
they write. CallSurface takes `record_call` as one step, as CdrLog does. That the
interleaved one may be taken so is not assumed: TelephonySurface maps one unit's
part of TelephonyWriteService to CallSurface's state, and `ImplementsSurface` says
that every interleaving of the first is a behaviour of the second, with its soft
deletes, restores and purges, while no row is created or re-keyed past the service.

### CallRecord

The data. Free text is abstracted to the distinctions the code makes: a number is
blank or given, a text fits its declared length or not, direction and status are
known to the database enum or not. Time is an integer number of ticks with
`TicksPerSecond` ticks to the second, because `num_seconds` truncates; `I32Max`
is the saturation bound. `started_at`, `party_id`, `agent_id`, `recording_url` and
`notes` are copied through and never tested, so they are left out; the pair
`subject_type`, `subject_id` is one value.

`RowAccepted` is what the INSERT of `insert_cdr` must pass before the unique index
is consulted: the two enum casts, `calls_duration_non_negative`, and the declared
CHECKs when their migration could add them (`DeclaredChecks`).

### TelephonyWriteService

One request is one run of `ingest_call`. Its program counter names the await it is
at, and each action runs from one await to the next:

| `pc` | await | actions |
|---|---|---|
| `idle` | request arrives | `RefuseNumbers`, `RefuseScope`, `Accept` |
| `probe` | first lookup | `ProbeHit`, `ProbeMiss` |
| `begin` | `pool.begin`, bind the scope | `Begin` |
| `insert` | `insert_cdr` | `InsertRejected`, `InsertLoses`, `Insert` |
| `rollback` | `tx.rollback` | `Rollback` |
| `reprobe` | second lookup | `ReprobeHit`, `ReprobeMiss` |
| `stage` | `outbox::stage` | `Stage`, `StageFails` |
| `commit` | `tx.commit` | `Commit` |
| `publish` | no await until the return | `Publish` |
| `done` | returned | `ReleaseTx`, `LateCommit` |

`DbFails` is the `?` of each of these statements. `Abandon` drops the handler's
future at any point, publishing included. A transaction that is left open, by an error return or
a dropped future, still holds its key: `ReleaseTx` rolls it back some time later
(sqlx's rollback on drop, or the server noticing the dead connection). A handler
that gave up while its COMMIT was under way leaves the outcome to the database:
`LateCommit` or `ReleaseTx`.

State: `calls` and `outbox` are the *committed* tables, indexed by the request
that created the row (the call id is a fresh uuid, so the request can name it);
`tx[r]` is what request `r` has written and not committed; `published` is what
the sink was given; `reply` what the caller was told. The database runs at READ
COMMITTED: a statement sees committed rows only, and an insert of a key that an
open transaction holds waits for that transaction (`PendingConflict`) and then
succeeds or reports a unique violation (`CommittedConflict`).

The constants `Fenced` and `PerUnitUnique` are the composing service's tenancy
decorator: row-level security by unit, and the unique (unit, external_id) index.
Both FALSE is the module on its own. `AdminCrud` says whether
`all_crud_routes` is mounted beside the validated routes; when it is, rows can be
deleted, restored and purged at any time. Creating and updating rows through
those routes is CallSurface's. Under the fence with no
scope bound a request never reaches the database, so `RefuseScope` stands for all
such requests. `link_call` is one UPDATE and so one action; its rows-affected
test only chooses the status code.

### CdrLog

What a caller may rely on, with no transactions, lookups or locks: a request is
asked; `Record` adds its call and its event in one step, provided the unit does
not hold the provider's id; the request is answered once, as the original, as a
duplicate of a call that is in the log at that moment, as refused (nothing
recorded, then or later) or as failed (perhaps recorded, perhaps later).
`TelephonyWriteService!Log` maps `asked`, `log`, `routed`, `answered` to `req`, `calls`,
`outbox`, `reply`, and `ImplementsCdrLog` says that every behaviour of the service is one of the log.

### TelephonySurface

A refinement mapping, for any one unit `Home`. A row is what CallSurface tells
apart of it (the provider's id, the soft-delete mark; the clock stands at 0). The
events in the outbox are the log of ids used and of deliveries routed, and the ids
of purged calls are the ones released. What is uncommitted does not appear: a
delivery becomes visible at its commit, prompt or late. Duplicates are not mapped,
since they change nothing the routers see.

### StripTenancy

The upgrade from the release that wrote `company_id` to this one. `columns`,
`required`, `uniques`, `policies` and `fenced` are the schema of `telephony.calls`
as far as tenancy goes; `calls` are its rows, each with a history field `owner`,
the company whose call it really is. `migration` is how far the strip is:
`Proceed` and `Refuse` are the DO block, then `DropIndexes`, `DropPolicy`,
`DropColumn`; `MigrationFails` may happen between any two, and a run may be
repeated from any state but the middle of another. Whether the runner wraps the
file in a transaction is not known from this repository; one that does shows a
subset of these behaviours. `Revert` is the down file. The decorator's two steps
(`AddOrgUnit`, `Backfill`) and the start and stop of a release are the operator's
and the composing service's, and may come in any order.

`Passes` is PostgreSQL's rule for permissive policies: they are alternatives, and
a NULL key matches nobody. The former release binds `app.company_id` only; this one
binds the unit and its legacy company (`bind_org_scope_on`). The application never
bypasses row security: the migration that installs it requires that.

One constant names the posture. `MigratorBypasses`: migrations run as a role that
row security does not bind. The theorems about rows need it; the fence does not.
Nothing stops the former release while the strip runs, neither the migration, which
takes no lock between its guard and its DROPs, nor any document. A row it writes
once the strip has begun (`StripBegun`) is therefore `late`, a second history
field: the code may lose its key, and the properties about keys, visibility and
dedup speak of all other rows (`InTime`).

### DeclaredRules

Eight rules (two numbers required, six texts limited). A value is one of the few
the rules tell apart: within its limit or longer, spaces, tabs, NULL. `holds` is
the rule in `CallRowRules`, `CheckHolds` the CHECK; they differ on tabs, which
`btrim` keeps and Rust's `trim` strips. Which of the two backbone-core's rule
`trim` does is not in this repository, so it is the constant `RuleTrimsTabs`.

A generic update is three steps (`find`, `GuardAllows` or `GuardRefuses`, `Write`)
and every other writer, guarded or not, may come between them; the read and the
write are backbone-orm's and are modelled without a lock, the weakest it may do.
`create` checks and inserts in one step because nothing it checks can change.
`record_call` and `link_call` are the validated path's writes as far as these
columns go. The migration is one `Scan` and one `AddConstraint` per rule; a rule
that stored rows break is skipped, which is `Scan` not being enabled. `unguarded`
is history: which breach of which row came in past the guard. Soft deletion is left
out: a deleted row is still subject to every constraint and every scan, and that
`link_call` skips deleted rows only takes steps away.

### RequestConnections

A connection belongs to one pool; `hold[h]` is what handler `h` has of them, by
role: its *own* (the composing service's middleware bound it to the request for
its duration, or did not), the *tx* of `record_call`, a *lease* for one statement.
`session` is the fence variables set on each. `Needs` is where a statement must
get a connection: `pool.begin` from the pool the request names, always; the
lookups from the same pool, and `link_call` from the pool the service was built
with, unless the request has its own. `record_call` is walked from await to await
again, with what it reads left out: a lookup answers or not, an insert wins or
loses. `AcquireTimesOut` is sqlx's acquire timeout, possible only while every
connection of the pool is taken; `Fail` is any `?` and any dropped future, after
which `Release` gives back what is left. That a returned connection has no fence
variables is sqlx's rollback for what a transaction set locally and the
middleware's reset for its own; neither is in this repository, so both are
modelled from how `bind_org_scope_on` and the scoped helpers are used and marked
external in the map. `link_call` is the odd one out: without a connection of its
own it runs on the boot pool and with no fence variables, whatever tenant the request
belongs to (`Astray`), and `StatementsKnowTheirTenant` says that it is the only
statement that does.

### CallSurface

What the module offers a composing service is four routers; `Routes` is what each
serves and `Deployment` which combinations are mounted. One unit's rows, with the
provider's id, the soft-delete mark and the two audit stamps. `record_call` is one
step, its stamps the start of a transaction that may have begun earlier. A generic
update is `find` (read the row), `StartStatement` (the UPDATE starts and its NOW()
is fixed) and `Execute`; everything else may come between. backbone-orm's UPDATE
may write the columns of the request alone or the whole row it read: `Outcome`
allows both, so a stale write may revive a deleted row. A link is the same without
a read. A body gives the provider's id a value or NULL; a partial one may keep it.
Both triggers are part of the inserts and updates they fire on. `foreign` and
`released` are history: ids the generic surface put on a row and took off one.
Bulk create is several creates; upsert's conflict rule is not in this repository.

### Paging, CallEntity, CallData

`Paging` and `CallEntity` are operators, `CallData` is their state machine with
one variable `input`: a CDR whose end the provider may still move (`Reversion`), a
page asked for, or a patch with the keys its map has not yielded yet, of which
`apply_patch` takes any one at a time. `Paging` is the request's page in the width of its fields
(`Modulus` is 2^32 in the code) and the list response's counts; the quotient is a
double there, exact for every total a table reaches, and saturates. `CallEntity`
has the entity as a function from fields to values, a body as a function from keys
to JSON values, a key being a field and a spelling: the DTOs accept both
spellings, `apply_patch` only snake_case. Its loop over a HashMap has no fixed
order, so the model takes the keys in every one.

## 3. Runs

Small instances: up to three requests, because a race needs a winner and a loser,
and a third request that waits, retries or re-reads while those two are undecided;
one provider id, since two ids never interact (every guard that compares ids
compares one with itself); versions of one CDR with different talk times, so
that answering with the wrong version is seen, one of them missed by its status and
answered all the same, one really missed; up to two units where isolation or
per-unit dedup matters and one where it does not. Two ticks make a second and
`I32Max` is 3, so truncation and saturation both occur. Nothing is bounded by a
counter: each request is delivered once and a redelivery is another request, so
the state space is finite as it is, and the only reason for `CHECK_DEADLOCK FALSE`
is that all requests may have been answered.

| Run | Instance | Question |
|---|---|---|
| Race | 3 requests, 3 versions of one CDR, 2 units of 2 companies and one of none, decorated, CDRs the code refuses among them, symmetric in requests | is a CDR recorded once, are all its redeliveries told the truth and the same thing, do row and event tell one story, and does a refusal leave nothing behind? |
| Admin | 3 requests, 1 unit, decorated, generic endpoints, fair | does deleting and purging under the race lose an event, break the atomic log, or show the other routers more than whole deliveries? does every delivery return? also checks the inductive invariant |
| Undecorated | 2 requests, no fence, no unique, no declared checks | what still holds for the module on its own? |
| CallData | all CDRs over 12 timestamps; pages of lists of up to 34 rows in a width of 32; 2 calls by 625 bodies of 4 keys, each in every order of its keys | are talk time, pages, full and partial updates right at the edges? |
| Upgrade | 3 rows, 2 companies, 3 units, bypassing migrator, both releases at any time | is every call hidden from other companies at each step, and every call but the late ones owned, visible to its owner and deduplicated? |
| Rules | 1 row id, 2 updates in flight, 3 rules | do guard, constraints and stored rows stay in agreement? |
| Connections | 3 handlers, tenant pool of 2 connections, boot pool of 1, 2 units, fair | does every statement run in the right place, is no scope inherited, and does everybody return? |
| Surface | 2 calls, 1 provider id, 2 updates in flight, clock 0..1, 4 deployments, symmetric in calls and writers | which routers lose or repeat an event, and are the stamps right? |

CallData enumerates answer and end times over an interval that holds inversion,
equality, fractions of a second and values beyond saturation; with a width of 32
the default page size of 20 fits, offsets wrap and page counts saturate; the keys are one
field in both spellings, an optional one and one of a single word.

In Connections two dedicated requests that both begin exhaust the tenant's pool
and the third waits behind them: the smallest case of the starvation. Two units
make an inherited scope a wrong one, and the boot pool's one connection is what
unscoped links queue for. In Surface two calls are what a provider id can move
between, two updates one stale and one fresh, and a clock of two instants tells a
transaction's start from a later write; `MaxTime` bounds only `Tick`. Symmetry is
used only in runs without liveness.

In Upgrade late rows are left where they are and the run goes on over them. Three rows are one the decorator has backfilled, one it has not and one
still to come; one company has two units, because the fence compares units and
ownership is by company. In Rules one row is enough for the guard, which looks at no
other, and two updates are needed for one to repair what the other has read; the
three declared rules are one of each kind and one on the column `link_call` writes.
Neither has a counter: ids are used once.

The passing runs finish in two minutes each or less. Every property has a mutant: an
operator beside the original (`..._NoWait`, `..._Unscoped`) that is a plausible
mistake in that code, with which TLC finds the property violated.

### Where documents and code disagree

Four runs are expected to find a violation; each checks one sentence of the
repository's own documents, comments or error texts.

* `UndecoratedDuplicates`: ADR-001 promises one call per provider id from a unique
  index and `ON CONFLICT DO NOTHING`. The strip-tenancy migration dropped the index
  and the insert has no such clause; without the decorator's unique, duplicates are recorded.
* `OutboundMissed`: `MissedCall` is documented as an inbound call; the code does
  not test the direction.
* `RingingThenMissed`: a missed inbound call "always surfaces"; one that was
  reported as ringing first does not (ADR-001's parking lot admits that corrected CDRs are dropped).
* `OwnerMigration`: the fence's migration says that the owner bypasses it and in
  the same file forces it on the owner. An owner's guard therefore counts no row,
  and the strip drops the only tenancy key of a full table.

The same models show four more, which have no run of their own. A failure of the
outbox stage is mapped to the error whose text is "invalid input" and answered
400, while every other failure of the same transaction is `Db` and 500
(`StageFails`). A row the former release inserts
between the strip's guard and DROP COLUMN loses its key (`KeyKept` without its
exception), although the strip promises never to drop a column that still holds the
only one. The extension guide promises one call per company and
provider id, and dedup is now per org unit: `SameProviderCall` compares units. The
schema says that a missed call has zero talk time, and `NewCallRow` derives it from
the timestamps whatever the status.

### What the properties except

Four hazards are modelled and bite in the code as it is; only of the first does a
document promise otherwise (above). The properties around them except exactly that
case, and so show that it is the only one:

* a row the former release writes beside a strip that has begun (`late`: `KeyKept`,
  `OwnerSees`, `DedupKept`);
* a link without a connection of its own (`Astray`: `StatementsKnowTheirTenant`);
* a provider id the generic surface has put on a row, for which a delivery then
  stages nothing (`foreign`: `NoDeliveryIsSwallowed`);
* a page whose offset does not fit 32 bits and wraps (`PagesPartitionTheList`).

## 4. Fairness

`Fairness` is weak fairness of each handler's own steps and of the end of an
abandoned transaction. The first is the async runtime polling a future that is
ready and the database answering or failing every statement. It is not assumed
that any particular answer comes, so `DbFails` and `StageFails` may always be
taken, and an insert that waits is not enabled and so is not forced to proceed.
The second is sqlx's rollback when a transaction is dropped and, for a dead process, the
server ending a session whose client is gone. Nothing is assumed of arrivals,
of the administrator, or of successes. Weak fairness is enough because a lock
holder never waits for a second key: its own steps stay enabled until it ends.

In RequestConnections a handler's steps are weakly fair one handler at a time, the
acquire timeout is, and so is the return of what a finished handler held. Nobody is
promised a connection: `Step` is not enabled without a free one, and a free one
may be taken by others again and again. What then ends the wait is the timeout
alone, and dropping it (the mutant) refutes `EveryHandlerReturns`. No fairness is
assumed of arrivals and failures.

## 5. Proofs

Every invariant, action property and refinement that a passing run checks is
also a theorem; the runs' liveness properties are not (see the end of the section).

`TelephonyProofs` and `TelephonyRefinement` prove the safety properties for every
number of requests, units, companies and CDRs and in every posture, from the
assumptions the modules declare: `None` is not a member of the value sets, the
CDRs are CDRs, each unit has a legacy company or none, a unique index on the
unit column presupposes the fence that adds the column, and `Home` is a unit.

The argument. None of the properties is inductive by itself: that an answer names
a recorded call depends on what the open transactions may still do. `IInv`
(module TelephonyInvariant) adds:

* `RequestOK`: a handler past its validations has a scope with a company, and
  looks up only by an id it has;
* `TransactionOK`: an open transaction holds the request's own row and event and
  nothing of that request is committed yet, and from the insert to the commit the
  company bound to it is the one of the request's scope; a request that was refused or
  acknowledged has no complete transaction left, which is why a late commit
  cannot contradict an answer;
* `RecordOK`: a committed row is the row its request asked for and its event is in the outbox;
* `ReplyOK`: what an answer says of the call it names;
* `KeysDisjoint`: no two requests hold one key, *counting open transactions*.
  This is the strengthening that makes uniqueness inductive: two uncommitted rows
  with one key would commit to a violation although nothing committed is wrong yet.

`Invariance` proves `Init => IInv` and that every action keeps it, one step per
action; the safety theorems follow from `IInv`. `OkMeansRecorded` assumes
`~AdminCrud`, since a purge removes rows that were acknowledged;
`RedeliveriesGetOneCall` and `FirstDeliveryIsUnique` assume `PerUnitUnique` and
`~AdminCrud`. `OkMeansRouted` needs neither.

`ServiceImplementsLog` maps every step of the service to a step or a stutter of
the log, using `IInv` of the state it starts from: lookups, begins, inserts and
stages stutter; `Commit` and `LateCommit` are `Record`; `Publish` is
`Acknowledge`; both hits are `AcknowledgeDuplicate`.

Five more theorems of `TelephonyProofs` follow from `IInv`. `RowsAndEventsAgree`:
`RecordOK` ties row and event to one CDR, the one the request that won brought, so
a callback and talk time never meet, and a row stored as missed without a callback
is one whose CDR says that it was answered. `FenceAcceptsOwnEvents`:
the outbox's row fence never refuses the event of the transaction that inserts it,
so `StageFails` is always some other failure; this is what the clause on the
bound company is for. `NoWaitingChains`: an insert waits only for a transaction that
is past its own insert, and with the unique for only one, so a wait has depth
one and nobody waits in a circle, which is the safety half of `EveryRequestReturns`.
`RoutedOnce`: with the unique, two deliveries of one provider call are both routed
only if a row of theirs was purged. `WorkRunsOut` is the variant function behind
termination: the awaits a request has left, then the end of its open transaction,
go down with every step of the write path and never up.

`ServiceImplementsSurface` composes the two specifications: under `PerUnitUnique`
each step of the service is, for the unit looked at, one step of CallSurface or
none. Every step that leaves the committed tables alone stutters
(`SurfaceStutters`), as does a link and whatever happens in other units; `Commit` and `LateCommit` are
`record_call`, and `SetDeleted` and `EmptyTrash` the generic router's. The hard
case is the commit: CallSurface demands that nobody holds the provider's id at
that moment, and the lookup that found nobody is long past. What carries it is
`KeysDisjoint`, that an uncommitted row holds its key too. The assumption
is needed: without the unique two commits may record one id (run
`UndecoratedDuplicates`), which CallSurface does not allow.

`CallRecordProofs` proves that `talk_time` is the whole number of seconds from
answer to end, clamped to the column, for all integers (`TalkTimeExact`) and the lemmas the
others cite.

`StripTenancyProofs` has two inductive invariants. `FenceInv` needs no posture:
every key a row has names its owner and the fence's flags stay, so nothing is ever
shown to another company, whatever order the steps come in (`NoLeak`).
`UpgradeInv`, under `MigratorBypasses`, adds that each row in time has
a key whose unique and policy both stand, that from the moment the guard passes
that key is the unit, and that the policy never goes before its unique, so that
whatever the former release can still write is either covered or late.
`NoOrphan`, `NoCallHidden` and `NoCallUncovered` follow. `DrainingKeepsEveryKey`
is what an operator can do about the late rows: if the former release does not run
while a strip has begun, there are none and every call keeps a key of its owner.

`DeclaredRulesProofs` rests on two facts about one rule: it reads one field, and the
guard's form implies the constraint's. An update the guard passes therefore breaks
no rule that the row it read did not break (`GuardAddsNoBreach`); `RulesInv` carries
that row's history with the update until it writes.

`RequestConnectionsProofs`: `ConnInv` says that a connection has one holder and one
role, that each role is filled only where the handler's step needs it, and that
what is free is unmarked. `OnlyBeginStarves` follows for any number of pools,
connections and requests: a holder that cannot move is waiting, and a handler that
holds something waits only at `begin`. `PoolIsNotStuck` makes a sizing rule of it:
if a finite pool has more connections than requests that wait to begin beside
a connection of their own, one of its connections is free or with a handler that
moves. Each such request holds exactly one connection and no connection has two
holders, so on a stuck pool requests and connections are equally many
(`WaitersAreConnections`, by a surjection). Its `WorkRunsOut` counts awaits,
leases and connections still to be returned: every step of every handler uses some up.

`CallSurfaceProofs`: `SurfaceInv` adds to the rows that an event's id is still on
its call unless it was released, that an update in flight read a past of the row
it writes, with the same creation stamp, that its statement started after that,
and that without the generic surface only links are in flight.
`ValidatedSurfaceKeepsTheLog` and `NoDeliveryIsSwallowed` are parts of it, the
others follow for any number of calls, provider ids, writers, clock bounds and deployments.
`CreatedOnce` is a step property, proved from the invariant of the state before.

`CallDataProofs` needs no induction over data. The pages rest on one lemma on
quotients: a row is on the page its number says, on no other, a page shows its
rows, and `total_pages` rounds up, for any list and width, as long as offset and
total fit it. For the patches `DataInv` is the inductive invariant: the keys seen
so far have had their effect and the others none (`PatchedSoFar`). It does not
mention an order, which is why none matters; when no key is left it is the effect of the whole
body, and `EditedIsComplete` shows that the same body, laid over what a GET answers, is a
complete PUT with that effect (`PatchIsPut`). `TalkTime` is
`TalkTimeExact` applied to every CDR a provider may send or re-version.

Only model-checked: liveness under fairness (`EveryRequestReturns`,
`EveryHandlerReturns`, `EveryConnectionIsReturned`), which the prover has no rules
for. What can be said of them without fairness is proved: steps run out (`WorkRunsOut`,
twice), and who waits, waits for somebody who does not (`NoWaitingChains`,
`PoolIsNotStuck`). That a step which can be taken is taken stays with TLC. The
violation runs are counterexamples and have no theorem.

## 6. Not modelled

* The relay and the consumers' inbox: they are outside the repository, which has
  only their tables. What is owed to them is in the outbox exactly when the row is
  recorded (`RecordedWithItsEvent`), and the in-process sink is told only of what is
  owed (`PublishedIsStaged`).
* The handlers of PATCH, bulk create and upsert: backbone-core's. `apply_patch` is
  modelled as the loop it is and `has_changes` as the test it is; nothing in this
  repository calls either.
* Whether backbone-orm clears `deleted_by` when it restores through
  `set_deleted_at(None)`: the row's mark is one Boolean here.
* `CallFilter`: a list of fields and a test whether one is set; the SQL is backbone-orm's.
* `CallBuilder` and the fluent setters: assignments, without a caller in the module's own paths.
* Exports, event aliases, empty workflow and handler stubs: no behaviour.
* The seeder: it runs a seed file when the table is empty, and that file holds comments only.
* More than one unit in CallSurface: units meet only through the fence, which is
  TelephonyWriteService's and StripTenancy's subject.

## 7. What could follow

* Creates and re-keying updates beside TelephonyWriteService's steps: `ImplementsSurface`
  covers deletes, restores and purges; a generic update that falls between a probe and
  its insert, or re-keys the row a loser is about to read again, is not in it.
* A relay and an inbox, once a consumer lives in this repository.
