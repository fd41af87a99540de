# RAIL-BLOC: specification of the block-plan life cycle, the audit ledger and the console

RAIL-BLOC plans maintenance blocks on railway sections. A solver proposes block
plans, a rule-based validator (Sentinel) vets them, a Sr. DOM and a DRM release
them, a bridge to the Control Office Application (COA) transmits them, and an
Emergency Service revokes what a breakdown displaces. Every change of state is
entered in a hash-chained ledger. All of this runs in several processes over one
PostgreSQL database: a FastAPI application (many requests at once, and one
background loop) and Celery workers.

In front of it stands a web console (`apps/web`, TypeScript): one browser tab per
operator, with a session, a live event stream and a page per task, each page with
several requests under way at a time.

The specification is translated from the Python and SQL, and the TypeScript of the
console, under `src/`. The central question of the backend is concurrency: **every handler reads a plan with a plain SELECT, decides on
what it read, and later updates by primary key in the same READ COMMITTED
transaction**. No row is locked by the read and no update repeats the status that was
read, so any other transaction may commit in between. What stands between the system
and a wrong release is then the schema's constraints, a few guarded UPDATEs, and the
ledger's advisory lock.

The central question of the console is the late answer: **every handler of a page goes on
after an `await` with what its closure captured before it**. By then the operator may have
picked another plan, tab or section, signed in as somebody else or left the page, and
requests of the same kind may answer out of order.

## 1. Inventory

| Component | State | Operations | Called by / shares |
|---|---|---|---|
| Plan store (`data/sql/02_schema_ddl.sql`) | `block_plans`, `plan_shadow_demands`, `block_demands`, `signal_acknowledgments`, `coa_outbox`, `incidents`, `solver_runs`, `idempotency_keys` | constraints checked at every write | everybody |
| Approval chain (`routers/approvals.py`) | plan status, `decided_by`, `authorized_by` | decide: approve, authorise, reject | consoles; idempotency; ledger |
| Plan endpoints (`routers/plans.py`, `services/plan_lifecycle.py`) | plan status, seal, acknowledgments, outbox | acknowledge-signal, revise, transmit, activate, complete-fitness, archive, cancel | consoles; Sentinel's structural subset |
| COA bridge (`services/coa_adapter.py`, loop in `main.py`) | outbox state and attempts | process_outbox every 2 s | reads plans and incidents |
| Emergency Service (`routers/emergency.py`, `services/emergency_service.py`) | incidents, plan status | breakdown, acknowledge incident | Optima, Sentinel, idempotency |
| Idempotency (`services/idempotency_service.py`) | key table | check_replay, record | approvals, emergency |
| Solver worker (`apps/workers/tasks.py`) | runs, plans, demands | run_solve, scheduled generators | Celery, Optima, Sentinel |
| Demand ingest (`routers/demands.py`) | demands | ingest, manual | feeds |
| Audit ledger (`03_ledger_triggers.sql`, `services/ledger_service.py`, `chronicle/verifier.py`) | `action_ledger`, sequence, advisory lock | append_event, sealing trigger, verify_ledger | every transaction that writes |
| Sentinel (`packages/sentinel`) | none (pure) | ten checks, set checks, structural subset | worker, transmit, emergency |
| Optima (`packages/optima`) | none (pure) | CP-SAT model, greedy fallback, detention replay, roster | worker, emergency |
| Solve trigger (`routers/optimize.py`) | a Redis lock | solve, status | Celery |
| Weather, ML, freight, corridor feeds | urgency, deferrals, trains | refreshes | inputs of a solve |
| Live stream, sending side (`services/sse.py`) | none | publish | consoles |
| Console session (`context/persona-context.tsx`, `lib/api.ts`, `lib/rbac.ts`, `app/(app)/layout.tsx`, login page, `sidebar.tsx`) | token in memory and in sessionStorage, persona, route | login, persona switch, logout, navigation between and within routes, reload, gate | `auth` router; every page through the token |
| Console live stream (`lib/live.ts`, `context/sse-context.tsx`) | state shown, event list, attempt, timers | mount, ticket, open, event, error, timeout, retry, watchdog | ticket and stream endpoints |
| Approvals page (`atlas-approvals.tsx`) | lists, selection, report, held button, two dialogs | open, acknowledge, sign, modify, life-cycle steps, reloads | approvals and plans routers |
| Disruptions page (`atlas-disruptions.tsx`) | form, impact, confirmation, incidents | impact check, drill, reload, incident approval | emergency router |
| Planner page (`atlas-planner.tsx`) | tab, rows, solve, interval | tab, solve, poll, load | optimize and plans routers |
| Overview (`atlas-dashboard.tsx`) | summary, plans, banner, stamp | refresh by timer, button and stream | dashboard and plans routers |
| Audit ledger page (`atlas-ledger.tsx`) | verdict, entries, refusal | verify, entries | ledger router |
| Weather card (`atlas-weather.tsx`) | alerts, deferrals, error | load at once and by timer | weather router |
| Corridor map (`atlas-corridor-map.tsx`) | bundle, trains, filters, layers drawn | load, paint, toggle, basemap | corridor router, map library |
| Authentication (signing side), string chart, 26-week page, landing page, generators, evaluation, deployment | - | - | - |

**Hard behaviours.** Interleaved read-then-write requests on one plan; a revocation
that races an activation or the bridge; a revision that races an approval or the
bridge; two people acknowledging at once; retried POSTs in flight together; the order in
which rows of one bridge iteration are judged; statement snapshots against the
ledger lock; sequence gaps after rollback; a verification beside writers; and,
not modelled, a worker that dies mid-solve, an expiring solve lock, and lock order
between row locks and the ledger lock. In the console: a login that answers after a logout
or a switch; a console that stays open after a logout; a persona read beside another token; answers of an earlier attempt of the
stream; a source that dies in silence; a dialog whose plan changes under it; a button
freed by another step's answer; a reload that overtakes a later one; a poll that
answers for the tab before; a paint pending while the library loads. `PROJECT.json`
lists each of them at its line.

**What makes each component correct.** Approvals: two different people, in order,
before anything goes out. Endpoints: a revision inherits nothing; signal work needs
both acknowledgments. Bridge: TRANSMITTED_COA on acknowledgment only; every queued row
is answered. Emergency: displaced work is not lost, a revoked block does not come back,
incidents coalesce into a root. Idempotency: one key, one effect. Ledger: one
unforked chain, append-only, verifiable while it grows. Worker: work is scheduled once;
a run ends. Sentinel and Optima: each agrees with a direct statement of its rules.
Session: who is shown is who acts, and nobody is offered what the backend refuses.
Stream: one connection, and LIVE means live. Pages: what is applied is what was
seen, what is shown was answered, and no button is held for ever.

## 2. Modules

```
PlanStore ──┬─ Approvals ────┐
            ├─ PlanRequests ─┤
            ├─ CoaBridge ────┼─ PlanLifecycle ──┬─ PlanPromises ─ MCPlanLifecycle
            ├─ Emergency ────┤   (INSTANCE      └─ PlanLifecycle_proofs
            └─ Planner ──────┘    ReleaseChain)
Ledger (INSTANCE AuditLog) ──┬─ MCLedger
                             └─ Ledger_proofs

Roles, Absent ──┬─ ConsoleSession ─┐                  each with <module>_proofs:
                ├─ ApprovalsDesk ──┤                  ConsoleSession, ApprovalsDesk,
                ├─ DisruptionDesk ─┤                  DisruptionDesk, LiveFeed,
                ├─ PlannerDesk ────┤                  CorridorMap
                ├─ Dashboard ──────┼─ Console ──┬─ MCConsole
                ├─ LedgerDesk ─────┤            └─ Console_proofs
                ├─ WeatherCard ────┤
                ├─ CorridorMap ────┤   DisruptionDesk ─ MCDisruptionDesk
     LiveFeed ──┴──────────────────┘
```

* **PlanStore**: the tables as functions over identifiers (`None` for no row), the
  constraints, and the requests in flight. `Admissible` is
  `chk_distinct_approvers` and `excl_active_overlap`: a transaction whose result breaks
  it does not commit (`Abort` is its only way out). `req[s]` holds what a handler
  remembers between its read and its commit.
* **Approvals**, **PlanRequests**, **Emergency**: one `...Read` and one `...Commit` per
  endpoint, the first with the early returns in its guard, the second with all the
  writes of the handler.
* **CoaBridge**: one iteration of `process_outbox`. Rows are judged one after
  another. The first acknowledgment appends to the ledger and holds its lock to
  the commit, so every other transaction that writes waits and the remaining rows are
  judged on current data: the model keeps the stale part (`refused`, `first`) apart from
  the fresh part (`rest`).
* **Planner**: `run_solve` as a start and a commit, and the effect of ingest.
* **PlanLifecycle**: Init, Next, fairness and the properties.
* **ReleaseChain**: abstract specification of the four milestones of a plan. Refined by
  PlanLifecycle with `stage` read off `decided_by`, `authorized_by` and the outbox.
* **PlanPromises**: what the documents say and the code does not keep.
* **Ledger**: a writing transaction as call, lock, INSERT statement (snapshot and
  number), trigger, commit or rollback; a verification row by row.
* **AuditLog**: abstract specification of an append-only numbered log.

* **Roles**: the tables of `lib/rbac.ts` (pages and actions per role, aliases) and, beside
  them, the roles the endpoint behind each button admits (`require_roles`).
* **ConsoleSession**: `memToken` and its `sessionStorage` mirror, the persona shown,
  the route, and the login answers still under way, each with the provider that asked
  for it. `goingTo` is the route pushed last: a later push takes its place. The console pages
  share one layout, so `GoWithin` and `BackWithin` leave its gate, which looks once, as it is;
  only `Mount` (another route, a reload) runs it again. A reload starts with what the mirror
  holds.
* **LiveFeed**: mounts of the hook and connection attempts by number. `phase` says where
  an attempt stands, `esRef` which source a mount would close, `timer` and `retry`
  which timers are pending. An unmount stops none of the answers and timers under way. A
  source may go `silent`: dead, and no error has told the page.
* **ApprovalsDesk**: `calls` holds the requests under way; a call goes through the legs
  `post`, `rows` or `rowsAgain` or `list`, `report` as its handler does after each `await`,
  with the stage its button was shown for (`seen`). `ServeRows` and `RowsArrive` are apart,
  so that lists arrive out of order. `dialogs` and `sending` hold the two dialogs: they lie
  over the page but neither trap the focus nor make it inert, so an open dialog guards no other
  action. The backend takes each call whole, by the stages its endpoint accepts (`Takes`: an
  acknowledgment in any stage) and the roles its `require_roles` names; `OthersMove` is every
  operation of another operator, an acknowledgment of COA and an emergency revocation.
* **DisruptionDesk**, **PlannerDesk**, **Dashboard**, **LedgerDesk**, **WeatherCard**,
  **CorridorMap**: likewise, one action per handler, timer and answer, with the state of
  the page as variables named as its `useState`.
* **Console**: the tab. Pages share no state and none outlives its page, so `part` names
  the part that is up and the others rest in one initial state. The composition
  is a sum of state spaces instead of their product, and `ConsoleRunsItsParts`
  proves that it is a behaviour of each part's own specification.

The history variables `vetted` and `effects` are written only, never read by an action.
In `ApprovalsDesk` the fields `seen` and `held` of a call, and in `DisruptionDesk` the
`shown` of a drill, stand for what the handler's closure captured.

### Abstractions

* A plan's content stands for its SHA-256 hash, and a chain of entries for the digest of
  the last one: hashes are taken to be injective.
* Instants are small numbers; a section is a model value; roles are not tied to
  users, so one person may act as Sr. DOM and DRM.
* The structural re-check of `transmit`, the ten checks of a candidate and the CP-SAT
  search are data: the candidates a solver may build are the constant `Offers`, and an
  action stands for those that pass. G&SR-2 alone is kept, as it depends on state.
* The several SELECTs at the start of `breakdown` are one read. From its first
  revocation on, a breakdown holds the ledger lock through the solve, so the rest is one step.
* The coalescing window of 60 minutes is longer than a run; the COA delay is a flag
  (`due`) that time sets.
* What is published to consoles, and the payload of a ledger entry, are left out.
* In the console a row is its plan and stage, a list a function of plans, the figures of
  an answer the version they were computed from. A request that fails may have taken effect
  (a lost answer). Wording, layout, geometry and camera are left out.
* Deadlock between row locks is an `Abort` of either transaction.

## 3. Runs

| Run | Expect | What it asks |
|---|---|---|
| `lifecycle` | pass | two sessions over all plan endpoints, the solver and the bridge; one plan with signalling work and one revision of it, on the same window or another |
| `bridge` | pass | liveness of the outbox with two rows of one plan, cancellations and failing iterations |
| `revocation` | pass | a breakdown beside the chain of two consecutive blocks, two rows in one iteration: stale revivals, double queueing, the plan of the emergency |
| `emergency` | pass | three breakdowns, two at once, on two touching sections, and the feeds beside them |
| `ledger` | pass | three writers, rollbacks and a verification |
| `transmit_unsealed` | violation | NFR-007 against the bridge's stale read |
| `revision_unvetted` | violation | mandatory Sentinel verification against the sealing of a revision |
| `displaced_work` | violation | the docstring of the revocation against its list of states |
| `provisional_stuck` | violation | the Controller gate against the guard of `transmit` |
| `revoked_returns` | violation | "not silently re-authorized" against updates by id |
| `console` | pass | one browser tab, in the session, the stream and every page in turn |
| `unseen_blast` | violation | a drill only after "seeing the consequence first" (`docs/4__Design.md:78`) against a form that may change after the impact was checked |

**Properties.** `TwoPersonRelease` holds although `decide` compares with a stale
`decided_by`: it is `chk_distinct_approvers` that saves it, and the mutant without that
constraint breaks it. `MilestonesInOrder` (refinement of ReleaseChain) says that no
interleaving skips or loses a milestone, although the *status* column can move
backwards or be revived. `OnLineOnlyOnAck` is the SAFE-006 rule. Both it and
`TwoPersonRelease` also speak of the demands, which each handler moves in an UPDATE of its
own: no demand is shown released or on line without a block of its own that is.
`OneAckOneTransmission` says what the outbox is for: one acknowledgment, one transmission,
in one step, also when a plan is queued twice and both rows are due. `DraftAwaitsAcks`
depends on `uq_sigack_plan` making the upserts wait for each other.
`SignalWorkAcknowledged` is G&SR-2, through the worker's look-up by content hash as
well as the endpoint. `RevisionStartsAfresh` is FR-026. `SingleEffect` is exactly-once of a
retried POST. `RevivedByStaleReadOnly` bounds the damage that `revoked_returns`
shows: only a transaction that read the block before the revocation brings it back.
`PastTheSentinel` does the same for `transmit_unsealed` and `revision_unvetted`: a plan past
the Sentinel was checked, or is a revision that both roles acknowledged, and has the seal
of its content until a revision of it exists; and `ReplanWaits` for `provisional_stuck`: what
the breakdown planned stays PROVISIONAL until it is revised, by no route further.
`CoalescedIntoRoot` and `ProvisionalHasItsIncident` hold although the look-up
and the INSERT of an incident are apart. `QueuedIsAnswered` and `WriterIsServed` are
liveness. `ChainIntact` and `AppendOnly` rest on the lock being taken in a statement of its
own before the INSERT (the mutant without it forks the chain); `VerifierAgrees`
rests on REPEATABLE READ.

*The console.* `ShownOperatorActs`: the operator shown and the token that requests carry
come apart in one way only, a login that answers after its provider is gone.
`OfferedIsAdmitted` compares the console's role tables with the backend's, through
the aliases and spellings. `OneAttemptPerMount` and `LiveOverOpenSource` hold because every
failure closes its source before it sets the retry timer; the mutants that forget either
break them. `LiveOverOpenSource` allows a source that is `silent`: `docs/4__Design.md:83` wants the
STALE overlay when no message arrives for 15 seconds, but the watchdog of `live.ts` looks only
at a stream that is not live, and a heartbeat comment is no message to it. LIVE over a dead
connection therefore stands until the browser reports an error. The document itself calls this
combination untested, and no run claims it.
`NoButtonWithoutToken`: a console may stay open after a logout, for its gate looks once and a
link clicked before the login page is reached overtakes the way there; it shows no operator
then and offers no button. `AppliedAsSeen`: a late request moves a plan only when it is
still in the stage its button was shown for; a late acknowledgment is taken in any stage, but
recorded without moving the plan. Three exceptions are the code's: a cancellation
and a revision are accepted in more stages than their buttons are shown in, and a
dialog acts on the row selected when it is submitted, which a late answer, or a click beneath
the dialog, may have moved to a plan that does not offer it. `SubmitHeldByOwnCall`: the submit
button of a dialog is held for one request of that dialog and for no other, although the
callbacks of a dialog that is gone close the one that is open by then, and a page beneath can
open a dialog again or select another plan while a request is out. `LateStagesByOwnAnswer` is the limit of the page: no list shows a plan past the
signatures, so the buttons of transmit, activate, fitness and archive come only with an
answer for the same plan; an operator who reloads the page does not find them again.
`ListedApprovalIsReal` holds although a drill's reload may overtake the mount's;
`ConfirmedOverAnImpact` holds and `unseen_blast` shows what it leaves open. `NoForeignRows`,
`SilentMeansLoaded`, `EntriesUnderVerdict`, `CardHoldsBothOrError` (the weather card holds both
answers of a load or neither), `ControlsRule` and `DrawnIsHeld` each relate what a page shows to loads that overlap, fail or answer for another tab.
`ConnectingEnds`, `BusyEnds` and `DrillIsFreed` are liveness.

**Bounds and why they are enough.** Two sessions give every pair of handlers all
interleavings; two windows (of three instants) let a revision move, which is
when its content differs from what was checked; three identifiers of keys allow the two decisions of the chain and a
third that races them. Two plans are a plan and its revision (or two consecutive blocks); `revocation`
has one session, because the race of two requests is what `revoked_returns` shows, and
two outbox rows so that one is in the fresh part of an iteration. `emergency` has two
touching sections, which is what coalescing looks at, and three incidents so that
a chain of coalesced incidents would show. The bound of three attempts is the code's.
In the ledger `MaxAppends` (entries per transaction) and `MaxSeq` (numbers drawn) are
2 and 5: enough for two transactions of two entries and a gap. Symmetry is used in safety runs
only; where model values carry distinct roles in the offers they are not permuted.
In the console two calls, loads, refreshes, incidents or sections are under way at a
time, which is what a late answer needs to meet another; three mounts of a provider are a
login page, a console and what follows a reload; three attempts of the stream are one that
fails, its retry and one of a second mount; one user per role, and one with a role
no table lists. At the approvals desk two plans (one a signature short of its release, one
awaiting acknowledgments), two calls and one move of others show every exception of
`AppliedAsSeen`, and five presses (open, dialog, submit, dialog again, submit again) let the
answer of a closed dialog meet a later one; presses of the later steps of the ladder differ only in
the stage they name, and the proof covers them for every bound. `MaxRows` and `MaxEvents` are 1:
the properties tell apart only whether a row of another horizon, or an event beyond the
fifty kept, is counted. `CHECK_DEADLOCK FALSE` in every run: identifiers are bounded and the system may
really stop when every key, row or plan is used.

**Fairness.** `FairSpec` of PlanLifecycle assumes that time passes (`Ripen`), that the
loop in `main.py` keeps starting iterations (it catches every exception and sleeps two
seconds), and, strongly, that iterations do not fail for ever: `BridgeAbort` may
occur any number of times. Requests of people get no fairness, except
in `provisional_stuck`, where transmission is made fair so that its
absence is not the reason for the violation. In the ledger a holder runs to its end, and the
lock is granted strongly fairly, as PostgreSQL queues those who wait. In the console
(`ConsoleFairness`) the 15-second watchdog is an interval timer and runs (weakly fair), and
a request of the approvals desk or of a drill is answered or fails (weakly fair per call:
`fetch` settles). Operators, other operators, the stream's answers and timers get none:
`ConnectingEnds` rests on the watchdog alone.

## 4. Proofs

`tlapm X_proofs.tla` checks each of the eight proof modules. The theorems hold for all
values of the constants that satisfy the named assumptions (`LedgerAssumption`; `StoreAssumption` and
`OffersAssumption`; one assumption per module of the console): types, and `None` being
no other value. Every invariant and action property that a passing run checks is
proved: the runs find a wrong property on a small instance, the proofs leave no bound.

*Ledger.* The inductive invariant adds to `TypeOK`: sets of rows are finite (`Finite`);
only the holder of the lock is inserting or has uncommitted rows (`LockHeld`); the
snapshot of an INSERT under way is the committed table, which is what taking the
lock in a statement of its own buys, and its number lies above every row (`Drawn`); what
a transaction would commit is a chain behind every committed row, below the
sequence (`MineExtends`); the table is such a chain (`RowsChained`); a verification has gone
through a lower part of an intact snapshot (`CheckSound`). `ChainIntact` alone says nothing
of the row about to be committed, hence the strengthening. It yields `LedgerChainIntact`,
`LedgerVerifierAgrees` and the step simulation of `LedgerAppendOnly`. `LedgerOneWriter` is
the same invariant seen from the plans: between the first append of a transaction and its
end nobody else has an entry, inserts one or commits. CoaBridge and Emergency rest on it
where they take what follows the first append of a handler for one step.

*Plan life cycle.* `TwoPersonRelease` and `OnLineOnlyOnAck` are not inductive by
themselves: a request in flight writes a status on the strength of a row that others
keep changing. `IInv` adds `Backed` (what each status says about the two signatures
and the acknowledgment), `Vouched` (what a request in flight may still rely on at its
commit: of all that it read, the part that no other transaction can take back),
`Queued` (only signed plans are queued, and never a PROVISIONAL one) and `InHand` (the
rows an iteration of the bridge works on are still waiting). Each action has a lemma;
most rest on a few facts about what no action takes back (`Kept`, `RowsKept`). Two
different people, in the end, is the constraint `chk_distinct_approvers`; that both
columns are filled is the part that needs the invariant.

The other properties follow from what one step may do to one row: `RowSteps` (a row is
signed, sealed, withdrawn, moved by the field, acknowledged or born, on whose request
and with what left as it was, and its content, predecessor and incident are its INSERT's)
and `TableSteps`, proved action by action, and `Lasting`, what every step keeps.
`DemandSteps` is the same for the demands: a demand enters a released status only in the
step in which a block it is planned in enters it, which with `DemandInv` gives the
second halves of `TwoPersonRelease` and `OnLineOnlyOnAck`. Each property then has its own
strengthening:
`KeyInv` (the counter of a key is the presence of its row); `DraftInv` (a request that
read another status than DRAFT stays right, as no row returns to it); `RevisionInv` (a
decision in flight carries a seal, and only both acknowledgments give a revision one);
`CoalesceInv` (the incident a breakdown read as a root stays one); `ProvisionalInv` (the
number of an incident is unused until its breakdown commits); `ReplanInv` (no request
that moves a plan on, no queued row and no list of targets names the plan of a
breakdown); `HandInv` (the plan of the row in hand was not transmitted since it was read, for only
the bridge transmits, and its commit ends the iteration).

Two properties speak of everything past the Sentinel, and a request may bring a plan there
long after it was read. They share one lemma, `CarriedStep`: take a set of plans that
contains every plan past the Sentinel, every plan that a request takes along the chain, and
every queued plan (`CarriedBy`); if no plan leaves the set, and a plan that is sealed in
this step enters it, a step keeps that. With the set of plans whose content both roles
acknowledged it is `CoverInv`, for `SignalWorkAcknowledged`; with those that have a verdict
and a seal or a revision it is `SentinelInv`, for `PastTheSentinel`. What remains of each
proof is that the fact lasts (`CoverLasts`; `VerdictLasts`, `SealLasts`) and that a seal
establishes it.

*What a violation leaves standing.* Each violation run has a theorem that says how far
the damage goes: `LifecyclePastTheSentinel` (`transmit_unsealed`, `revision_unvetted`),
`LifecycleDisplacedUnlessGranted` (`displaced_work`: a demand that does not wait again is
left exactly as it was, and was not between SCHEDULED_DRAFT and TRANSMITTED_COA),
`LifecycleReplanWaits` (`provisional_stuck`) and `LifecycleRevivedByStaleReadOnly`
(`revoked_returns`); `DisruptConfirmedOverAnImpact` does it for the console's. And whatever is
revived, moved or re-planned, `LifecycleActiveApart` says that two active blocks of a
section never overlap: the actions that write an active status are those that check the
exclusion constraint.

`LifecycleMilestonesInOrder` is the refinement of ReleaseChain: the milestones imply each other backwards (`StageCases`), a step passes one at most (`StageStep`), and
only `activate` grants the line (`GrantStep`). It covers what a run with two rows is
too small for: with three, one iteration of the bridge may take the line from a plan queued
twice while it acknowledges another; ReleaseChain lets plans lose the line in any step.

*Session* (`ConsoleSession_proofs`). `NoButtonWithoutToken` follows from
`NobodyWithoutToken`, inductive with the types: without a token no operator is shown;
`ShownOperatorActs` goes handler by handler; `OfferedIsAdmitted` is a lemma over the tables
(`Can(PersonaRole(r), a)` for every role and action).

*Stream* (`LiveFeed_proofs`). A count is not inductive; `FeedOne` says instead that two
attempts of a mount under way are the same one, that retries are at most one, and
that a pending retry excludes an attempt. It needs `FeedOwners`: attempts are numbered in
order, each has a mount of its time, and the source a mount would close is its own.
`LiveOverOpenSource` then needs that a retry, which may close a source, finds none open.

*Approvals desk* (`ApprovalsDesk_proofs`). `Meant` says what is true of a call at each leg:
only a button posts, it remembers a stage its button is shown for, and a list that opens a
plan again belongs to a button. With it, `DeskAppliedAsSeen` compares the endpoint's
guard with the button's (`TakesWhatIsShown`) and shows that an answer changes no leg but its
own (`OtherCallsPost`). `DeskSubmitHeld` says which calls a dialog awaits (`HeldInv`): a dialog that
is closed, by whichever callback, lets its own call run on unheld (`ReleasedHeld`, `ClosedHeld`),
and a submit holds the one call it starts (`HeldBySubmit`).

*Pages.* In `DisruptionDesk_proofs` an answer under way holds only approvals the
store holds, and no step takes one back. In `CorridorMap_proofs` a paint that waits
holds what the page holds, and none waits before the map is ready. In `Console_proofs` every
answer of the planner counts rows committed by now; a load of the weather card holds what was
answered of it until it ends; the overview's second request implies that the first succeeded; the
ledger page asks for entries only under a verdict.

*Composition* (`Console_proofs`). `ConsoleRunsItsParts`: `ConsoleSpec` implies the specification
of each part, since a step of the part that is up leaves the variables of the others
alone. Every theorem about a part is thereby one about the specification that the run
`console` checks; `ConsoleTypeCorrect` draws the types together.

*Model-checked only.* The five liveness properties (`QueuedIsAnswered`, `WriterIsServed`, `ConnectingEnds`,
`BusyEnds`, `DrillIsFreed`) rest on fairness, and whatever speaks of ENABLED is out of reach
of the prover, as are recursion and induction over data.

## 5. What the project leaves out

What a continuation would take up, in this order.

1. `SolveRun`: the Redis lock and its 90-second expiry, the scheduled path around it, Celery
   delivery, a worker that dies between its transactions, weather deferral; properties
   on double booking and on runs that end. It composes with the demand statuses
   (`Demands`: ingest from every state, manual entry, forked revisions).
2. `LockOrder`: row locks and the ledger lock of each handler, to see which
   transactions can deadlock and that a victim leaves nothing behind.
3. `Sentinel`: the ten checks and the set checks as operators, against a direct
   statement of the rules over bounded inputs; the structural subset.
4. `Optima`: greedy fallback, clustering, detention replay and roster as operators
   against reference definitions, and what Sentinel accepts of their results.
5. The sending side of the live stream: which event may announce a change that was
   rolled back.

### Not modelled

* The string chart, the 26-week page and the landing page draw one answer read once when the
  page mounts: no second actor, no retry, no state that outlives the answer.
* Components and data of an earlier demo that no route imports.
* The error banner of the approvals page: its state is set and never rendered.
* The signing side of authentication: any user may act in any role in the backend's
  modules, which is the harder case for the distinct-approver rule.
* Generators, evaluation, estimators, migrations, deployment: input, output and
  numerical code with no protocol of their own.
