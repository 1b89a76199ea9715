# TLA+ specification of Tentrist

Tentrist rents out GPU nodes. Solidity contracts hold the collateral, penalties,
reputation and service terms of nodes; a Go backend takes jobs, splits and runs them,
keeps checkpoints of their work, receives heartbeats and raises alerts; a Go telemetry
service runs on every node; web applications are the users' view of all this. This
directory models the parts that carry state of their own, checks them with TLC on small
instances, and proves the central invariants with TLAPS for every value of the constants.

Paths below are relative to the repository. `PROJECT.json` maps every definition that
models code to its lines; definitions keep the names of the code.

## 1. The system

### Contracts (`contracts/contracts`)

| Component | State | Operations | What makes it correct |
|---|---|---|---|
| `Escrow.sol` | stake per node in two copies and a total, pending withdrawals, list of stakers, lock per node, pause, owner, slashers, ether | stake, withdraw, request/claim/bulk withdrawal, slash, lock/unlock, pause, emergency withdrawal, renounce, settings | each staked wei is in one place; copies and totals agree; nothing is paid past a lock or a pause; the ether covers what is owed |
| `SlashManager.sol` | slash records per node and reason, totals, reward clocks, ether | slash for a job and credit its client, slash a share of the stake, pay fees, claim and pause rewards, withdraw | the records agree with each other and cover what the escrow took; a period is paid once; ether is conserved over both contracts |
| `ReputationLedger.sol` | score, last update, registration per node | initialize, increment, decrement, decay, batch decay | scores stay in range; decay never overshoots zero |
| `SLAContract.sol` | terms, verdict, breach, termination, client, metrics, version per job | record, update, extend, fulfil, terminate, approve, record metrics, views | a fulfilled SLA is final; a breach is never forgotten; the views of one deadline agree |
| `NodeRegistry.sol` | a record per node with stake, status, heartbeat and score; the list of nodes, the minimum, authorized callers, ether | register, add and withdraw stake, status, heartbeat, reputation, slash, authorize, change the minimum | every wei is a stake or was slashed; the list names each node once |
| `SlashManagerAdvanced.sol` | penalty and risk records | setters, views | not modelled, see section 7 |

A transaction is atomic, so what is hard here is not interleaving inside a call but the
order of calls, of callers who do not know of each other, the arithmetic at its limits,
and one contract using a number another has not honoured (`SlashManager` calls
`Escrow.slash`, which may take less than it is asked for).

### Backend (`backend`)

| Component | State | Operations | What makes it correct |
|---|---|---|---|
| checkpoint manager, `internal/orchestrator/checkpoint.go` | three maps under one mutex, a table shared by instances | save, clear, load, synchronise, restart | the maps agree; a job resumes from its newest checkpoint; numbers order checkpoints |
| splitter, `internal/orchestrator/splitter.go` | eligible nodes, units of a job | set nodes, split, reassign a unit, share out | the units cover the job's bytes without gap or overlap |
| sandbox driver, `internal/orchestrator/sandbox.go` | ids of tracked containers | launch, wait, execute, terminate | a container that runs untracked is one the runtime failed to launch, kill or wait for |
| job API, `internal/api/handlers/job.go` | rows of `public.jobs`, cached jobs, metering records | submit (dedicated, serverless), cancel, start and stop metering | an acknowledged job is durable; work is billed once; what was cancelled stays so |
| node API, `internal/api/handlers/node.go` | rows of `public.nodes` or a map; stakes on the chain | register, stake | a row holds what was acknowledged and nothing the chain was not sent |
| alerter, notifiers, maintenance windows, daemon: `internal/alert`, `internal/maintenance`, `cmd/daemon` | rate-limiter entries, history, windows, goroutines | evaluate, route, notify, schedule, expire, shut down | alerts are spaced; only a sent alert silences others; a lasting condition is announced; shutdown ends |
| monitors, `internal/monitor/monitor.go` | rows of `node_heartbeats` (external) | heartbeat, VRAM and uptime evaluation | a silent node is reported; the newest row is judged |
| wallet linking, `internal/api/handlers/wallet_link.go` | nonces | challenge, verify | a nonce links once, the wallet that signed it (within `Session`) |

Handlers and monitors are goroutines. The hard behaviours are work done after an unlock
on what was read before it, two services written to in turn of which the second fails,
calls to the database that fail or succeed without an answer, restarts that lose
everything in memory, and slow I/O with a mutex held.

### Node (`telemetry`)

`main.go`, `heartbeat/pulse.go` and `reporter/reporter.go`: an executor of micro-tasks
with one slot, a pulse loop that gathers metrics, adds the durations of finished tasks
and sends a heartbeat with two layers of retries, and a failure detector. Tasks run
concurrently with the loop; a request that timed out may still be handled. Correct means:
no duration is reported twice, duplicates are bounded, a pulse ends once it is gathered, and so does the service unless a collector hangs.

### Web applications (`apps/web`, `apps/nodes`)

A page is an actor: the user types and clicks, effects and timers fire, and a handler
that awaits goes on after the page that started it is gone (what it sets is lost, where
it navigates to is not). The hard behaviours are answers that come late, in another
order, or to a page that shows something else by now; two services written to in turn;
copies of one fact in a list, a dialog and a cache; other tabs; and callbacks of closed
connections.

| Area | Source | What makes it correct |
|---|---|---|
| jobs | `app/(dashboard)/jobs`, `hooks/use-jobs.ts` | a submission tells the truth about the backend and the row |
| stake | `wallet/page.tsx`, `components/wallet/stake-modals.tsx` | a modal follows one transaction |
| forms | the one-form pages of both applications | a form navigates once and its labels settle |
| preferences | `settings/page.tsx` | "Saved" was written |
| admin | `app/(dashboard)/admin`, `require-auth.tsx` | a slashing decision is made once |
| nodes, analytics | `nodes`, `nodes/[id]`, `hooks/use-analytics.ts` | lists, timelines and charts show the rows they were given |
| sockets | `lib/websocket.ts`, `hooks/use-sse.ts` | disconnecting lasts; one source is open |
| feeds | `hooks/use-sse-*.ts`, `use-jobs.ts`, the stores | pushed data is neither repeated nor miscounted |
| session | auth provider, login, layout, onboarding, `use-wallet-link.ts` | redirects end; the onboarding shows what is stored |
| widgets | `components/ui`, `components/layout` | popups leave nothing behind |

### How they interact

Nodes stake in `Escrow`; the backend's contract client locks, slashes and rates them
through `SlashManager`, `ReputationLedger` and `SLAContract`. A node's pulse is an HTTP
request to the heartbeat handler (modelled at the receiving end of `Telemetry`), which
inserts a row; `Monitors` starts from such rows, late and duplicated ones included; what
monitors find is what `Alerting` routes. `Jobs`, `NodeApi` and `Checkpoint` share the
database server with them and no table. A submission in the browser calls the job API
and writes a row by itself (`JobPages` has both services as they answer); the wallet page
calls `Escrow` through the user's wallet, and the onboarding calls the wallet handler.

## 2. Modules

| Module | Models | Actions and where they come from |
|---|---|---|
| `Custody` | nothing of the code: what a node is promised by `Escrow` | handing in, paying out, penalties, holds, taking the vault |
| `Escrow` | `Escrow.sol`; implements `Custody` | one action per function (`Stake`, `Withdraw`, `Slash`, `RequestWithdrawal`, ...); `NodeCall` and `OwnerCall` are the modifiers; `Tick` is the block time |
| `SlashManager` | `SlashManager.sol` over `Escrow`, which it EXTENDS | each penalty function contains `escrow.slash`, the recording and the payments of its transaction |
| `ReputationLedger` | `ReputationLedger.sol` | `InitializeNode`, `UpdateReputation` (increment and decrement), `BatchApplyDecay` (`applyDecay` is a batch of one) |
| `NodeRegistry` | `NodeRegistry.sol` | one action per function; `setAuthorization` is `authorizeCaller` and `revokeCaller` |
| `SLAContract` | `SLAContract.sol` | one action per function; the views are operators |
| `Checkpoint` | `checkpoint.go` | `SaveCheckpoint`, `ClearCheckpoints`, `SyncToDB`; `LoadFromDB` is `QueryTable` and `MergeRows`, since it queries before it locks; `Restart` |
| `Splitter` | `splitter.go` | `SetEligibleNodes`, `SplitWorkload` (for every order an unstable sort may give), `AssignWorkUnit`; the shares as an operator |
| `Sandbox` | `sandbox.go` | `Launch` and `Register` (before and under the mutex), `WaitReturns` and `Unregister`, `Terminate` and `Kill`; the runtime's `Exit` |
| `NodeApi` | `node.go` with the client's `Stake` | a request goes through the steps `record` and `escrow`, in the order of its handler; `RestartServer` |
| `Jobs` | `job.go` | a submission or cancellation is a request that goes through the points `insert`, `cache`, `update`, `fallback`, `metering`, `unlocked`, `write`; `StartMetering`, `StopMetering`, `Restart` |
| `Telemetry` | telemetry service and the heartbeat handler | `ExecuteTask`, `CompleteTask`; the loop `BeginPulse`, `Gather`, `TotalDurations`, `ResetDurations`, tries of `Post`, `StopLoop`; late arrival of requests |
| `Monitors` | `monitor.go` on `node_heartbeats` | `Insert`; the heartbeat monitor's `Query`, `Scan`, `Return`; the VRAM and uptime monitors as operators on the rows |
| `Alerting` | daemon, alerter, notifiers, windows | `Monitor(m)` (evaluate, route, stop), `Notify`, `EndSend`, the operator's calls, `Process` of windows, `Cancel` |
| `JobPages` | the job pages | the wizard, preview, confirmation and its two writes, cancellation, the views of one job |
| `StakePages` | the wallet page and its modals | open, close, type, submit, the wallet's answer, the chain's, the query for a receipt and its failure |
| `FormPages` | one-form pages of both applications | one engine: press, the awaits of a handler, timers, a `router.push` and the page it brings later; a record per page |
| `Preferences` | the settings page | load, edit, save and its three groups of writes, each landing at its own time |
| `AdminPages` | the administration pages | load, render (which may throw), decisions on slashing events, also behind an open dialog |
| `NodePages`, `Analytics` | lists, timelines, charts | queries, polls, pushes, filters; the grouping of rows; the cache between visits |
| `Sockets` | WebSocket and SSE clients | connect, disconnect, callbacks of sockets, timers |
| `Feeds` | what is kept of pushed data | logs by query and channel, updates, notifications |
| `Session` | signing in, redirects, onboarding, wallet linking | the provider's events, effects of pages, other tabs, the services' answers |
| `Widgets` | tooltips, menus, dialogs, tabs, drawer | a handler with the render and effects it causes is one step; timers |
| `MC*` | TLC instances | model values, symmetry. `MCContracts`, `MCBackend` and `MCWeb` hold modules that share no state, and explore one of them at a time: a behaviour of all is an interleaving of one of each (proved: `ContractsRunAlone`, `PartsRunAlone`, `AreasRunAlone`), and a property of one module holds of the whole when it holds of the module |
| `EscrowProofs` | | theorems of `Escrow`, and of `SlashManager` over it |
| `ContractsProofs` | | theorems of `ReputationLedger`, `NodeRegistry`, `SLAContract`, and of the three side by side |
| `Filters` | loops that copy some entries of a list, `Array.filter` | the entries of a sequence that are in a set, as a recursive function that can be reasoned about; used by `Checkpoint`, `NodePages`, `Analytics`, `Feeds`, `Widgets` |
| `BackendProofs` | | theorems of `Splitter`, `Sandbox`, `NodeApi`, `Monitors`, `Checkpoint`, and of the parts in `MCBackend` together |
| `WebProofs` | | theorems of `JobPages`, `StakePages`, `FormPages`, `Preferences`, `AdminPages`, `Sockets`, `Feeds`, `Session`, `Widgets`, `NodePages`, `Analytics`, and of all of them together |
| `JobsProofs`, `AlertingProofs`, `TelemetryProofs` | | theorems of the module each is named after |
| `DataLemmas` | | what a sum over a finite set does when one term changes, what filtering a list keeps and what sorting one moves, for every theorem that needs it |

Operators whose comment begins with "Mutant" are plausible bugs of the definition that
follows them; `PROJECT.json` says which property each one breaks when it takes the
place of that definition.

What is abstracted:

- **Reverts.** A transaction that reverts is a step that is not enabled. Amounts are
  integers, so an unsigned subtraction below zero would show in `TypeOK`, which says that
  amounts are naturals; where the code's own checks do not prevent an underflow
  (`applyDecay`) the revert is a guard (`DecayReverts`).
- **Callers.** Access control that depends only on a fixed list is a choice of an
  authorized caller. The slashers and the owner of `Escrow` and the authorized callers of
  `NodeRegistry` change and are state.
- **Time** of the contracts is a bounded counter. In `Alerting` and `Monitors` a point in
  time is kept as its age, which stops growing where no check can tell the difference, so
  these two models cover runs of any length.
- **Payloads.** A task stands for its duration and a sum of durations is a set of tasks;
  a checkpoint's reference is its creation time; a monitor is its metric.
- **Database.** A call that fails may or may not have done its work; a result stream may
  break after any row (`MergeRows` with fewer rows than were queried).
- **The chain, from the node API.** The library behind the contract client sends a
  transaction or refuses it. `Stake` of `client.go` sets no signer, for which the library
  refuses all of them; the model allows both, so that what is checked does not rest on it.
- **Rendering.** Layout and wording are left out; a page is the state that decides what
  it shows and where it sends the tab.
- **History variables** (marked so in each module) record what the program forgets: where
  ether went, which heartbeat carried which task, which ids were answered. No action reads
  one in a guard, except for the named bounds.

## 3. Runs

| Run | Bounds | What it shows |
|---|---|---|
| `escrow` | 2 nodes, the owner as slasher, stakes of 1 and 2 with minimum 2, deposits up to 4, one donation, 2 instants | Under every order of calls `DepositConserved` (a staked wei is staked, pending, paid or slashed), `BooksBalance` (copies and totals agree, the ether held covers what is owed plus donations less what the owner drained, only a slash leaves dust, each staker is listed once), `PauseFreezesNodes`, `TypeOK`; and `ImplementsCustody`, the refinement of section 5 |
| `slash_manager` | 2 nodes, stakes of 3200, penalties that exceed and that fit it, one funding, 3 instants, 2 recorded slashes | `RecordCoversTaken`, `PeriodPaidOnce`, `SlashBooksBalance` (the six records of slashes agree, and the ether of both contracts is conserved). The run's own next-state relation (`StakeMovingNext`) leaves out the escrow's calls that only lock, pause, donate, set a limit or renounce, which no slash reads; `SMSpec`, which the theorems are about, has them |
| `contracts` | `ReputationLedger`: 2 nodes, deltas beyond the half and the whole range, waits below one period, of one and of almost a hundred. `NodeRegistry`: 2 nodes, 1 caller, payments up to 3 of ether up to 4, minimum 2 that changes to 1 or 3, 2 instants. `SLAContract`: 1 job, 1 client, deadlines 1 to 5, 3 metrics, 2 versions, uptimes below, above and out of range | `LedgerConsistent` (scores in range, clocks ordered), `DecayTowardsZero`; `RegistryBalances`; `DeadlineViewsAgree`, `VerdictsAreFinal` |
| `backend` | `Checkpoint`: 2 instances, 2 jobs, 3 saves, 1 load per incarnation, 1 crash. `Splitter`: 3 nodes of 4 kinds, 1 and 7 bytes. `Sandbox`: 3 callers, 2 containers. `NodeApi`: 1 node, 2 requests, amounts 0 to 2, at most 4 sent or recorded, any number of restarts | `IndexesAgree` always; `ResumesFromNewest` for jobs whose saves were all made by an instance that listed the job's checkpoints, each once; `SplitIsPartition`; `RunawayHasCause`; `RowsAreBacked` |
| `jobs` | 2 concurrent requests, 1 id, 2 clients, 2 metered pieces of work of 1, 2 or 3 units where integers have 2 bits (so both the signed conversion and the counter wrap), with and without a database, any number of restarts | `AcknowledgedIsDurable`, `BilledOncePerStart`, `CancelledStaysCancelled` (without a database, for an id drawn once) |
| `telemetry` | 2 tasks, 2 collectors, 1 retry of 2 tries, 2 pulses | `ReportsBounded` and, with fairness, `PulsesEnd` |
| `alerting` | 1 metric, 2 nodes, 2 severities, one maintenance window, history of 1, deduplication twice the rate interval | `LimiterRemembersSends`, `SendsAllowed` |
| `alerting_live` | the same with 1 notifier, no windows, and monitors of any speed; the window is shorter than two nodes at the shared rate need, so each may starve | `LastingConditionAnnounced`, `ShutdownEnds` |
| `monitors` | 2 nodes, 3 rows, thresholds 3 and 5, query time 2, heartbeats up to 1 late | `OfflineNeverRaised`, `StaleOnlyAfterSlowQuery`, `VRAMJudgesNewest` |
| `web` | two visits, opens, saves, tries or sockets of each kind (`MCWeb.cfg`), 2 rows, 3 days, 3 log lines, 3 nodes (so that two have the same score), 3 pushed updates, 2 users, 2 of each wallet transaction, a minimum stake of 2 and a wallet of 3 ether with nothing or 5 staked (so that the rounded maximum is too much, for either modal) | `SubmissionTellsTruth`, `ModalFollowsOneTransaction`, `FormsSettle`, `SavedWasWritten`, `ExecutedWasPending`, `ListsShowRows` (nodes and analytics), `DisconnectLasts`, `FeedsAreExact`, `SessionSettles`, `PopupsLeaveNothing` |
| `slash_creditfromslashed` | as `slash_manager`, 1 node | refutes `CreditFromSlashed`: the client's credit and the fees are computed from the amount asked for, not from the amount the escrow took |
| `monitors_offlineisreported` | as `monitors` | refutes `OfflineIsReported`: an evaluation returns without naming a node that has been silent beyond the threshold |

**Why the bounds suffice for the interesting cases.** Two nodes let one node's calls fall
between another's; nothing in the contracts relates three. With stakes of 1 and 2 and a
minimum of 2 a slash leaves nothing, dust or a legal rest, and a top-up, a maximum and a
second round of staking occur. `slash_manager` keeps the code's percentages, so its
amounts are large enough for no share to be rounded to zero, and its job value asks first
for less and then for more than is left. Three saves by two instances around one crash
give lost inserts, interleaved numbering and a load that races a save. Seven bytes over
two and three nodes leave a remainder, one byte over more nodes leaves empty units. Three
callers of the driver can wait for, terminate and replace one container, whose id may come
again. Two node requests overlap in every order of their steps. One id for two
requests makes every collision of job ids happen. Two pulses and two tasks give a
completion before, between and after the halves of the read and reset. Ages in `Alerting`
and `Monitors` pass each threshold by at least one. On the pages, what goes wrong takes a
handler that outlives its page and a second one beside it: two visits and two calls. A
page that reconnects twice reaches the limit of its attempts. Every action of every
next-state relation fires in its run.

The type invariants of the other modules document their variables; they hold on the
instances above and are not listed among the runs' properties.

**Deadlock** is checked for `backend`, `jobs`, `alerting`, `alerting_live` and
`monitors`, where some step must always be possible. The contracts stop when their time
bound is reached and nobody calls, the telemetry loop when it was cancelled, and a page
when the user does nothing more than the bounds of the run allow.

## 4. Fairness

- `Telemetry` (`Spec`): weak fairness of the loop's own steps once a heartbeat is gathered,
  because the goroutine is scheduled and every try ends: the client and the context have
  timeouts of 10 seconds. None of `Gather`: the first collector runs `nvidia-smi` without a
  timeout and may hang, so `PulsesEnd` promises a shutdown only if the loop leaves its
  collectors again and again (`CancelStops`, without that condition, is refuted).
  Strong fairness of `StopLoop`, because `select` chooses at random among ready cases, so
  a cancellation that stays ready is chosen although ticks are ready too. Nothing is
  assumed of tasks, ticks, the network or the caller who cancels.
- `Alerting` (`FairSpec`): weak fairness of the goroutines and of time; strong fairness
  of `Route` (a Go mutex in starvation mode serves waiters in turn) and of `MonitorStops`
  (`select`, as above). None of `Notify`: the clients of the notifiers have no timeout, so a
  call made with the mutex held may never return. What depends on that is stated with its
  condition (`NotifiersReturn`), and `ShutdownEnds` keeps apart what does not. Nothing is
  assumed of how fast monitors are, of operators or of nodes.
- All other modules assume none: their properties are safety properties. What must end on
  a page is stated as a bound (`SessionSettles`: for every change of the session and every
  choice of the user at most two pages the program opens by itself) or as something that is
  still under way (`FormsSettle`: a handler, or a page that has been asked for), since the
  code promises nothing of the services it waits for.

## 5. Refinement and proofs

`Custody` says what a node is promised in terms of two facts per node, what it is owed and
whether it is held, and of the vault. `Escrow` implements it (`ImplementsCustody`): owed
is stake plus pending withdrawal (`owedTo`), held is the lock a node can lose only by
`unlockStake` or, as the code has it, by staking again (`lockOf`). The run `escrow` checks
it as a property, `EscrowRefines` proves it.

All theorems hold for every value of the constants that satisfies the assumptions named in
the modules (`EscrowConstants`, `NodeApiConstants`, `AlertingConstants` and so on), which
TLC evaluates on each instance. Where a theorem counts or adds up over nodes, requests or
registrants, these are assumed finite, as a program's are; `Alerting` and `Monitors` assume
that there is a node.

**Sums.** `TotalIsSum`, the books of the slashes, the registry's ether and the rows of the
node API are sums over a set of unknown size. `DataLemmas` proves what they need of the
community modules' `SumFunction`: it is defined by recursion over subsets, and no installed
prover can instantiate an induction theorem, so each lemma takes a smallest counterexample
(`LeastNatural`, `SmallestSubset`) and contradicts it. From these follow that the recursion
defines a function, that the sum does not depend on the order of the terms, what it becomes
when one term changes (the shape of every call of a contract), and that sums add up
termwise.

**Filters.** `Filter(s, S)`, the entries of a list that are in a set, is a recursive function of the
position. By smallest counterexamples again: it exists and follows its recursion
(`FilterUnfolds`, `FiltersExist`, `FilteredSteps`), an entry appended is kept or dropped
(`FilterAppend`), a list whose entries all pass is unchanged (`FilterAll`), and there is an
increasing correspondence of places between the list and what is left of it
(`FilterPlaces`), from which come the entries kept (`FilterEntries`), their order and their
number. What the checkpoints, the node updates and the bell do with their lists rests on
`FilterPlaces`.

**Sorting.** The models sort by rank: the entry at place k is the one with k entries up to
and including it. `RankGrows`: under a total order of n places the rank is a number from 1
to n and grows with the order; `SortingPermutes`: so sorting moves every entry to a place of
its own, and in order. Both lists of the web application that are sorted use it.

**Escrow**

- `EscrowProofs!TypeCorrect`: `Spec => []TypeOK`. No amount becomes negative: the
  `require`s and the cap of `slash` make every subtraction safe, so none of the
  contract's underflow checks is ever what refuses a call. `TypeOK` is inductive; it is
  split into `BooksType`, `MoneyType` and `AdminType` so that each action is argued for
  the groups it writes.
- `EscrowProofs!LedgerSafe`: `DepositConserved`, `StakeMirror` and `DustOnlyBySlash`.
  The inductive invariant is `TypeOK /\ LedgerInv`. The parts need each other:
  `withdraw` and `slash` write the copy in `_stakes` from `_stakeOf`, and the types are
  needed for the arithmetic of one node's four places; a node other than the caller is
  left alone by every action. The lemma about `DebitStake` is used by all debits.
- `EscrowProofs!EscrowRefines`: `Spec => ImplementsCustody`. Initial states map to initial
  states (`InitRefines`); under `TypeOK` every action of the contract is an action of
  `Custody` or leaves its variables alone (`NextRefines`): a request for withdrawal moves
  what is owed between two places and is a stutter, a bulk withdrawal is a payment, a
  setting is a stutter.
- `EscrowProofs!StakersListed`: `StakerListExact`, by itself inductive under the types: only
  a first stake extends the list (`ListExtended`), and a call that credits no unlisted node
  keeps it exact (`ListKept`).
- `EscrowProofs!PauseFreezes`: `Spec => PauseFreezesNodes`, an action property.
- `EscrowProofs!BooksAlwaysBalance`: `BooksBalance`. To the ledger and the list it adds
  `BooksInv == TotalIsSum /\ EtherAccounted`; every call changes the terms of at most one
  node (`OneNodeBalances`), and a slash moves ether out of the stake and out of the contract
  alike.

**SlashManager over Escrow** (the steps of the escrow are those of its own module, so its
lemmas are used again)

- `EscrowProofs!RecordsCover`: `RecordCoversTaken`, and `EscrowProofs!PeriodsPaidOnce`:
  `PeriodPaidOnce`. The inductive invariant `SMInv` adds the types, the escrow's ledger and
  `ClaimsPast` (no claim lies in the future, so a claim counts whole periods).
- `EscrowProofs!SlashBooksAlwaysBalance`: `SlashBooksBalance`. The conservation over two
  contracts is not inductive: `SlashBooksInv` splits it into the escrow's books and
  `ManagerFlow`, what the manager took in against what it holds, paid and withdrew. The two
  meet in `BothConserve`.
- `EscrowProofs!LedgerSafeUnderManager` and `EscrowProofs!CustodyUnderManager`: the ledger
  and the refinement of `Custody` hold for the two contracts together.

**ReputationLedger, NodeRegistry, SLAContract**

- `ContractsProofs!LedgerInRange`: `TypeOK /\ LedgerConsistent`, where the latter is
  `ScoreInRange /\ ClocksOrdered`. The conjunction is inductive and none of its parts is:
  decay keeps a score in range only because the score was, and the number of periods is a
  natural only because the last update is not in the future. The product of score and
  factor is bounded in a lemma of its own.
- `ContractsProofs!DecayNeverOvershoots`: `Spec => DecayTowardsZero`, an action property:
  whenever time alone (`applyDecay`, `batchApplyDecay`) changes a score, it moves towards
  zero and does not pass it. From the same invariant.
- `ContractsProofs!RegistryAlwaysBalances`: `RegistryBalances`, inductive under the types:
  a call rewrites the record of one node and moves its ether (`OneRecord`), and no call takes
  a node off the list.
- `ContractsProofs!VerdictsFinal`: `SLASpec => VerdictsAreFinal`, an action property, from the
  invariant `SLAInv` (`SLATyped`): the types, `OnlyAgreedJobsFulfilled` (so that
  `recordSLA` overwrites no verdict) and `TerminationsAreBreaches` (so that what waits for
  approval is a breach whatever came after it). `approveTermination` has no `onlyOnce`: it
  may find the SLA fulfilled already, and then writes what is there.
- `ContractsProofs!ViewsAgree`: `DeadlineViewsAgree`, from the types in that invariant: the
  three views compare the same deadline with the same clock, each in its own way.

**Workload splitter, sandbox driver, node API, checkpoints**

- `BackendProofs!SplitCovers`: `SplitterSpec => []SplitIsPartition`, with `SplitterType`
  as strengthening: a reassignment must leave the offsets of a record alone. The offsets
  of neighbouring units meet because both are multiples of the same quotient, and the last
  ends at the total because quotient and remainder add up to it (`Division`, `Offsets`),
  for any number of nodes and bytes and any order the sort chose.
- `BackendProofs!DriverKeepsTrack`: `SandboxSpec => []RunawayHasCause`. The history
  `mishaps` is written where the runtime fails (a launch, a kill, a wait that ends before
  its container), not where the driver untracks, so the property relates two steps of one
  call with those of other callers between them. Its strengthenings: an id on its way from
  the runtime to the map is known to that caller alone (`FreshIsPrivate`), every id in the
  map is one somebody knows (`TrackedIsKnown`), so that the runtime gives it to nobody else
  while it is used, and a wait that is about to untrack has seen the end of its container or
  a failure (`WaitsAreOver`).
- `BackendProofs!RowsBacked`: `RowsAreBacked`. Neither inequality survives a step on its
  own, because a request records and sends in two steps with others in between. `Backed`
  counts the requests under way: what was recorded and is not answered yet lies between the
  acknowledged stake and the row, what was sent and is not recorded yet between the row and
  the escrow. A crash between the steps only makes the gaps larger.
- `BackendProofs!MapsAlwaysAgree`: `IndexesAgree`, and `BackendProofs!NewestIsResumed`:
  `ResumesFromNewest`, from one inductive invariant, `CheckpointInv`. That a ref names one
  checkpoint everywhere follows from `CopiesOfSaved`: tables, memories and results still to
  be merged hold copies of what was saved, whose refs are new. `MapsFit` relates list, pointer
  and storage of a job. `NumbersInCount` is what makes a counter local to an instance order
  the checkpoints of all: while every save of a job is made by an instance that lists them
  all, its numbers are at most the number of its checkpoints, so the next one exceeds them.
  A result read before another instance saved is older than what it meets (`QueryTable` and
  `MergeRows` are two steps): comparing numbers then is comparing ages, because numbers order
  checkpoints.

**Job API**

- `JobsProofs!JobsTypes`: `TypeOK`, with what each program counter implies of the request's
  job (`WriteFindsRecord`: a handler that reached its write holds a metering record).
- `JobsProofs!Durable`: `AcknowledgedIsDurable`. `StoredBeforeCached`: a request on its way
  to the cache has its row already, so no failure between the two loses a job.
- `JobsProofs!BilledOnce`: `BilledOncePerStart`, inductive under the types. An active record
  is a bill that may still be drawn, and drawing it is what ends its being active
  (`BilledAtMostStarted`); what the cached job says was billed is what the callers were
  answered (`TotalIsAnswered`). The arithmetic of one more bill is a lemma of its own
  (`UseAtRate`): a bill takes the units through `int64`, the counter wraps at 2^64
  (`Modulus`, any positive number), and both differ from the plain sum by a multiple of it.
- `JobsProofs!StaysCancelled`: `CancelledStaysCancelled`. Without a database (`NoTable`) an
  acknowledged cancellation was made on a cached job (`CancelledWasCached`), which was
  submitted before (`CachedWasAcked`), so that only a second job with the same id could
  overwrite it; an id not drawn again belongs to one submission (`DrawnOnce`).

**Monitors, alerter, telemetry**

- `BackendProofs!HeartbeatMonitorMisses`: `OfflineNeverRaised`, and
  `BackendProofs!StaleMeansSlow`: `StaleOnlyAfterSlowQuery`. The strengthening
  `ScannedWereFresh` says that a node still to be looked at was younger than the threshold
  when the query was made, so its age now is bounded by the time since: with a query that
  ends after `QueryTimeout` and thresholds that far apart, the branch for offline nodes is
  never taken, for any table.
- `BackendProofs!VerdictOfNewest`: `VRAMJudgesNewest`. The row kept after each row read is
  defined by recursion; that it exists and is never older than one read before are shown by
  smallest counterexamples, and that every row was read because an injective order of a
  finite set is onto (`LatestIsNewest`).
- `AlertingProofs!LimiterExactlyRemembers`: `LimiterRemembersSends`. That the bounded history
  lists every recent alert is not inductive, since the cut drops a record without looking at
  it. `InOrder` says why it may: what follows the last record of an alert that is still
  deduplicated was sent after it, and each only once, because deduplication allows no
  repetition within the window; so a record cut off was followed by `MaxHistory` different
  alerts. `Min` over the alerts of a rate key follows time and sends (`LimiterAges`,
  `LimiterExtended`).
- `AlertingProofs!OnlyAllowedSends`: `Spec => SendsAllowed`, an action property, from the same
  invariant: the guard reads the limiter's maps, the property speaks of what went out.
- `TelemetryProofs!ReportsStayBounded`: `ReportsBounded`. `DurationsMoveOn`: a duration is in
  the running task, the executor or one heartbeat, except between the two halves of the read
  and reset; what was reported has completed, so a new task cannot bring it back.
  `DeliveriesBounded`: the requests handled and under way of a heartbeat number at most one
  per attempt, this one included only if its body is spent; a heartbeat not sent yet has none.

**Web application** (`WebProofs`)

The hazard common to these areas is a callback that outlives what started it: an answer, a
timer or a write of a page that was left, a modal that was closed, a save that failed. Each
invariant says whom a pending callback belongs to. The theorems are for every number of
visits, calls, transactions, connections, lines and users.

- `SubmissionsTellTruth`: `SubmissionTellsTruth`. `AnsweredRuns`: a call that waits for the
  row has a job that runs, so the page it navigates to has both. `ConfirmWaits`: a
  confirmation page that says "submitting" has exactly one call of this visit, and one that
  does not has none, and then an error for whatever it started; `PastIsPast` keeps the
  calls of earlier visits apart.
- `StakeModalsFollow`: `ModalFollowsOneTransaction`. `OneAtATime` is about signatures asked by
  closed modals too: the wallet is asked one thing at a time, and nothing while the
  transaction whose hash the modal has is pending and its receipt is watched. `AwaitedHere`
  and `HashIsOwn`: what was not given up was asked by the mount on the screen, and so was the
  transaction whose hash the modal has. A query for a receipt that has
  failed once marks its transaction for good: that is the case the property leaves out, and
  in which the code lets a second one be sent (`OneTransactionAtATime` is refuted).
- `FormsAlwaysSettle`: `FormsSettle`. The pages are data, chains of awaits with their
  outcomes; `Behaves` is what the chain of each of them must satisfy, checked page by page,
  and `StaysBusy` what all satisfy but the page of a new proposal: a step that calls
  `router.push` does not lower the flag. `OneHandler` says that the page's one handler keeps
  the button away, `LeftOnce` that a page that called `router.push` keeps it away until the
  next page is there.
- `SavedMeansWritten`: `PreferencesSpec => SavedWasWritten`, an action property.
  `PassedIsWritten`: the stage of the save and the keys left tell which groups hold what it
  writes, except those that the write of an earlier save overtook.
- `ExecutionsWerePending`: `AdminPagesSpec => ExecutedWasPending`, an action property.
  `SelectionIsCurrent`: the copy of the event the panel decides on, while it says pending, is
  one of the rows, though the list is filtered and rewritten under it, and other events are
  chosen and overridden behind an open dialog.
- `SocketsStayClosed`: `DisconnectLasts`. The three clients need different facts: a timer of
  the hook runs only while no source is live, the SSE manager's only live source is its
  current one, the WebSocket manager's timer is never a second one.
- `FeedsAreAlwaysExact`: `FeedsAreExact`, from three invariants. `LogsInv`: a channel owes a
  line at most once, in order, and one it owes was shown at most once, by a query. The
  latter is what bounds the lines to two. `UpdatesInv`: each entry is the last one pushed of
  its node, through a list that is filtered and cut. `UnreadInv`: ids are unique, so a
  removal takes away one unread notification or none.
- `SessionAlwaysSettles`: `SessionSettles`. Redirections end because they are paid for: `Due`
  counts the pages the program may still open by itself from where it is, two where the hook
  and the layout each send a visitor to the login page, and `pushes + Due <= 2 * (changes +
  opens)` is kept by every step; a redirection lowers `Due` by the pages it opens, and only a
  change of the session or a choice of the user raises it. `LinkInv`: a nonce that can be
  used has not linked a wallet, and one that was accepted is deleted before the profile is
  written, so that a write that failed, or whose answer was lost, is not repeated with it.
- `PopupsAlwaysLeaveNothing`: `PopupsLeaveNothing`, inductive once the stack is a sequence of
  dialogs: an effect removes the listeners of the render before it and adds its own, so that
  their number follows whatever opens and closes.
- `ListsAlwaysShowRows`: `WebSpec => []ListsShowRows`, from the two areas it is about.
  `NodePagesAlwaysShowRows`: an answer lists every row once, in whatever order the database
  gives to equal scores (`NodeListInv`); the filters keep places apart (`FilterPlaces`), and
  sorting moves them (`SortingPermutes`, for the order of `KeysOrder`: by key, then by place
  in the answer). The timeline ends with the latest state because an update of the node that
  is still in the list is the last one pushed for it (`TimelineInv`).
  `ChartsAlwaysCountRows`: `IsChart` says what the grouping of the first n rows is (one entry
  for each of their days, series that add up to its rows), and each row of the loop keeps it
  (`CountedKeeps`); assignments come sorted by another column than the one they are grouped
  by, which only moves places (`StartedRows`).
- `AreasRunAlone`: the eleven areas side by side do, each, what their own specification
  allows: a step of `MCWeb` is one of an area and none of the others. It is what turns the
  theorems above, and what the run explores area by area, into statements about the
  application. `PartsRunAlone` and `ContractsRunAlone` say the same of the parts of the
  backend in `MCBackend` and of the contracts in `MCContracts`, with their invariants.

Before it was proved each inductive invariant was checked by TLC on the instance of its
run.

Only model-checked, and why:

- Liveness (`PulsesEnd`, `LastingConditionAnnounced`, `ShutdownEnds`): the provers treat
  neither fairness nor `ENABLED` here.
- `UptimeIsPercentage`, `OfflineIsReported` and the other statements the code does not keep
  (section 6): they are false.

## 6. Where the code departs from what the repository says

Two departures have a run of their own (section 3). The others were found in the same way:
the property is defined in the module, and TLC refutes it when it takes the place of the
properties in the module's configuration. Where no property is named, the module states
the condition under which the documented behaviour holds, or the departure is in plain
sight at the line.

| Module | Property | Where | What the code does, and what is said of it |
|---|---|---|---|
| Escrow | `MaxStakePerNode` | `Escrow.sol:443` | _validateStakeAmount compares msg.value with maximumStakeAmount, never the node's resulting stake; src/contracts/contracts/Escrow.sol:74 says "Maximum stake per node (upgradeable)". |
| Escrow | `ClaimAfterLockPeriod` | `Escrow.sol:314` | claimWithdrawal checks only the lock flag; stakeLockDuration is written and never read. src/contracts/contracts/Escrow.sol:313 says "Claim pending withdrawal after lock period" and line 298 "Request withdrawal (time-locked pending state)". |
| Escrow | `OnlyUnlockEndsLock` | `Escrow.sol:144` | stake() overwrites _stakes[msg.sender] with locked: false, so a top-up ends the lock of a running job; src/contracts/contracts/Escrow.sol:289 says "Unlock a node's stake (called when job completes)". |
| Escrow | `LockHoldsStake` | `Escrow.sol:300` | requestWithdrawal does not check the lock that withdraw (line 166) and claimWithdrawal (line 317) check; src/contracts/contracts/Escrow.sol:279 says "Lock a node's stake (called when node takes a job)". |
| Escrow | `NoLockOut` | `Escrow.sol:401` | renounceOwnership requires only _totalStaked == 0; amounts in pendingWithdrawals stay behind a pause or a lock nobody can lift any more. src/contracts/contracts/Escrow.sol:397-398 says "Can only be called once, and only if ownership hasn't been permanently locked. This prevents permanent loss of contract control". |
| SlashManager | `FeeSharesAsDocumented` | `SlashManager.sol:266` | VALIDATOR_REWARD_PERCENT = 5 and PROTOCOL_FEE_PERCENT = 25 are divided by 10000, so 0.05% and 0.25% are paid; src/contracts/contracts/SlashManager.sol:265 says "Validator reward (5% of slashed)" and line 271 "Protocol fee (2.5% of slashed)". |
| ReputationLedger | `DecayPenalizes` | `ReputationLedger.sol:203` | newScore = oldScore * factor / 10000 moves a negative score up towards zero, so inactivity improves the score of a slashed node; src/contracts/contracts/ReputationLedger.sol:40 says "Apply decay to a node's reputation (penalizes inactivity)". |
| ReputationLedger | `IdleNodeDecays` | `ReputationLedger.sol:197` | 10000 - (DECAY_RATE * periods) is checked uint256 arithmetic and reverts beyond 100 periods, so the clamp "if (decayFactor < 0) { decayFactor = 0; }" at src/contracts/contracts/ReputationLedger.sol:198, which is there for such nodes, is dead and the node (and any batchApplyDecay that holds it) can never be decayed again. |
| ReputationLedger | `DecayIsExponential` | `ReputationLedger.sol:197` | the factor is linear in the number of periods (10000 - 100 * periods); src/contracts/contracts/ReputationLedger.sol:196 says "Decay is exponential: score * (decayRate/10000)^periods". |
| Checkpoint |  | `checkpoint.go:136` | LoadFromDB keeps the checkpoint with the greatest Sequence, but sequences are counted per instance (line 73), so an older checkpoint of another instance can win over a newer one; src/backend/internal/orchestrator/checkpoint.go:202 says "GetLastCheckpoint retrieves the most recent checkpoint for a job." and line 29 promises "distributed access across multiple daemon instances". |
| Checkpoint |  | `checkpoint.go:73` | seq = len(byJobID)+1 counts what is in memory; after an insert that failed (its error is dropped at line 102) and a restart the count is below the sequences in the table and a number is given out again, while src/backend/internal/orchestrator/checkpoint.go:23 says "sequence number for ordering checkpoints". |
| Checkpoint |  | `checkpoint.go:269` | ClearCheckpoints deletes from memory only and no statement ever deletes from public.job_checkpoints, so LoadFromDB brings them back; src/backend/internal/orchestrator/checkpoint.go:254 says "ClearCheckpoints removes all checkpoints for a given job." |
| NodeRegistry | `MinimumUpheld` | `NodeRegistry.sol:273` | updateMinStake changes the minimum for nodes that are registered already and hold less; src/contracts/contracts/NodeRegistry.sol:44 says "Withdraw stake (must not go below minimum)". |
| NodeRegistry |  | `NodeRegistry.sol:253` | slashStake takes the amount off the node's stake and leaves it in the contract, which has no function that pays it out (slashedAway of the model only grows); its event says the old status was Online whatever it was. The functions that authorize callers (lines 261 and 267) and set the minimum (line 273) are open to every caller. |
| Splitter | `DedicatedIsExclusive` | `splitter.go:238` | AssignWorkUnit checks only that the node is in the list, so a unit of a dedicated job goes to any node; src/backend/internal/orchestrator/splitter.go:98 says "If job.AssignedNodes is non-empty (enterprise dedicated): route exclusively to those nodes". |
| Splitter | `DistributionAddsUp` | `splitter.go:299` | the share of a node is rounded down, and then up to one: two nodes of equal room get one unit each of three, three nodes get one each of one; src/backend/internal/orchestrator/splitter.go:272 says "calculates how many work units each node should handle". |
| Splitter | `PoolAsDeclared` | `splitter.go:72` | GetServerlessNodes takes nodes whose IsReservedPool is false and dedicated jobs those where it is true; the declaration at src/backend/internal/orchestrator/splitter.go:35 says "true = serverless multi-tenant, false = dedicated enterprise". |
| Sandbox | `RunningAreTracked` | `sandbox.go:154` | a container is dropped from the map before it is killed, and when a wait ends for its context; if the kill fails, or nobody kills it, it runs untracked. src/backend/internal/orchestrator/sandbox.go:85 says "activeContainers tracks containers that are currently running". |
| Sandbox | `TrackedAreRunning` | `sandbox.go:164` | nothing removes a container that has exited unless somebody waits for it; src/backend/internal/orchestrator/sandbox.go:160 says "ActiveContainerCount returns the number of currently running containers". |
| NodeApi | `StakedIsRecorded` | `node.go:374` | an UPDATE that finds no row is no error, and a node nobody registered is answered "successfully staked" (src/backend/internal/api/handlers/node.go:412) after its ether was sent. |
| NodeApi | `RefusedLeavesNothing` | `node.go:381` | StakeNode stakes on the chain before it updates the row; when the update fails the answer is "failed to update node" (src/backend/internal/api/handlers/node.go:381), the stake stays on the chain, and a client that tries again stakes twice. |
| NodeApi | `RegisteredKeepsStake` | `node.go:160` | registering again replaces the record in the handler's map with the stake of the new request, while the table keeps the one it has (src/backend/internal/api/handlers/node.go:148, ON CONFLICT DO UPDATE of the status alone); and as the INSERT at line 146 names no stake, one that came with a registration never reaches the row that GetEligibleNodes reads. |
| NodeApi |  | `node.go:362` | main.go:125 passes a *ContractClient that is nil when the chain is not reachable; in the interface it is not nil, the test here lets it through, and Stake panics on it, where cmd/server/main.go:61 says "continuing without blockchain". With a client, Stake sets no signer (client.go:86), for which the library refuses every transaction. |
| NodeApi |  | `node.go:375` | stake_amount is TEXT (src/supabase/migrations/004_nodes_operational_columns.sql:7), to which PostgreSQL adds no number. |
| SLAContract | `FulfilledMeansMet` | `SLAContract.sol:150` | fulfillSLA(false) leaves fulfilled false, so onlyOnce lets a second fulfillSLA(true) through (and approveTermination sets fulfilled on a terminated SLA) while breachedSLAs stays true; src/contracts/contracts/SLAContract.sol:19 says "bool fulfilled; // true if SLA was met". |
| SLAContract | `TimestampsIncrease` | `SLAContract.sol:493` | submitFinalMetrics pushes without _validateCheckpointTimestamps; two entries of one block make every later recordUptimeCheck and submitCheckpoint of the job revert, since the whole history is validated; src/contracts/contracts/SLAContract.sol:424 says "validate checkpoint timestamps are monotonically increasing". |
| SLAContract | `AverageCountsDowntime` | `SLAContract.sol:408` | checkpoints with uptime 0 are skipped, so a provider that was down for a whole check is averaged as if the check had not happened; src/contracts/contracts/SLAContract.sol:401 says "@return Average uptime percentage * 100". |
| SLAContract | `UptimeIsPercentage` | `SLAContract.sol:495` | submitFinalMetrics does not check finalUptime against 10000 as every other recorder does ("Invalid uptime", src/contracts/contracts/SLAContract.sol:251), so the score that line 401 calls "Average uptime percentage * 100" can exceed 10000. |
| SLAContract | `RatingAsDocumented` | `SLAContract.sol:522` | the rating is capped at 10000; src/contracts/contracts/SLAContract.sol:514 says "@return Rating 0-1000". |
| Telemetry | `CompletedIsReported` | `pulse.go:135` | GetTotalProcessingDuration and Reset are two critical sections; a duration recorded between them is cleared without being reported, while src/telemetry/src/main.go:89 says "the daemon tracks its inner execution time and appends that to the next heartbeat". |
| Telemetry | `StartedIsTracked` | `main.go:109` | the executor has one slot: a task started while another runs replaces it, and the duration of the first is never recorded (CompleteTask then ends the second), while src/telemetry/src/main.go:88 says "when the Go backend proxies a micro-task to this node, the daemon tracks its inner execution time". |
| Telemetry | `CancelStops` | `pulse.go:117` | sendPulse calls the collectors in the loop's goroutine, and the first runs nvidia-smi without context or timeout (src/telemetry/src/collector/vram.go:34): while it hangs the loop sees no cancellation; src/telemetry/src/main.go:33 says "Create context that cancels on SIGINT/SIGTERM". |
| Telemetry | `DetectorSeesPulse` | `pulse.go:124` | sendPulse stops at the first collector that succeeds and the monitoring collector is the last of three, so the failure detector is not updated by a normal pulse; src/telemetry/src/main.go:66 says "Wrap collector to update failure detector". |
| Alerting | `EachNodeAnnounced` | `alerter.go:74` | all nodes share one alert of a metric and severity in ten seconds, and an alert is deduplicated for five minutes: of more than some thirty unwell nodes, judged in the same order every time, the first take every turn and the last is never announced; the limit is meant "per metric" (src/backend/internal/alert/alerter.go:73). |
| Alerting | `ShutdownAlwaysEnds` | `alerter.go:92` | notifiers are called with the mutex held, through HTTP clients without timeout (src/backend/internal/alert/notifier/notifier.go:78, 112, 183): one that never answers blocks every other monitor with an alert to route, the alert list and monitorWg.Wait, after src/backend/cmd/daemon/main.go:41 has logged "shutdown signal received". |
| Alerting | `NoAlertInMaintenance` | `main.go:84` | the daemon creates the window manager and serves its API, but never calls SetMaintenanceManager, so RouteAlert's suppression (src/backend/internal/alert/alerter.go:82) never applies, while src/TENTRIST_1000_TASKS_LEDGER.md:729 says "Add alert suppression during maintenance windows" is done. |
| Alerting |  | `alerter.go:76` | the interval is time.Minute/6, ten seconds, so six alerts a minute pass; the comment on the same line says "10 per minute = 1 per 6 seconds" (src/backend/internal/alert/alerter.go:76) and line 73 "max 10 per minute per metric". |
| Monitors | `UptimeIsPercentage` | `monitor.go:385` | COUNT(*) over the rows counts a heartbeat as often as its retries were stored (and one made more often than every 30 seconds each time), so the share exceeds 100 and hides outages; the comment at src/backend/internal/monitor/monitor.go:357 says "Evaluate calculates 24h uptime percentages". |
| Jobs |  | `job.go:559` | when the UPDATE affects a row the handler answers without touching the cached job, which stays pending or running and is what GetJob falls back to when its query fails; the answer at src/backend/internal/api/handlers/job.go:573 says "job has been cancelled successfully". |
| Jobs |  | `job.go:222` | the id is the low byte of the clock read 32 times and the map is written without a test, so without a database (or for a serverless job, whose insert error is only logged) a second client's job takes the place of the first; the comment at src/backend/internal/api/handlers/job.go:219 says "Generate a new job ID". |
| Jobs |  | `job.go:731` | the rate is taken from the cached job only; after a restart a job that is still in public.jobs is metered and its units are answered with a bill of 0; the test at src/backend/internal/api/handlers/job_test.go:539 says "expected non-zero billing amount". |
| Jobs | `BilledIsUsageAtRate` | `job.go:736` | the units, a uint64 of the request, are multiplied as int64(req.Units): 2^63 units or more make the bill and the total negative, and the uint64 counter wraps (:745), so the total is not the counted units at the rate; the comment at src/backend/internal/api/handlers/job.go:734 says "Billed = rate per unit * units". |
| JobPages | `CancelReachesJob` | `jobs/[id]/cancel/page.tsx:27` | the page posts the uuid of the row and the backend looks a job up by its job_id_256 (job.go:559): no job is cancelled from the web, although the page promises to "stop further charges". |
| JobPages | `VerdictsAgree` | `jobs/[id]/sla/page.tsx:47` | a missing measurement is 0 % for the SLA page and no breach for the receipt (receipt/page.tsx:39): the two give different verdicts, and credits, on one job. |
| JobPages |  | `jobs/new/page.tsx:300` | both submissions push /dashboard/jobs/..., a path no page has: the job is running and the user sees "not found"; the first form only logs an error (line 302). |
| StakePages | `OneTransactionAtATime` | `wallet/page.tsx:105` | isError of the receipt is not read: when its query fails while the transaction is pending, nothing says so, the button is enabled and a second transaction goes out; the button at src/apps/web/src/app/(dashboard)/wallet/page.tsx:260 is "disabled={!amount || !!errMsg || isSigning || isConfirming}". |
| StakePages | `SuccessWasMined` | `wallet/page.tsx:138` | a transaction cancelled in the wallet is answered with the receipt of the one that took its nonce, and the view "staked successfully" is shown for a stake that was never made. |
| StakePages | `SuccessShowsAmount` | `wallet/page.tsx:138` | the view of success shows the field's amount, which can be edited while the transaction is on its way. |
| StakePages |  | `wallet/page.tsx:433` | the shortcuts round to four decimals, so MAX may exceed the balance and MIN KEEP may leave less than the minimum, which the form then refuses. |
| StakePages |  | `wallet/page.tsx:350` | the dialog speaks of a cooldown with locked stake; the function it calls pays at once (Escrow.sol:163). |
| StakePages |  | `stake-modals.tsx:102` | these modals never keep a hash, so they never confirm; a reverted transaction is shown by none of the modals, and an earlier error stays when one is reopened. |
| FormPages | `FormsRedirectOnce` | `admin/governance/new/page.tsx:43` | isSubmitting is lowered before router.push, which takes time: until the list is there the button is enabled, and a second click submits the proposal, and pushes, again. |
| FormPages |  | `node/nodes/[id]/stake/deposit/page.tsx:29` | a redirect waits 1.5 s after the success view and is not cancelled: it moves a user who has gone elsewhere. |
| FormPages |  | `node/nodes/[id]/stake/withdraw/page.tsx:24` | the button is disabled above 11.5 ETH, the handler does not check it. |
| FormPages |  | `settings/team/page.tsx:107` | "Cancel" hides the form while the invitation it started goes on and adds the member. |
| FormPages |  | `nodes/register/page.tsx:237` | "Registration Submitted" follows a timer of two seconds: nothing is sent. |
| Preferences | `SavedIsStored` | `settings/page.tsx:234` | `Promise.all` rejects at the first refusal and the other upserts go on: one that a failed save left behind may be written after a later save has said "Saved". |
| Preferences |  | `settings/page.tsx:206` | saving before the load has answered writes the defaults over what was stored, and a late load replaces what has been typed. |
| Preferences |  | `settings/page.tsx:229` | without a user nothing is written and "Saved" is shown all the same; a failed save shows nothing, and the label of an earlier one stays. |
| Preferences |  | `settings/page.tsx:74` | "Account deleted" is shown although neither the answer of the deletion nor the error of signing out is looked at. |
| AdminPages | `SlashDecisionFinal` | `admin/slashing/page.tsx:160` | overrideSlash does not look at the status of the event, and the dialogs trap no focus: an event chosen from the keyboard behind the open dialog is overridden even when it was executed. |
| AdminPages |  | `admin/users/page.tsx:59` | rows as the migrations declare them lack columns most admin pages dereference, or have a status their lookup tables lack: those renders throw (the rows "schema" of the model; TableRows compares them with what the pages declare). |
| AdminPages |  | `admin/slashing/page.tsx:174` | a decision changes the list in the browser and is sent nowhere; reloading the page brings the event back as pending. |
| AdminPages |  | `supabase-admin.ts:8` | the client is made with the service-role key, which is undefined in a browser. |
| AdminPages |  | `admin/governance/[id]/page.tsx:87` | handleVote has no button that calls it; a contract's link lower-cases a name the page then looks up as it is. |
| Sockets | `OneWebSocket` | `websocket.ts:29` | connect() while a socket is still connecting opens another one; the one left behind still delivers, and its close changes the state of the new one. |
| Sockets | `SubscribersReached` | `websocket.ts:218` | listeners for named events are added to the EventSource of the moment: a reconnect makes a new one without them, and off() leaves them on the old one. |
| Sockets |  | `websocket.ts:142` | getWebSocket keeps its first client and ignores the url of a later call. |
| Feeds | `LogsComplete` | `use-jobs.ts:176` | a query's answer replaces the lines the channel has appended meanwhile, and lines written between the query and the joining of the channel come by neither. |
| Feeds | `ToastsShown` | `use-toast.ts:24` | toast.error adds to the list of hooks/use-toast.ts, which no component renders; the container renders that of components/ui/toast.tsx. |
| Feeds | `SidebarAgrees` | `ui-store.ts:98` | only sidebarView is stored: after a reload sidebarCollapsed is false beside a collapsed view. |
| Feeds | `EmptyMeansNoLogs` | `jobs/[id]/logs/page.tsx:390` | a filter that matches no line is answered with "No logs yet"; "Clear logs" has an empty handler (line 226). |
| Session | `SignedOutReachesLogin` | `layout.tsx:61` | a useEffect inside a condition: when the session ends while the layout is mounted, React meets another number of hooks and throws instead of redirecting. |
| Session | `UserTypeIsOwn` | `use-auth.ts:187` | the persisted userType is never cleared: after a change of user it is the previous one's until an OAuth callback sets it. |
| Session | `LeftMeansCompleted` | `onboarding/page.tsx:132` | handleComplete does not look at the error of its update before it moves on to the dashboard. |
| Session | `ProviderHasNode` | `onboarding/page.tsx:121` | the shell's button lets a provider leave the step without a node registered. |
| Session |  | `wallet_link.go:131` | hex.DecodeString refuses the "0x" every wallet writes before its signature, and crypto.SigToPub its last byte of 27 or 28: the card links no wallet, and the onboarding for nodes never passes its second step; nonceStore is a map without a lock, so requests handled at the same instant may crash the server or use a nonce twice. |
| Session |  | `(auth)/signup/page.tsx:74` | the signup page calls login: no account is created; an error signInWithOAuth returns leaves the buttons disabled (line 78). |
| Session |  | `use-auth.ts:98` | the returnUrl given to the login page is read by nobody; loginWithWallet sends walletAddress where the backend wants user_id. |
| Session |  | `sidebar.tsx:120` | logout pushes the home page and the handler that awaits it pushes it again: two entries of the history. |
| NodePages | `SlotsAreOwn` | `nodes/[id]/page.tsx:580` | the effect runs for every pushed update and appends a slot for the entry it finds of this node: an update of another node adds a slot too, although the comment says "Apply SSE updates to heartbeat timeline". |
| NodePages | `BusyIsNotMissed` | `nodes/[id]/page.tsx:592` | a node pushed as busy is drawn as a missed heartbeat; only online and stale are told from it. |
| NodePages | `StatsAgree` | `use-nodes.ts:113` | the ribbon and the rows below it are two queries with an interval each, and disagree in between. |
| NodePages | `BestTierFirst` | `nodes/page.tsx:397` | tiers are compared as strings: descending by tier puts silver above gold. |
| NodePages | `ToggleShowsCards` | `nodes/page.tsx:515` | on a wide screen the view stays a table whatever the "View toggle - always visible" (line 495) says. |
| NodePages | `EmptyMeansNoNodes` | `nodes/page.tsx:293` | a filter or search that matches nothing is answered with "No nodes registered". |
| NodePages |  | `nodes/page.tsx:323` | the filters stale and slashed match no row: the table's CHECK admits only online, offline, busy and maintenance (001_initial_schema.sql:54-90); VRAM in MB is shown as GB, seconds of uptime as a percentage; a row is stale after 60 s in the table and by its status on a card; tasks and slashing events are random. |
| Widgets | `TooltipFollowsTrigger` | `tooltip.tsx:38` | a pointer and the focus each start a timer and hideTooltip clears the last one only: the tooltip of the other appears after both have left, and stays. |
| Widgets | `NoScrollBehindDialog` | `dialog.tsx:43` | closing one of two open dialogs restores the scrolling of the page behind the other; the comment says "Prevent body scroll when open". |
| Widgets | `ActivePanelShown` | `tabs.tsx:188` | TabsList hands its own value to every trigger, so a click selects the tab that is selected; and a panel compares with the first data-state of the document before it exists: no panel is ever shown (admin/contracts/[name]). |
| Widgets | `DrawerClosesOnLink` | `mobile-nav.tsx:109` | every link of the drawer closes it but the logo above it. |
| Widgets |  | `dropdown-menu.tsx:131` | the content of a menu is rendered whether it is open or not; Escape closes every open dialog at once; a disabled item of a select closes the list. |
| Analytics | `RewardsCounted` | `use-analytics.ts:115` | rewards and slashes are looked for under the types reward and slashing, which the table's CHECK does not admit (003_real_data_wiring.sql:12-19 has reward_payment and slashing_credit): "Total Rewards" and "Total Slashed" are always 0, and only what was paid for jobs counts as revenue. |
| Analytics | `FiguresAreOwn` | `use-analytics.ts:251` | no key of these queries names the user and signing out clears no cache: who signs in within staleTime is shown the figures of the user before. |
| Analytics | `DaysInOrder` | `use-analytics.ts:191` | assignments come by started_at, those not started last, and are grouped by the job's day then: a chart may show an earlier day after a later one. |
| Analytics | `DowntimeMeansFailure` | `use-analytics.ts:172` | "uptime" is the share of a day's jobs that are completed: a job still running is downtime, and the page says "At Risk". |
| Analytics |  | `analytics/page.tsx:127` | the average weighs every day alike, however many jobs it had; a node without heartbeats has an uptime of 99.5 (use-analytics.ts:126); overview is fetched and not shown. |

## 7. What is not modelled

`PROJECT.json` lists every component. Left out for good: the generated contract bindings,
the Prometheus collectors, the HTTP clients, and the GPU and latency probes, which keep no
state of their own; signatures, which are external cryptography; deployment scripts;
`SlashManagerAdvanced`, whose setters anyone may call and which nothing calls; the node's
failure detector, whose verdicts nothing asks for (its clock is `lastPulse` of
`Telemetry`); static and marketing pages. Of the modelled components: events, log lines
and messages; the penalty amounts `SLAContract` only emits; resource limits of containers;
layout and wording; hooks that fetch once and keep nothing; the time between a redirection
of `Session` and its page (`FormPages` has it, where a button stays meanwhile).

## 8. Plan

Done: the contracts that hold ether, scores or terms; the stateful parts of the backend;
the node's telemetry; the pages, clients and stores of the web applications; custody as
the abstract specification of the escrow, checked and proved; theorems for every invariant
and action property of the passing runs, and for the modules a run explores side by side
that each behaves as it does alone. Next, in this order:

1. At-least-once delivery of heartbeats as an abstract specification that `Telemetry`
   implements; a durable log of checkpoints that `Checkpoint` implements under the
   condition of `ResumesFromNewest`.
2. The composition of `JobPages` with `Jobs`, which today meet as services that answer
   anything the other side may answer.
3. A module of its own for the nonces of wallet linking: `Session` has one request for a
   verification at a time, and two at once meet in a map without a lock.
