# Cowd: models of the execution core and the session path

Cowd is a runtime for agent work. A request becomes an *execution graph*: nodes
(model calls, tools, approvals, verification, synthesis) joined by dependencies.
The runtime drives each graph with one driver, runs its nodes as concurrent
tasks, lets users pause, cancel, resume and answer while it runs, stores every
change as an event, and picks the graph up again after a restart. Requests come
in as *inputs* of a session, which several gateway processes serve: each input
is claimed, executed as a turn, and its answer is delivered to the session's
transcript. This directory holds TLA+ models of the parts that have to get this
right, the TLC configurations that check them, and proofs of their main
properties for TLAPS.

## Inventory

All paths are below `src/crates/`; `graph/` is
`runtime/src/execution_core/graph/`.

| Component | State | Operations | What is hard | What makes it correct |
|---|---|---|---|---|
| Scope lock manager (`graph/resources/scope_lock.rs`) | per process: FIFO of pending calls, active leases; lock files shared by processes | `acquire`, `release`, drop of a waiter | queue and files are two tiers with different grain; files are taken one by one; time-outs, I/O errors, process death | conflicting leases exclude each other in and across processes; nothing leaks; FIFO; no deadlock over files |
| Graph contract (`harness-contract/src/execution_graph/`) | node statuses | the transition table, dependency policies | counting with failed, missing and unverified predecessors | terminal statuses are final; a node runs only after its policy is met |
| Graph runner (`graph/runner.rs`) | active map, coordination mutex, command intents | pump snapshot, wave admission, node execution, terminal batches, commands | tasks, driver and users interleave around two critical sections and an intent gate; late reports; commands that fail half way | moves statuses along the contract only; effects at most once; every running node has an owner |
| Supervisor (`runtime/src/execution_core/supervisor.rs`) | wake requests, one driver per graph, spawned tasks | dispatch, completion pump, command wake-up | wake-up against a driver that is settling; panics and aborts | every graph comes to rest; no ready node is stranded |
| Commit service (`graph/commit_service.rs`, `commit_pipeline.rs`) | graph revisions, effect streams (intent, receipt) | start waves, terminal waves, commands, effect inspection | crash between intent, execution, receipt and graph commit | one revision per commit; an effect is never repeated; a replay confirms |
| Start-up recovery (`graph/recovery.rs`, `runtime/src/execution_core/lifecycle_services.rs`) | none of its own | `recover`, wake of graphs that can advance | nodes left `Running` by a dead process | none is left behind, the graph is driven again |
| Event store, hot state (`runtime/src/recovery`, `runtime-postgres`, `execution_core/hot_state`) | streams with revisions, idempotency keys, in-memory images | optimistic append, cross-stream transactions, write-through | conflicting appends, unknown outcome of a commit, a stale image | append is atomic and idempotent; the image never runs ahead |
| Resource manager (`graph/resources/manager.rs`) | quotas, fairness counters, adaptive limits | admit, release, adapt | limits that change under load | no over-commit, no starvation |
| Approval queue (`runtime/src/approval`) | pending approvals, expiry | enqueue, decide, expire | a decision against its expiry | one decision, delivered once |
| Session ingress (`session-postgres/src/ingress.rs`, `terminal.rs`) | rows of inputs with status, claim, decision and target turn; generation and admission of the session; transcript | append, claim, renew, run, attach, acknowledge, fail, requeue, retry, cancel, reclassify, new generation, fenced transcript commit | claims lapse while their holder is at work; supplements race the commit of their turn; commits are repeated | one input in work; an answer is entered once, under the claim that produced it; an input ends once |
| Gateway session path (`gateway/src/runtime/session_runtime_bridge.rs`, `runtime_service.rs`, `session_materializer.rs`, `services/session_service/mod.rs`) | ingress tasks, active turn controls, session hosts, delivery workers | admit, claim, route, execute, adopt, wait, settle, fail, roll forward, deliver | a turn outlives its task; a wait times out while its answer is delivered; processes die between two stores | rows, terminals and transcript agree; everything is served in the end |
| Hot input stream, execution fence (`runtime/src/session`) | records of a session in memory, cursors | project, consume at a checkpoint | projection out of order, restart | what counts as applied was read |
| Runtime session outbox (`runtime-postgres/src/event_store.rs`) | terminals with claim and fence | insert with the graph, claim, adopt, acknowledge, fail, retry | adoption against a delivery under way | a terminal moves to later claims only; materialized is final |
| Session lease, presence (`session/src/lease.rs`, `lifecycle.rs`) | owner, epoch, expiry | acquire, renew, release, take over | clocks, late renewals | one owner; a stale owner cannot write |
| Surface message ledger (`surface`, `surface-postgres`) | messages and their delivery states | record, claim, deliver | retries, duplicate keys | exactly one effective delivery |
| Mission schedule, task aggregate, goal supervisor | status machines over the event store | tick, start, finish, retry | missed and repeated ticks | legal transitions, one run per tick |
| Managed workers, app host | process generations, fences | start, fence, restart | answers of an old generation | only the newest generation is heard |
| Conversation engine, providers, tools, sandbox, policy, memory, gateway, CLI, TUI, plugins | mostly text and I/O | calls to external services | formats | out of a model checker's reach |

`PROJECT.json` lists all of them with their status, the hazards each exposes at
the line where it bites, and the source lines every definition stands for.

## How the parts interact

The supervisor has a queue of wake requests. Its dispatch loop starts a driver
for a graph that has none. The driver runs the *completion pump*: take a
snapshot (advance dependencies, cancel the optional tail of a decided quorum,
advance again), admit a wave of ready nodes, spawn a task for each, then wait
for a task to end or for a notification of durable progress. Tasks execute,
meet in a batch for their terminal commit, and advance dependencies themselves.
Users send commands through the supervisor. `Pause`, `Cancel` and the pump's own
`CancelNode` publish an *intent*, check the revision in a first critical section,
cancel executors outside of any, and check the revision again before they apply.
Everybody else is expected to stand aside while an intent is published. Each
node takes scope locks and other resources before it starts, and keeps them in
its entry of the active map until its outcome is committed.

An input reaches the session through `admit_input`: it is classified by whether
the process has an active turn, appended as a row, projected into the hot stream
and, if it supplements the active turn, attached to it. An ingress worker in
each process claims the first row of the session and runs a task for the claim.
The task sends a supplement to its turn, or takes the session's host and starts
a turn, which from then on runs by itself. The turn reads supplements at its
checkpoints, fences its answer with the claim, and commits it with its graph as
a *terminal* in the Runtime's outbox. A delivery worker claims the terminal,
commits the transcript together with the end of the row and of the supplements
up to the turn's cursor, and acknowledges the terminal to the Runtime, for which
the task waits. A later claim that finds a terminal adopts it. The two stores
have no common transaction.

## Modules

* **`ScopeLock`** models `scope_lock.rs`. `pending`, `active` and `mutex` are
  the manager of each process, `flocks` the advisory lock files, `pc` and `req`
  the calls. `Call` registers; `BeginTry` is the check of the wait loop that
  passes; `TryLockFile`, `Unlock`, `RolledBack` and `Grant` are one attempt at
  the files, one file at a time, inside the process's mutex; `LockIoError`,
  `TimeOut` and `DropRegistration` are the ways to give up; `Release` and
  `Released` follow `release_inner`, which leaves the active map before it
  unlocks the files. `Crash` is external: the operating system closes the
  files. Scopes keep their structure (workspace, repository, path, resource),
  and the derivation of lock files from scopes is the code's. The hash in a
  lock file's name is taken as injective (a collision would only lock more).
* **`NodeLifecycle`** is the abstract specification: what a graph promises of
  its nodes' statuses, whoever changes them. `Work` is any commit along the
  transition table in which planned nodes move by their predecessors only;
  `Resolve` and `Recovery` are the two steps the code makes outside the table.
  `Released` and `Hopeless` state the policies declaratively. The runner's
  counting is in `ExecutionGraph` and is compared with them by the refinement.
* **`ExecutionGraph`** models one graph end to end. Durable: `status`,
  `attempts`, `effect` (the node's effect stream). In memory: the driver
  (`pump`, `snap`, `tail`, `victim`, `verdict`), one task per node (`task`,
  `outcome`), the active map (`active`), the coordination mutex (`coord`), the
  published command (`cmd`), and whether the revision an issuer expects is still
  current (`fresh`, which replaces the revision counter: every commit makes both
  issuers stale). `runs` is history: how often the executor was polled under
  the node's effect key. Actions carry the names of the functions they model.
  Awaits are program-counter values, so whatever the code reads before an
  await and uses after it is old in the model too: the wave that has looked at
  the intent, the pump that has loaded a revision, the task that found its entry.
* **`SessionTranscript`** is the abstract specification of a session: an input
  is accepted into a generation and is answered, applied to another's turn, or
  closed, once and for good; the transcript is the sequence of answers.
* **`SessionInbox`** models the rows of one session and every transaction on
  them (`session-postgres`). `row` has the status, the order (`seq`), the
  generation, decision and target, and the claim: `attempts` is the number of
  claims, which stands for the claim's token and fence epoch, since each claim
  adds one; `live` is whether the deadline is ahead. `Expire` is the passing of
  a deadline, and a renewal is a step in which it does not pass. Its refinement
  of `SessionTranscript` is `KeepsPromise`. `InboxSpec` allows any transaction
  at any time, from anybody; each is one step, the claim too.
* **`SessionOverlap`** is the inbox with the claim as the database executes it:
  `ClaimScan` is the snapshot of the statement, with its ranking and its check
  that nothing is held, `ClaimScanned` the lock of the row it found and its
  update, and any other transaction may commit in between.
* **`SessionTurn`** composes the inbox with the gateway processes: `admission`
  (how far `admit_input` has come), `tasks` (one for each claim, with the place
  it has reached), `turn` (what the host of each process executes), `stream`
  (the hot input stream: the admitted cursor, and for each input whether its
  record is hot, read or no longer counted, and for which turn), `outbox` (the
  terminal of each input), `delivery`, and `client` (a `cancel_input` or
  `reclassify_input` under way: it reads the active turn, writes the row, then
  tells the stream, in separate steps). A client may make any row a supplement
  of the active turn, one that came before the turn's own row too.
  Each action that writes to the session uses a transaction of `SessionInbox`;
  the reads and the writes of a handler that are separate transactions in the
  code are separate actions. Statuses `accepted` and `classified` exist only
  inside the append's transaction, and `retry_scheduled` is `pending` with a
  later time, so the model has neither. Faults and client commands are
  *mishaps*: `Mishaps` says which may happen, `MaxMishaps` how many.
* **`MCScopeLock`, `MCNodeLifecycle`, `MCExecutionGraph`, `MCSessionOverlap`,
  `MCSessionTurn`** define small instances. **`ScopeLockProofs`, `NodeLifecycleProofs`,
  `ExecutionGraphProofs`, `GraphOwnershipProofs`, `SessionTranscriptProofs`,
  `SessionInboxProofs`, `SessionTurnProofs`, `SessionSettlementProofs`** hold
  the theorems.

Definitions commented as *Variant* are wrong versions of the definition after
them. `PROJECT.json` ("mutants") names, for each property, one whose use TLC
refutes. No specification uses them.

## Runs

| Run | Shows |
|---|---|
| `scope_lock` | Two processes, three callers, a shared lock root and all failures: what queues, active maps and files hold is of the calls of their own (`TypeOK`); conflicting leases are never held together (`MutualExclusion`); a call that is over has left no queue entry, lease, file or mutex behind (`NothingLeaks`); callers that take several files in different processes do not refuse each other for ever (`SomeoneProceeds`), which they do if files are taken out of order. |
| `scope_lock_fifo` | In one process: no overtaking of conflicting calls, no starvation, whatever later callers do. |
| `node_lifecycle` | The abstract specification keeps its own promises (`DependenciesHold`, `TerminalStable`), on a graph with quorums of one and zero, an `Any`, and a predecessor that lacks evidence. |
| `graph_faults` | Any answer of an executor (illegal ones too), panics, deadlines, failing resources, starts, hooks and cancellations, executors missing at recovery, an optional tail, a pause and a crash anywhere: refinement, types, effects at most once, and every node the pump cancels is optional work of a decided group (`TailAfterQuorum`). |
| `graph_commands` | Three commands of all six kinds, a crash, failing resources and hooks: late reports, replayed receipts and nodes started on their own reopen nothing, repeat nothing, and a completed node has a receipt that says so (`ReceiptConfirms`). |
| `graph_wakeups` | Approvals and external results at any moment, two nodes that exclude each other, failures and a crash. Exclusion of nodes while they execute, an owner for every running node and every entry of the active map, a driver that never runs out of work early; and liveness: the graph comes to rest, ready nodes are served, finally nodes close. |
| `session_turn` | Two processes, two inputs, and one mishap of any kind at any point. `OneClaim`: one input in work at a time, as long as no claim overlaps another transaction. `AnswerIsCompletion`, `MaterializedIsHeld`: row, terminal and transcript agree, although they are in two stores and a turn can outlive its claim. `NoneLeftAttached`, `HeardIsSettled`: supplements that race the answer of their turn; the step that enters the answer ends what came after the turn's own input and was read by it. `AdoptionNeverRegresses`: terminals only move to later claims. `KeepsPromise`: refinement of `SessionTranscript`. |
| `session_live` | Liveness with one mishap: inputs leave the queue (`InputsAreServed`), terminals are materialized or blocked (`TerminalsAreDelivered`), and a written transcript is acknowledged also when the delivery died in between (`HeldIsMaterialized`). |
| `graph_denied`, `graph_panic`, `session_unread`, `session_overlap` | What the code does against its own documentation: see Findings. |

### Bounds

Three callers in two processes give every pair: same process, different
process, and a third that holds what both want. The request sets have the
workspace in both modes, writes of a path and of its descendant, a read of a
sibling of that descendant, a resource in both modes, also in one call, and
calls for two scopes. A repository root is in no run; the theorems cover it. Graphs have two or
three nodes: a join with `Finally` or a quorum of one, or a chain, with an
`Any`, in the run with many commands. `Any` and a quorum of zero are together
in `node_lifecycle`, which has four nodes. Three nodes are enough for
a batch of reports in which one is stale, for two nodes that exclude each
other, and for a successor of both. `MaxCommands` and `MaxCrashes` bound what
has no end in the code. Three commands cover pause, resume and one more while a
task of the first wave is still alive. `MaxCrashes` is one: a crash falls on any
state before the recovery, and what recovery starts is followed to its end, but
does not crash again. `MaxActive` is below the number of nodes in `graph_faults`
(two slots for three nodes), where waves are cut; in the other runs there are as
many slots as nodes.

The session runs have two inputs, which gives a primary with its supplement and
two primaries, and three for the two supplements of `session_unread`. Two
processes give a turn that goes on while another process has the next claim.
`MaxAttempts` is 8 in the code; with 2 a failure is retried once and then final.
`MaxClaims` bounds the claims of a row, which the code does not: a requeue may
always be claimed again. In `session_live` it is high enough that no behaviour
ends at the bound, otherwise `InputsAreServed` would fail. One mishap is enough
for every pair of a fault and a step; the proofs cover any number. Content that
cannot be read is not counted, since it is so from the start, and an operator's
retry is: with one mishap a blocked row can be retried. A host that
is busy is claimed for only while the number of attempts matters. `session_live`
has one process, so that what a crash leaves is taken by the restarted one, and
no cancellation, to stay small: what it does to the other input, a turn that goes
on without its row, is what a stalled claim does.

The proofs have none of these bounds.

Deadlock is not checked in the graph and session runs: a graph at rest has no
step left unless a user sends a command, and a session none when its inputs are
answered.

### Fairness

`ScopeLock`: weak fairness of the steps inside the critical section and of a
release in progress, which nothing can disable; strong fairness of the steps
that need the process's mutex, which is a queue of threads and lets each of them in.
Release of a held lease is assumed: it is a guard dropped with its owner.
Nothing is assumed of new calls, time-outs, errors and crashes, except in
`PatientSpec`, where giving up stops in the end, since callers that always give
up let nobody through.

`ExecutionGraph`: strong fairness of the driver, of each task, of the shared
commits and of a published command. The coordination mutex and the wait for an
intent are served in order by tokio, so a waiter is not passed over for ever
even if it is disabled again and again; executors answer, since deadlines and
cancellation bound them. A dead process is restarted (weak fairness of
`Recover`). Users owe nothing.

`SessionTurn`: weak fairness of every loop of a process: the admissions that are
under way, the task of each present claim, the tasks of earlier claims, the turn, the
claim loop and the delivery, which tokio
polls as long as the process lives and which nothing but their own steps or the
loss of their claim disables; and of the passing of the deadlines that nobody
renews. No mishap has to happen, and there are finitely many.

## Proofs

All are for every value of the constants that satisfies the named assumptions:
any number of processes, callers, nodes, commands and crashes, any graph, and
executors with any behaviour. Some theorems of `GraphOwnershipProofs` have
hypotheses on the constants in addition, which are part of their statements and
are explained below.

* **`ScopeLockExcludes`** (`MutualExclusion`). The
  lemmas first establish that the scheme of lock files is sound: if two
  requests conflict, their targets share a key in excluding modes, whatever mix
  of workspace, object and resource scopes they are, and merging targets keeps
  this. The inductive invariant adds to the types that files follow the call
  (a held lease has all files of its requests, an idle caller none), that
  files exclude (no two callers hold a key in excluding modes), the bookkeeping
  of mutex, queue and active map, and that a caller that is trying has no
  conflict among the active ones. `MutualExclusion` is not inductive without
  them: the grant would have to know what was checked several steps before.
* **`ScopeLockNothingLeaks`**, **`ScopeLockNoOvertaking`** and
  **`ScopeLockTypeCorrect`** (whose part beyond the types is that queues, active
  maps, mutexes and files are of the calls of their own) add `QInv` to it:
  the queue of a process holds calls of this process that are under way, each
  once (`QueueIsTrue`); who is in the active map holds its lease, and who has
  the mutex is in the critical section (`GrantsAreTrue`); and a caller that
  tries for its files has no conflicting call before it (`TryingIsFirst`). The
  last is what was checked when it entered; it stays true because calls join at the
  end of the queue, and is needed at the grant, several steps later.
* **`LifecycleTerminalStable`**, **`LifecycleDependenciesHold`**,
  `LifecycleTypeCorrect`: the abstract promises. `DependenciesHold` is inductive with
  the types, because what stands for a node is terminal and never falls.
* **`GraphEffectAtMostOnce`**, `GraphTypeCorrect`. The invariant is
  `TypeOK /\ Reports /\ Unpolled`: an outcome at a place where it can be
  committed was validated or came from a receipt; a wave entry that says
  "replay" has a receipt; and wherever a task can still reach its poll with a
  fresh entry the intent is on record and nobody has polled. The last part is
  what makes the bound inductive over pause, resume and restart.
* **`GraphImplementsLifecycle`**: each action of `ExecutionGraph` is a step of
  `NodeLifecycle` or leaves `status` alone. Its core is that the runner's
  counting of satisfied and possible predecessors against the required number
  is the same as `Released` and `Hopeless`. So the two lifecycle theorems hold
  of every graph the runtime drives.
* **`GraphCustody`** and **`GraphReceiptConfirms`**, without hypotheses. `OInv` adds to
  the invariant above that driver, tasks and the command under way belong
  together (`Together`), that a running node whose task works has the entry
  its task needs (`Entry`), and that the receipt of a node keyed by node agrees
  with what its task is about to report (`Receipt`). `ReceiptConfirms` is not
  inductive without the last: the commit of a replayed report writes a status
  and no receipt, many steps after the receipt was read.
* **`GraphTailAfterQuorum`**, without hypotheses, for every node that the pump's
  `CancelNode` ends. The pump's list is made in one
  critical section and used in later ones; `TailIsDecided` says that its members
  are work of a decided group for as long as the list exists, since the
  predecessors that decide a group never fall.
* **`GraphRunningExclusive`** and **`GraphExclusiveExecution`**. Both assume that
  exclusion is symmetric, as overlap of scopes in `scope_lock.rs` is. The first
  holds with every command: entries that conflict are never active together, so of
  two executors that overlap one belongs to a node that is no longer running.
  That they never overlap at all needs `Undisturbed`: no `Pause` or `Cancel` and
  no optional tail, since a command removes the entry of an executor that has
  yet to return. Then no intent is ever published (`Calm`) and a task that works
  works for a running node (`Steady`).
* **`GraphRunningIsOwned`** assumes `Undisturbed` and `NothingFatal` (no failing
  hook, no outcome that `validate_outcome` refuses). Either of them ends the
  driver or makes a task give way while its node stays `Running`; see Findings.
  Its invariant is `Owned`: the task of a running node works, or reports a
  failure of a kind that may end a running node. Panics, deadlines, errors,
  refused admissions and crashes are included.
* **`GraphEntriesAreOwned`** allows pauses and cancellations. It assumes
  `NothingFatal`, no tails, and `NothingAbandoned`: no deadline and no panic, the
  two failures that are reported without dropping the entry. `graph_panic` shows
  that the last cannot be left out.
* **`GraphDriverKeepsUp`** assumes in addition to `GraphRunningIsOwned` that the
  graph is acyclic, which the contract's `validation.rs` enforces, and that
  there is a slot, which the supervisor's `max(1)` gives. In a graph without
  tasks and ready nodes in which nobody waits, a planned node with no planned
  predecessor would be released or hopeless, and in an acyclic graph that has
  planned nodes there is one (`Acyclic` says so of every set of nodes). `Keeps` carries this over
  the steps between the pump's snapshot and its look at the tasks.

The constants of `graph_wakeups` satisfy all of these hypotheses.

* **`InboxHoldsOne`** (`OneClaim`) and **`InboxKeepsPromise`** of
  `SessionInbox`, for any transactions in any order, one after the other. In the
  database a claim may overlap another transaction, and then `OneClaim` does not
  hold and a cancelled row can be claimed again (Findings, 4): every theorem about
  `SessionInbox` and `SessionTurn` is read with this reservation.
  **`SerialClaimsAreAtomic`** makes it precise: if no transaction commits between
  the snapshot of a claim and its update (`Serial`; time may pass), then
  `SessionOverlap` implements `SessionInbox`, since the row a claim has found stays
  free (`Found`). `SerialClaimsHoldOne` follows. A claim looks for others
  of its own generation only; that two live claims exclude each other is
  inductive because of its second part, that whoever holds a claim is of the
  open generation. The refinement needs `Held`: the transcript has the answer
  of completed rows only, so that an answer never falls on a row that is over.
  `TranscriptAnswersOnce` is about the abstract session.
* **`TurnUsesInbox`**: every step of `SessionTurn` is a step of the inbox or
  leaves it alone, one lemma for each action. So `TurnHoldsOne` and
  **`TurnKeepsPromise`** follow from the theorems about the inbox.
* **`TerminalsNeverRegress`**, **`LedgerIsTrue`** (`AnswerIsCompletion`) and
  **`TerminalIsHeld`** (`MaterializedIsHeld`). The last two need four facts together: a delivery that
  is about to acknowledge finds its row completed under the claim it was given
  (`Confirmed`), and the worker whose claim on a terminal stands has the
  terminal's present fence (`OwnClaim`), since adoption takes a claimed terminal
  only when the delivery's deadline is over, and takes the owner away. The
  cursor of a turn is the maximum of a finite set; that it is a number is
  proved from the finiteness of `Inputs` by a well-founded order on subsets.

* **`AnswerLeavesNoneAttached`** (`NoneLeftAttached`) and
  **`AnswerSettlesHeard`** (`HeardIsSettled`). The transcript commit finds the
  supplements of its turn by generation and number (later than the turn's own
  row: every one up to the cursor, and no unread one beyond it) and never looks at
  their target. Clients may relate any row to any turn, so the properties are
  about rows that came later than the turn's own and are of its generation; both
  are fixed when a row is appended. The invariant is `Bonds`: what an admission, a
  call of a client or a task has under way is about rows that exist (`Asking`,
  `Entered`), and what a turn has read, while it works, when it is sealed and in its
  terminal, is within its cursor (`Working`, `Sealed`, `Committed`). None of
  these is inductive alone: an adopted terminal carries the cursor of an earlier
  claim's turn.

Only model-checked: the liveness properties `SomeoneProceeds`, `NoStarvation`,
`Settles`, `ReadyIsServed`, `FinallyCloses`, `InputsAreServed`,
`TerminalsAreDelivered` and `HeldIsMaterialized`, since fairness and `ENABLED` are
out of the prover's reach. Every invariant and every action property of the
passing runs has a theorem.

## Findings

Four runs show a disagreement between the code and what it says of itself.

1. `graph_denied`. The contract promises that a `Finally` node becomes ready
   after every predecessor is terminal. `command_advances` does not count a
   denied approval as advancing, so nobody wakes the driver that settled while
   the approval was open, and the finally node stays planned until a restart.
2. `graph_panic`. A panicking executor is isolated in the graph, but its
   entry in the active map, with its scope locks, is not removed. A node that
   needs the same scope stays ready for as long as the process lives.
3. `session_unread`. Two supplements are appended in one order and projected
   into the hot stream in the other, since the append and the projection of an
   admission are two steps. The stream takes no record at or below its admitted
   cursor, so the turn never reads the earlier one. The terminal commit marks all
   supplements up to the turn's cursor as applied, this one included, although a
   comment says that the commit proves application.
4. `session_overlap`. The claim is one statement of a READ COMMITTED
   transaction: it ranks the rows of a session and checks that none is held in
   its snapshot, and locks only the row it has found; nothing is evaluated again
   when the lock is granted. A row that is cancelled between the two is claimed
   nevertheless, while another process claims the next one. So does a blocked row
   that is retried while a claim of a later row has not committed yet. The
   architecture says that the inputs of a session are serial.

More behaviours are in the model, have no run of their own, and are the reason
why some runs restrict commands and mishaps:

* The pump reads the revision for its tail `CancelNode` outside the mutex. A
  commit in between makes it stale; the driver fails and nothing in the process
  retries the graph. The liveness run therefore has no optional tail.
* `prepare_ready_wave` looks at the intent, then waits for the mutex without
  looking again, so nodes can start between the two critical sections of a
  command, although a comment says that the gate prevents it. The command is
  then refused as stale; no safety property is lost.
* A refused `Pause` has already made a just admitted task give way: its node
  stays `Running` with no task. `RunningIsOwned` is therefore checked without
  pauses and cancellations.
* A node that was running at a crash is made ready, and its next start counts
  the attempt up, although recovery says that the same attempt is reattached.
* Supplements attached to a turn that is cancelled or expires, or whose process
  dies between its failure and the roll-forward, stay attached: no worker claims
  them. `NoneLeftAttached` is about answered turns.
* A supplement whose target is blocked is claimed and requeued without pause and
  keeps the rows behind it waiting. `session_live` has no corrupt content.
* A supplement classified in one generation and appended in the next never
  finds its target. The product closes a session when it advances its generation,
  so `session_live` has `close` and not `advance`.
* A supplement that its turn has read and that is then blocked is not settled by
  the answer of the turn. An operator's retry gives it a turn of its own, so the
  session answers it twice. `HeardIsSettled` excepts blocked rows. (It takes
  two mishaps, and was met in the proof, not in a run.)
* A row that was blocked and is then reclassified by a client as a supplement of
  the turn of a *later* row is not looked for by the commit of this turn. Attached,
  it stays attached to an answered turn; read by the turn, it is requeued and
  answered a second time, although `session_input_checkpoint_consumed` is there
  to prevent this. `NoneLeftAttached` and `HeardIsSettled` are therefore about later rows.
  (Without the restriction TLC refutes the second in the instance of `session_turn`, in
  20 steps, and the first with two mishaps, in 25.)
* A supplement appended after the turn's last checkpoint makes the transcript
  commit refuse the answer, as one with a stale cursor. The refusal blocks the
  terminal. A retry of the input adopts the same terminal with the same cursor
  and is refused again, until its attempts are used up and the input fails with
  a committed answer that never reaches the transcript.
* The deadline that an adoption is checked with is the one of the claim's start:
  renewals do not change the task's copy. An adoption half a minute later is
  refused although the claim is in force, and the refusal counts as permanent, so the
  input fails (`TaskRefused`, mishap `late`).
* A requeue for a busy host keeps the attempt its claim has counted, although
  the log says that the retry budget is not used.
* After-commit hooks that fail end the driver, and nothing in the process
  retries the graph; `graph_wakeups` has no faults.

## Not modelled

Within the modelled components: the `EvidenceReady` policy, replans and
registration of continuations, domain events of outcomes, the mutation gate of
an upgrade, store writes that fail, start errors of the kinds `Unavailable` and
`Invalid`, deferral by overload (only exclusion defers), slot generations, the
supervisor's semaphores, metrics and shutdown. A command's commit, the removal
of its targets from the active map and the end of its intent are one step; in
the code they are inside one critical section, and a task that only looks at
the intent or the active map, for which it needs no mutex, may look between them.
A terminal wave is any set of the tasks that wait for one: how its leader is chosen
and hands over is left out, and with it that a leader which is aborted leaves its
mark, so that later reports of the graph wait for ever. Recovery is that of a graph
which no managed agent owns and whose executors are bound at start-up; the gates
for the others (`lifecycle_services.rs:1597-1709`) are not in the model. Commits are
atomic: the store's optimistic append is taken as given until it has its own
module. Commands that publish no intent use the current revision, since a stale
one is refused without effect.

In the session path: the decisions other than `StartNewTurn` and
`SupplementCurrentTurn` (interrupt, control, subtask, other session, rejected), cancellation
receipts and suppressed terminals, application receipts, the live-terminal
fence, capacity admission and orderly shutdown, and the history and timeline tables
(written with their rows). In the hot stream: the mark of the turn's primary input,
and the release of consumed records, of which the model keeps that they were
consumed. `cancel_active_session` is covered by its effects: the row is cancelled,
and a turn whose row is not held may fail. A client's call reads the row and writes it with
the revision it read, so the two are one step unless a turn is chosen in between;
a call that a renewal of the claim makes stale is one that did not happen. The
roll-forward of an input writes its row and tells the stream in one step. What the
turn does between its checkpoints is the
execution graph; the two models are not composed, and the terminal's commit
with its graph is one step in `SessionTurn`. A claim is one step in `SessionInbox`
and `SessionTurn`, which the database does not guarantee: `SessionOverlap` drops
this for the inbox, and the gateway is modelled for claims that do not overlap another
transaction only (`Serial` in `SessionOverlap` states the condition).

## Plan

1. *Sessions*: `SessionLease` (owner, epoch, expiry against late renewals) with
   an abstract "one writer" specification; interrupts, cancellations and
   suppressed terminals in `SessionTurn`; the surface message ledger.
2. *Store*: `EventStore` with revisions, idempotency keys and unknown commit
   outcomes, refining atomic append; the hot-state image over it. Then the
   commits of `ExecutionGraph` can be split at the store, with domain events
   and receipts as separate streams.
3. *Graph*: `EvidenceReady`, replans, deferral by overload, start errors that
   leave a node ready, slot generations and shutdown of the supervisor.
4. *Around the graph*: resource manager, approval queue with expiry, mission
   schedule, managed-worker generations, app-host supervisor.
5. *Proofs*: for the modules above, exclusion of leases for `SessionLease` and the
   refinement of atomic append by `EventStore`; `GraphEntriesAreOwned` with
   tails; and the safety half of the liveness properties, as ranks that no
   step raises.

## Running

From this directory: `tlc -workers 2 -config GraphFaults.cfg MCExecutionGraph`
(likewise for the other configurations with their `MC` module), and
`tlapm SessionTurnProofs.tla`. The largest runs have one to two million
states; each finishes in minutes.
