# DavMail gateway: TLA+ models

A verification project for the mail gateway in `src/src/noreply_gateway/`
(Python, asyncio, SQLite). It takes mail over SMTP, holds it in a durable queue
and submits it to Microsoft with bounded concurrency, retries and a recipient
budget. What makes it hard is that a mail may be neither lost nor sent twice
while clients disconnect, answers are lost, disks fail and the process dies.

Contents: [the system](#the-system), [modules](#modules-and-the-code),
[runs](#runs), [fairness](#fairness), [proofs](#proofs),
[findings](#where-the-code-disagrees-with-its-documentation),
[limits](#what-the-models-leave-out), [plan](#plan).
Paths are relative to `src/src/noreply_gateway/` unless they begin with
`README.md` or `docs/`, which are the repository's.

## The system

One process, one event loop, one executor thread for the database, threads for
vault writes and password hashes. `service.py` starts store, web server, SMTP
listener and dispatcher in that order and stops them as listener, web,
dispatcher, store.

| Component | State | Operations | Hard behaviour | What makes it correct |
|---|---|---|---|---|
| Durable queue, `store.py` | tables `messages`, `quota`, `counters`, `settings`; `healthy`, `accepting` | insert a batch, claim, finish, retry, cancel, setting, housekeeping, open, close | seven transactions adjust two counters; crash between any two; capacity reached inside a batch; a budget over a moving window | counters equal the table; nothing accepted disappears; capacity, budget and mailbox hold; an interrupted attempt is never repeated by itself |
| Group-commit intake, `store.py:121-162, 334-341` | bounded `pending`, the writer's batch, shielded futures, a sentinel | `submit`, `_writer`, `close` | client gone while it waits; `close` racing submit and writer; failing commit; full queue at shutdown | 250 only after commit; 451 only if not stored; every client answered; close ends |
| Delivery workers, `delivery.py` | worker tasks, `paused`, `cooldown_until`, rate bucket | `_worker`, `_attempt`, `pause`, `set_rate`, `_housekeeping`, `start`, `close` | tests before and after an await; pause in database and memory; answers that are lost; cancellation at shutdown | upstream gets a mail once per acknowledgement; results agree with upstream; pause and cooldown persist; shutdown ends |
| SMTP listener, `smtp.py` | `connections`, `writers`, `buffered`; per session greeted, sender, recipients | commands, `_data`, `close` | buffer shared by sessions that end in many ways; transaction state that must be reset; closing with sessions open | buffer exact, bounded and returned; whole mail to its own recipients, once; close ends and is quiet |
| OAuth token manager, `oauth.py` | `record` and its copy in the vault, `access_token`, `rejections`, `needs_login`, a lock | `get_token`, `rejected_token`, `accepted_token`, `complete_login`, `disconnect` | rotation with a failing vault; concurrent 401; disconnect with a refresh in flight; another account after a restart | only persisted tokens are used; a rotated token survives a failed write; disconnect leaves nothing |
| Additional sender, `additional_sender.py` | `choice` and its copy, a second token manager | choose, complete sign-in, disconnect, send | choice and account are two files written one after the other, choices by threads in any order | the choice belongs to the account that is signed in; mail leaves only under an address chosen for it |
| Microsoft backend, `backend.py`, `http.py` | none | `send`: request and classification of the answer | an answer that says too little | a definite error is only raised if nothing was accepted |
| Administration, `web.py` | sessions, sign-in attempts, OAuth flows | login, settings, OAuth callbacks, message actions | a limiter tested before an await; tabs that share a session and its one flow | limits per client and in all, in every window; a flow is completed once, where it was begun |
| Message preparation, `message.py` | none | `prepare_message` | Resent- headers, marker and tests in the right order; three sets of recipients | From is a connected address; who is charged is who is addressed |
| Vault and lock, `security.py` | files, a `flock` | `read`, `write`, `InstanceLock` | loss of power in the middle of a write | old or new record, never half of one; one process at a time |
| Service and commands, `service.py`, `cli.py` | none of their own | start, stop, `init`, `reset-admin`, `check` | a step that raises half way through; death between two files | admission ends before the drain, the drain before the store, the store before the lock; a configuration has its key and password |
| `config.py`, `migration.py`, `static/`, `deploy/`, `tools/`, tests | | | sequential or not part of the service | |

Interactions. A session prepares a mail and awaits `Store.submit`; the writer
turns submissions into one transaction and resolves their futures. Workers
claim, send and finish through the executor, and consult token managers when
they send. The web server pauses (memory and database), retries and cancels.
A fault anywhere sets `Store.healthy` to False, which intake and workers read
later. At shutdown each part ends before the one it depends on.

## Modules and the code

| Module | Models | State and actions |
|---|---|---|
| `Store` | every job of `store.py` that changes the database | one variable per table (`messages`, `quota`, `counters`, `settings`), `up`, `healthy`, the clock, and as history `acks` and, with each body, the sender in force when the mail was taken (`accepted_for`). One action per job: `InsertBatch`, `ClaimExpires` and `ClaimTakes` (`_claim`), `Finish`, `Retry` and `Cancel` (`_action`), `SetPaused`, `Housekeeping`, `Open`, `Stop`, `Fault` |
| `MailLifecycle` | the table of states in `README.md:203-216`, abstractly | one record per mail: stage, exposures to upstream, acknowledgements |
| `Delivery` | `delivery.py` on top of `Store` | per worker `pc`, `job`, `result`; `dispatcher` (the two fields in memory); `calls` and `resumes` for `pause`; `phase` for start and shutdown; `copies` and `late` are what upstream really did. An action is what a task does between two awaits |
| `DeliveryRefinement` | | the mapping from `Delivery` to `MailLifecycle`, and the claim that `Delivery` uses `Store` only by its operations |
| `Intake` | `submit`, `_writer`, `close` and the waiting connection, on top of `Store` | `pending`, `writer`, `batch`, `stopping`, `future` are the code's; `client` is what the SMTP client was told |
| `Gateway` | `serve` (`service.py:21-67`): intake and dispatcher on one queue | the variables of both. A step is one of either (`DispatcherMoves`, `IntakeMoves`), or one of both: a commit is new mail for the workers or a fault that halts them (`WriterCommits`), a start, an exit and a crash are the process's. The environment that `Intake` and `Delivery` each assume is replaced by the other |
| `SmtpSession` | `smtp.py` | per peer `at`, `session`, `data`; the server's `connections`, `buffered`; `submitted` is the history of what went to the queue. A command is its effect |
| `Tokens` | `oauth.py`, `TokenManager` | `record`, `disk`, `access`, `rejected`, `needsLogin`, `holder` of the lock; `valid` is what the provider honours. Requests, vault writes and waits for the lock are separate steps |
| `Backend` | `MicrosoftBackend.send`, `_interpret_ews` | operators: the class of every answer, and from it `Endings`, the classes an attempt can end in when upstream has taken the mail and when it has not. `Delivery` lets a request end only so (`MayEnd`) |
| `Message` | `prepare_message` | operators on abstract headers: what is taken (`MaySend`, `MayAddress`) and what comes out (`Prepared`) |
| `AdditionalSender` | `additional_sender.py` with `Message` | `record`, `choice` and their files; `at` is the write a request awaits; `mail` is one queued message; `half`, `chosen` are history. `Accept` is the end of `_data` in `smtp.py` |
| `AdminLogin` | `AdminUI` of `web.py`: login, sessions, OAuth flows | `attempts` (per browser, the numbers of the attempts its deque holds), `sessions`, `session`, the cookie per browser; `at` is where a tab's request awaits; `tried` and `completed` are history |
| `Service` | `serve`, the commands of `cli.py`, `InstanceLock`, `atomic_write` | per process `command`, `pc`, the parts that are `up`; per file what is `seen` and what a loss of power may leave (`left`) |
| `StoreProofs`, `DeliveryProofs`, `IntakeProofs`, `ServiceProofs`, `TokensProofs`, `SmtpProofs`, `SenderProofs`, `AdminProofs` | | theorems and proofs about the module of that name (`SmtpSession`, `AdditionalSender`, `AdminLogin` for the last three); `DeliveryProofs` also about `MailLifecycle` and `DeliveryRefinement`, `IntakeProofs` also about `Gateway` |
| `MCStore`, `MCDelivery`, `MCIntake`, `MCGateway`, `MCSmtpSession`, `MCTokens`, `MCSender`, `MCAdminLogin`, `MCService` | | values and symmetry for TLC |

Three choices decide how much the models see.

*Grain.* One executor thread runs one job as one transaction
(`store.py:64`), so a job is one action. A task is only interrupted at an
await, so a task's action reaches from one await to the next. The commit of a
job and the resumption of its caller are one action, except in `pause`, where
another task can see the database changed and memory not.

*Ground truth.* The program cannot know whether upstream took a mail, so
`copies` and `late` do: `UpstreamAccepts` turns a request into a copy before its
answer comes back, and a request that was given up on is `late` until
`LateAcceptance` or for ever. `Tokens.valid` does the same for credentials.
An answer is truthful, a lost one says nothing.

*Sums.* `Store` counts octets and recipients as the cardinality of a set of
pairs (`Octets`, `Units`) instead of adding numbers up, because sums of a set
need recursion and the theorems are about any sizes. `SmtpSession` counts what
the sessions hold of the shared buffer the same way, and `AdminLogin` the attempts
of a window as the cardinality of a set of their numbers.

Comments that begin with "Mutant" mark operators that state a plausible error
in the code next to them; `PROJECT.json` says which property notices it.

## Runs

All passing runs are exhaustive on their instance.

| Run | Instance | Question |
|---|---|---|
| `store` | 2 mails of 1 and 2 recipients, limit 2, window, expiry and history of one or no instant, 3 instants, delays 1 and 2, configurations with and without a legacy sender | Are the counters exact, is nothing lost, do reservations match attempts, does the budget hold while its window moves, can a cooldown be shortened? `StoreInv` is the inductive invariant of the proofs, exact counters, matching reservations and the pinned mailbox among its parts. `VIEW` folds states that differ only in columns nothing in `Store` reads any more (`ReadState`) |
| `gateway` | 2 transactions of one mail, a queue of 1 place, batches of 2, 2 workers, every class of answer, throttling with delays 0 and 2, crash, failing jobs and commits, full disk, disconnecting clients, cancellation, lost answers, unexpected errors | Is what a client was told what becomes of its mail, as far as upstream? Is every copy upstream in the ledger, does the cooldown the workers obey reach the database? `GatewayInv` is the inductive invariant of the proofs, `DeliveryInv` with `IntakeInv`; that each attempt has its row to itself is a part of it |
| `lifecycle` | 1 mail, 2 workers, 1 administrator, every kind of trouble, 1 acknowledged retry, 1 attempt within the limit, fairness | Can upstream get a mail twice without an acknowledgement? Is what may be sent again refused? Does `Delivery` implement `MailLifecycle` and use `Store` properly? Do pause in memory and database agree? Do attempts and shutdowns end? |
| `intake` | 3 transactions with mails of sizes 1, 2, 2, a queue of 1 place, batches of 2, room for 2, every kind of trouble, fairness | Does 250 mean durable and 451 not stored, now or later? Is a batch cut where the store is full? Is every client answered, does `close` end with a full queue? |
| `smtp` | 3 clients, 2 connections, a buffer of 3 for mails of 2, 2 transactions, fairness | Is the shared buffer exact and returned on every way out of DATA, do connections stay bounded, does a transaction end with its DATA, does `close` end and leave nobody able to submit? |
| `tokens` | 2 workers, 1 administrator, 2 accounts, 2 answers with credentials, fairness | Is each token in use persisted, does a rotated credential survive a failed write, do concurrent 401 count once per token, does `disconnect` win against a refresh in flight? `TokensInv` is the inductive invariant of the proofs; that used tokens are saved is one of its parts |
| `sender` | 2 administrators, 2 accounts, one of which has the legacy sender as its address, 1 custom address, 184 messages, either recipient policy | Is the choice in force always for the account that is connected? Does mail wait only under an address that was chosen for that account, or, while the record of a sign-in is being written or when it could not be, under the account's own or one chosen for some account? Are the recipients charged those that are addressed? |
| `admin` | 3 browsers, one with 2 tabs, limits 1 per client and 2 in all, 1 session, 2 flows, 3 instants | Do the limits hold in every window with sign-ins under way at once? Is a Microsoft sign-in completed once, where it was begun and in time? |
| `service` | 2 processes, 4 commands, 6 files written | Does admission end before the drain? Does the store close after its users, and what is left open when a close raises? Does a configuration have its key, its password and the credential its `init` imported, whatever a loss of power leaves? `ServiceInv` is the inductive invariant of the proofs, from which one process at a time owns the state |
| `halt`, `attempts`, `login_limit` | small | the [findings](#where-the-code-disagrees-with-its-documentation) |

Why these bounds are enough to be interesting. Two workers meet each other in
every await. In `intake` sizes differ and three mails compete for room for two,
so that a batch is accepted, cut and refused in part; one place in the queue
makes the sentinel wait for the writer and makes clients meet a full queue;
three transactions are a batch of two and one behind it. Retries, and what
follows them, are a matter of one mail, so `lifecycle` has one, with an
administrator; `gateway` has two mails that share batches, workers and ledger
from the client's command to upstream, without a retry by hand and with a clock
that stands still, so that its states stay below a million. In `store` the window
is as long as one clock step, so recipients leave it while an attempt is under
way, and one settled row beside a fresh one meets the limit.
In `smtp` two sessions fit into the buffer only if one of them holds less than
a whole mail, and a third client waits for a connection. In `tokens` two
answers are a sign-in and a rotation, or two generations refused in turn;
the temporal property on a third answer is beyond a quick run. In `sender` two
requests are enough for a sign-in or a disconnect that overtakes the write of a
choice, and the messages combine an ordinary and a Resent- From, a marker, two
From headers, recipients outside the envelope and outside the allowed domains.
In `admin` the limit of all binds a browser that has not tried yet, one session
is evicted by the next, and two tabs share a flow that the second flow replaces.
In `service` one process runs any command while the other starts, stops or
writes; six writes are a whole `init` with an imported credential and two
changes of the password.
Bounds: `MaxTime`, `MaxAcks` (the guards stop the clock and further
acknowledgements), `Enabled` and `Mishaps` (the kinds of trouble of an
instance), `MaxInput`, `MaxTransactions`, `MaxIssued`, `MaxSessions`,
`MaxFlows`, `MaxWrites`. Symmetry is used for workers, mails of equal size,
administrators, tabs and processes where a run has no temporal property.
Deadlock is checked in every run but those of `AdminLogin`, whose clock ends: elsewhere there
is always a process to stop or to start.

## Fairness

Nothing is assumed of operators, clients, upstream, the clock, crashes, starts
or stops.

- `Delivery`: weak fairness of each worker's step, of the cancellation of its
  task once the drain has timed out, of the two halves of `pause`, and of the
  end of `close`. The event loop runs ready tasks, the executor runs jobs, a
  request ends by its total timeout (`service.py:32`), the drain by
  `shutdown_seconds`. A worker waiting for an answer is in a state where some
  answer, the timeout included, is enabled, which is why fairness of the whole
  `Worker(w)` suffices.
- `Intake`: weak fairness of the writer, of the sentinel's `put`, of the end of
  `close` and of each resumption of a waiting client.
- `SmtpSession`: weak fairness of a session's own steps; of the limit of a
  whole DATA (`smtp.py:220`); at a command, of whatever comes first, the
  client's next command, its disconnection or the limit (`smtp.py:87`), so that
  a client may go on sending commands for ever; of the return of `submit`, which
  `Intake`'s `EveryoneIsAnswered` provides; and of `wait_closed` once nobody is
  connected: it returns at once up to Python 3.11 and waits for connections
  since 3.12.
- `Gateway`, `AdditionalSender`, `AdminLogin`, `Service`: none; their properties are
  safety.
- `Tokens`: strong fairness of a caller's turn at the lock, because
  `asyncio.Lock` serves in order of arrival while other callers take and leave
  it; weak fairness of answers and of vault threads.

## Proofs

Every theorem is `Spec => ...` for all values of the constants that satisfy the
named assumptions of the module (`StoreAssumption`, `DeliveryAssumption`,
`DelaysCover`, `IntakeAssumption`, `SmtpAssumption`, `TokensAssumption`,
`SenderAssumption`, `AdminAssumption`, `ServiceAssumption`), which TLC evaluates in the runs too.
They say that sets are finite, limits are numbers, sentinels are no messages and
addresses are not empty. A module's specification has one inductive invariant, a
conjunction of named parts. A run of TLC checks each of them but `AdminInv`,
whose two consequences the run checks; one lemma per action shows that the action keeps it, and the properties follow from it.

| Module | Theorem | Says |
|---|---|---|
| `StoreProofs` | `StoreInvariance` | `StoreInv` in every reachable state |
| | `TypeCorrect` | types of all tables |
| | `NoMailLost` | counters equal the table, accepted = held + submitted + cancelled, bodies kept |
| | `CapacityHolds` | the queue never exceeds `max_messages` and `max_bytes` |
| | `BudgetHolds` | the recipient budget of the window, one reservation per attempt |
| | `MailboxPinned` | retained mail, attempted or not, was accepted for the present legacy sender or for none, and never attempted for another |
| | `CooldownKept` | no step shortens a cooldown |
| `DeliveryProofs` | `DeliveryInvariance` | `DeliveryInv` in every reachable state |
| | `UsesQueue`, `QueueHolds` | every step of the dispatcher is an operation of the queue with the arguments it is specified for; so all that is proved of `Store` holds under it |
| | `ImplementsLifecycle` | every step takes each mail along an arrow of `MailLifecycle` or leaves it |
| | `LifecyclePromises` | the promises of `MailLifecycle` alone: exposures never exceed one plus the acknowledgements, a mail that waits has no unanswered one, a sent mail has one |
| | `NoDuplicate`, `RetryIsSafe` | what these promise, said of upstream and the rows of the queue |
| | `AttemptsExclusive` | an attempt owns its row, and finds it "sending" |
| | `LedgerIsComplete` | acceptances by upstream are in the ledger within the window |
| | `CooldownReachesDisk`, `PauseIsPersisted` | memory and database agree on the cooldown and on the pause |
| `IntakeProofs` | `IntakeInvariance` | `IntakeInv` in every reachable state |
| | `AckIsDurable`, `DeferredIsAbsent` | 250 only for stored mail, 451 only for mail that is not stored, now or later |
| | `WriterUsesQueue`, `IntakeFits` | the writer drives the queue only by its operations; no batch overfills it |
| | `GatewayInvariance` | `GatewayInv`, the invariants of both parts, in every reachable state of the whole |
| | `GatewayDelivers` | every step of the gateway is one of `Delivery` or leaves it, so all that is proved of `Delivery` holds with the real intake |
| | `AnswersAreTrue` | upstream never gets mail that was answered 451 or still waits for its commit; mail answered 250 stays on record |
| | `GatewayKeepsItsPromises` | the promises to clients and about upstream together with the invariant of the queue, of the service as `serve` builds it |
| `SmtpProofs` | `SmtpInvariance` | `SmtpInv`: the shared buffer is exactly what the sessions keep and within its limit, as are the connections |
| | `NothingTruncated`, `TransactionsApart` | whole mails only, to recipients of their own transaction, once |
| | `QuietAfterClose` | nobody can submit when `close` has returned |
| `TokensProofs` | `TokensInvariance` | `TokensInv` in every reachable state |
| | `SendsWithSaved`, `PresentsGood` | only tokens of saved credentials are used; the credential presented is honoured and of the configured account |
| | `CountsTokens`, `StaysDisconnected` | a new sign-in only after two different tokens; disconnect leaves nothing |
| `SenderProofs` | `SenderInvariance` | `SenderInv`: every choice was made for its account; the one in force is for the account signed in and never selects the legacy sender, but while the record of a sign-in is being written or when it could not be (`half`) |
| | `SendersWereChosen`, `RecipientsAreThoseAddressed` | under whom mail waits (in the case `half` under the account's own address or one chosen for some account), and who is charged |
| `AdminProofs` | `AdminInvariance` | `AdminInv` in every reachable state |
| | `AttemptsLimited` | the limits per client and of all hold in every window of time |
| | `FlowsAreSingleUse` | a Microsoft sign-in is completed once, in its session, for its account, in time |
| `ServiceProofs` | `ServiceInvariance`, `OneOwnerAlways` | `ServiceInv`; one process at a time owns queue and state, but for a store whose own close raised, which is open until its process exits |
| | `StopIsOrderly` | workers are drained only when listener and web are closed, whatever raises; the store closes after its users but for those a close that raised left open, and before the lock unless its own close raised |
| | `FilesSurvive` | a configuration has its key, its password and the credential its `init` was to import; nothing reported is undone |

The arguments, and why the invariants are as strong as they are:

*Queue.* None of the properties is inductive alone. `NothingLost` and
`WithinCapacity` rest on the counters being exact; the counters are exact after
`Finish` and `Cancel` only if the row that is released still had its body
(`BodyKept`); `_insert_batch` tests the counters, so `WithinCapacity` needs
`RetainedExact`; `WithinBudget` adds up ledger rows and needs ids that
no two rows share (`LedgerWellFormed`); a fresh reservation is the only one of
its message because no row outside "sending" has any (`ReservationMatches`).
`StoreInv` is their conjunction. Lemmas on octets and units (`BytesAdd`,
`TakeOneAway`, `WeightOfOneMore`, ...) turn set operations into arithmetic;
`AdmittedFits` shows by induction over a batch that its accepted part fits; one
lemma per action shows that it keeps the invariant; `StepKeeps` joins them.

*Dispatcher.* `DeliveryInv` adds to `StoreInv` what the tasks know: what a
worker may be at in each phase of the process (`PhasesAgree`), that two attempts
never have one row and a row under way is "sending" (`AttemptsApart`), that a
result waiting to be recorded is one `_finish` takes (`ResultsFit`), the order
of commits and resumptions of `pause` (`PausesInOrder`), where a cooldown is
between memory and disk (`CooldownOnItsWay`) and that every copy upstream has a
ledger row (`LedgerAhead`). With it each step is shown to be a step of the queue
(`UsesQueue`) and, through the mapping of `DeliveryRefinement`, of the lifecycle
(`ImplementsLifecycle`); `NoDuplicate` and `RetryIsSafe` then follow from the
invariant of `MailLifecycle` (`MailInvariance`, one lemma about one mail's
record) seen through that mapping. `DelaysCover` is the one
assumption that ties two modules: the delays `_attempt` computes are among those
for which `Store` is specified. What `_finish` may be called with
(`FinishArguments`) had to be exact for this: the last attempt of a mail fails
with the delay its retry would have had.

*Intake.* That 451 is never said of stored mail needs to know where each
submission is: in the queue, in the writer's batch or nowhere (`PlacedOnce`),
with what its future says and its client was told (`FatesAgree`), and that both
places are empty when the process is down (`LifeAgrees`).

*Gateway.* The two parts meet in the rows of the queue, and each was proved with
an assumption about the other: `Intake` that rows it has no part in stay absent,
`Delivery` that new mail has no row yet and fits. Both follow from one
observation, that only a commit makes rows (`DispatcherKeepsRows`). To the
intake, a step of the dispatcher therefore leaves its variables alone and absent
rows absent (`SeenByDispatcher`, `SeenByIntake`). To the dispatcher, a commit is
`NewMail` with a batch that fits, because the batch holds only mail whose row is
absent, which is `IntakeInv`'s to say. So neither invariant is inductive in the
composition without the other, and both together are (`GatewayKept`).
`AnswersHold` joins the ends: `FatesAgree` says that mail answered 451 has no
row, the mapping of `DeliveryRefinement` that mail without a row is at stage
"none", and the invariant of `MailLifecycle` that nothing at that stage was ever
exposed to upstream. That `Intake` uses the queue only by its operations
(`IntakeUsesQueue`) and that `Gateway` implements `Delivery` are proved and not
checked by a run.

*Listener.* The buffer is a sum over sessions, so the lemmas are about it:
sessions apart hold octets apart (`OctetsApart`), and when some sessions end
their DATA the sum is less by what they held (`Released`), be it one that was
answered or broken, or all at once when `close` cancels them. A submission is
whole because a DATA that has not failed has kept what it received
(`BufferAgrees`), and separate because a session that may still submit has a
transaction of its own for which nothing was submitted (`SessionsAgree`).

*Tokens.* The invariant says that the holder of the lock is the caller inside a
locked section and that what it read of the record before its await is still so
after it (`CallerAgrees`); from it a late answer cannot overtake a disconnect,
and a credential presented is the one in the record.

*Additional sender.* A choice is used after restarts, late writes and sign-ins
that failed half way, so the invariant speaks of all the places where one can
be, memory, file and writes under way: each was made by an administrator for
the account it names (`ChoicesWereMade`). The proof covers a configuration
without a legacy sender, where the empty address selects nobody.

*Administration.* A limit is tested on what the deques hold now, and promised of
every window, also of those that are over. Two facts join them. The deques hold
every attempt that is still in the window that ends now (`AttemptsKept`), so a
new attempt finds all others of each window it belongs to; and a window that the
clock has left gets no more. The deques of different clients share no attempt, so
their union counts the attempts of all. A flow that a session holds was begun in
it and has not been completed (`FlowsHeld`), because `_finish` takes it from the
session before it awaits anything.

*Service.* Losses of power are why `ServiceInv` tracks what each file may fall
back to: `init` writes in an order in which a file is synced before the next one
that needs it is begun (`WritesInOrder`), so nothing that is left can lack what
it needs (`DiskAgrees`). Which files that are depends on whether a credential is
imported (`imports`, history). A stop in which a close raises is the reason for
`raised`: a user whose close raised, and those behind it in the `try` block,
stay open while the store is closed, and nothing else does (`StopsInOrder` with
`Behind` and `LeftOpenBy`).

Only model-checked: all liveness (`AttemptsEnd`, `ShutdownEnds`,
`EveryoneIsAnswered`, `CloseEnds`, `BufferComesBack`, `ListenerCloses`,
`CallsEnd`), which is out of the prover's reach. Of `Backend`, `EndingsOfAttempts` proves that a
mail upstream has taken ends as submitted or uncertain and one it has not never
as submitted; the rest of its classification is evaluated by TLC.

## Where the code disagrees with its documentation

- `halt`: "Queue faults halt intake and sending" (`README.md:222`). A worker
  that waits for its rate permit when the fault happens tests `paused`,
  cooldown and stop again, not `healthy` (`delivery.py:65`): it claims one mail
  and sends it.
- `attempts`: "20 automatic attempts" (`README.md:218`). Only the handler of
  `Retryable` compares attempts with the limit; a mail refused for want of a
  sign-in is retried without end (`delivery.py:87-91`), until it is too old.
- `login_limit`: password attempts are limited "with a Retry-After response"
  (`README.md:248`). Testing the limit of a client without recent attempts
  creates an empty deque for it (`web.py:153`, a `defaultdict`); when the limit
  of all clients is reached, the oldest attempt of every client is looked up
  (`web.py:160`), the empty deque raises, and the answer is 500 without
  `Retry-After`. The attempt is refused all the same.

Narrower observations, from reading the code beside the models:

- An empty legacy sender, which the configuration permits, is taken for "none
  stored yet" (`store.py:98`): a first named sender is accepted with bodies
  retained, which `README.md:112` calls refused.
- When the record of a new sign-in cannot be written, an access token of the
  previous one stays in use until it expires, with the record in memory not on
  disk (`oauth.py:216-224`). Each token in use had been persisted itself
  (`UsedTokensAreSaved`). With the additional account, the previous account's
  choice stays in force too; `SenderInv` exempts this case by name (`half`), and
  of mail accepted in it `FromWasChosen` only says that its address is the
  account's own or was chosen for some account.
- Writes of the choice are not ordered (`additional_sender.py:91`). One that
  lands after the write of a disconnect leaves the old choice in the vault,
  against `README.md:118`; a restart drops it unless the same account is signed
  in again by then, which is why the properties hold.
- When a close of the shutdown raises or is cancelled, the parts behind it in
  the `try` block are skipped and the store is closed under them
  (`service.py:54-63`); a `store.close` that raises leaves the database open
  after the lock is released, until the process exits (`service.py:61-67`).
- A state directory made by `init` is never synced in its parent
  (`security.py:36`, `cli.py:62`). With a configuration elsewhere a loss of
  power may take the directory and leave the configuration; `RecordsSurvive`
  takes the directory to survive.
- `init` that dies after its first file leaves a directory that `init` refuses
  and no other command can use (`cli.py:65`); a new directory is needed.

## What the models leave out

- Pace: a rate permit may come at any time, `set_rate` changes nothing else;
  jitter only lengthens a delay.
- Statistics (`stats`, `messages`, export, counters nobody decides by), log
  lines, the contents of mails, requests, tokens and replies.
- The order of equal rows in `_claim` is any order; `LIMIT 10000` of the purge
  is not reached; disk space is an outcome of a commit.
- `Intake.Close` alone may happen with clients still submitting, which `serve`
  avoids by closing the listener first: more behaviours than the service has.
  `Gateway` closes in `serve`'s order; it starts and stops as a whole, and what a
  raising step leaves behind is `Service`'s.
- SMTP command texts, MAIL parameters and the check of the peer's network are
  outcomes (`Declines`, `TurnedAway`).
- A 401 for an old token counts against a newer sign-in if no access token is
  cached when it arrives; `CountsGenerations` speaks of different tokens
  refused, not of which sign-in they came from.
- `Message`: headers are sets of addresses; parsing, folding and serialising,
  sizes other than the limit for the additional account, `Date`, identifiers
  and the rewritten Subject. A malformed header is a message that is not taken.
- `AdditionalSender`: refreshes, which keep the user name, and the waits for
  the lock, which are `Tokens`'. A mail queued under one account is sent through
  whichever account is connected when its turn comes (`README.md:122`).
- `AdminLogin`: host, origin and CSRF tests, which only reject; the password
  itself, the two places for verification (`login_lock`), and what the exchange
  of a flow does, which is `Tokens`'. Time has instants, so `Retry-After` is not
  computed.
- `Service`: writes of a serving process, and so a thread that still writes the
  vault after its request was given up and the lock released
  (`service.py:67`); two `init` with one configuration and two state
  directories, whose test for an existing configuration is made before the lock
  (`cli.py:43`); the creation of the queue, which `store.start` does.
- Not modelled: configuration and DavMail import (sequential functions of their
  input, no state to interleave), user interface, deployment files and tools.

## Plan

Done: what may lose or duplicate mail (`Store`, `MailLifecycle`, `Delivery`,
`Intake`, and `Gateway` of these), what feeds it (`SmtpSession`, `Message`,
`Tokens`, `AdditionalSender`), what it is told (`Backend`), and what surrounds
it (`AdminLogin`, `Service`).

Proved: every invariant and safety property the passing runs check, both
refinements of `Delivery`, and the composition of intake and dispatcher. What is
left is `RatePermit`: the token bucket as arithmetic on a clock, with `set_rate`
and a sleep cut short by the stop event.
