# Relay in TLA+

Relay moves money for organisations: a person or an agent asks for a payment, policy and
approvers decide, a worker signs and sends it, and a ledger records what happened. These
modules describe that program: what it promises, how the code keeps the promise while workers
crash, nodes lag and approvers race, and where it does not keep it. The reference is the code
(`src/`); names follow it. `PROJECT.json` maps every definition to the lines it stands for.

Shorthand below: `jobs.ts` = `packages/database/src/jobs.ts`, `index.ts` =
`packages/database/src/index.ts`, `worker.ts` = `apps/worker/src/worker.ts`.

## 1. Inventory

Two kinds of process share one PostgreSQL database: the API (`apps/api`) and any number of
workers (`apps/worker`). They call each other never; they interact through rows. A worker also
calls chain nodes and x402 sellers. Every cross-process effect is therefore *a committed
transaction, then a later read by somebody else*, and everything hard in the system lies between
the two.

| Component | State | Operations | Interacts through |
|---|---|---|---|
| Job queue and outbox | `outbox_events`, `jobs` | `pumpOutbox`, `enqueueJob`, `claim`, `complete`, `fail`, `defer` | outbox rows written by every other component; `handle` dispatches a job |
| Intake, policy, approvals | `intents`, `approval_requests`, `approvals`, `policy_versions` | `createIntent`, `evaluateIntent`, `decideIntent`, `expireApproval` | outbox: `intent.evaluate`, `approval.expire`, `transaction.execute`, `proposal.publish` |
| Payment execution, confirmation | `executions`, `intents.status`, ledger | `execute`, `confirm`, `getExecutionContext`, `recordSimulation`, `markSigned`, `markSubmitted`, `markFailed`, `markFinalized` | jobs `transaction.execute`, `transaction.confirm`; chain nodes |
| Chain adapters (EVM, Solana) | none (nonces, blockhashes, receipts live on the chain) | `signTransfer`, `broadcast`, `broadcastStatus`, `waitForTransaction` | called by execution |
| Governed treasuries (Safe, Squads) | `approval_requests.external_ref`, the multisig on the chain | `publish`, `recordPublication`, `completePublication`, `observeProposal`, executing with owners' signatures | jobs; owners acting on the chain |
| Time lock of a Squads vault | the multisig's `timeLock`, `observed_configuration.timeLock`, the followed change in `localStorage` | propose, vote, execute, confirm a change; `GET /v1/intents/:id/time-lock` | a member's wallet and tab, the API, other members |
| x402 payments | quote in the intent's evidence, settlement in `executions.observed` | `quote`, `createPayload`, owners' approvals of a Safe's payment, `pay`, lookup | seller's HTTP service; execution |
| Receivables, ledger | `treasury_inflows`, `invoices`, ledger tables | `createInvoice`, `recordInflow`, `allocateWithin`, the public page's x402 route | periodic jobs, sellers, execution's postings |
| Treasury sync, reconciliation | `treasury_sync_cursors`, `reconciliation_runs` | `openCursor`, `scanInflows`, `advanceCursor`, `recordReconciliation` | job `treasury.sync`, chain reads |
| Beneficiaries, recurring payments | `beneficiaries`, `payment_schedules` | `createSchedule`, `setScheduleStatus`, `enqueueDueSchedules` | periodic job; creates intents |
| Executor rotation | `executor_rotations`, `treasury_accounts.executor_signer_id` | `start`, publish, observe, execute, complete | jobs; the same multisig as payments; refuses while intents are in flight |
| Verification cases | `organizations.verification_status`, `verification_cases` | draft, start, statement, submit, decide | API and console |
| Application form, review dialog | one form per tab: the draft typed, the fields marked, the statement shown; the reviewer's choice | type, save, read the statement, sign; choose, record a decision | the API's schema, which judges the same texts again |
| Signers, key encryption | `signers` envelopes (under a data key, the ring's key, or KMS); the keys that each process was started with | `createSigner`, rewrap, `replaceSignerEnvelope`, introducing and retiring a key | execution opens a signer for one use |
| Fees, statements | postings of what transactions cost, dated entries | `costLines`, `markFailed`, `markFinalized`, `statement` | what the confirmation learned from a receipt; readers of a month |
| Customer's pay page | the invoice shown, what the button is doing | poll, pay with a wallet, show a code | the public view of an invoice, the customer's wallet, the sync |
| Sign-in challenges | `auth_challenges` | create, consume, verify, create the session | a wallet's signature; the clocks of API and database |
| Sign-in and sessions in the browser | `human_wallets`, `sessions`, one cookie, `SessionProvider`'s state per tab | sign in, switch organisation, reload, sign out | tabs that share the cookie |
| Members, agents, credentials | `principals.status`, `sessions`, `agent_credentials` | switch, logout, status, credentials | every API request |
| Policies and bindings | `policy_versions`, `policy_bindings` | `createPolicy`, `addPolicyVersion`, `bindPolicy`, `loadPolicy` | intake and execution load what is bound |
| Policy editor | the editor's fields, amounts as decimals of an asset | open, type, submit | saves whole definitions as new versions |
| Web console | per component: path, data, error, loading, a request in flight | `useApi`, `invalidate` | API |
| Opening of vaults | one draft in the browser's storage, the dialog, requests under way | prepare, deploy, finish, discard; `POST /v1/vaults` | the owner's wallet, the chain, treasuries |
| HTTP API, governance planning | none of their own | validate and delegate, or plan; what changes state is in the rows above | stores, wallets |

What is hard, and what makes each component correct:

* **Queue.** Crashes between claim and report, leases that lapse, reports that arrive late or whose
  answers are lost. Correct: nothing emitted is lost, one live holder while a lease lasts, a job that has
  ended and that nobody holds stays ended, everything ends.
* **Execution.** A crash at any await, errors whose effect is unknown, a node that does not know
  yet, nonces shared by intents, blockhashes that expire, blocks that are replaced. Correct: a
  payment moves money at most once; what is recorded as failed has not and will not; what is
  recorded as settled cannot be undone; every submission is released in the ledger once.
* **Authorization.** Approvers, expiry, several workers and changes of gates race; a sum over
  other intents is read without a lock and acted upon later. Correct: nobody pays without
  authority, the daily limit holds, ends are final, a request that has not ended keeps the job that takes
  it further.
* **Governance.** The same with decisions taken on a chain that other wallets use too: Safe
  nonces collide, Squads indices go to somebody else, a publication crashes half-way, a config
  change voids what is waiting for votes. Correct: a row's proposal is its own and the only one,
  paid is what left the vault, and nobody waits for a vote that cannot come.
* **Time lock.** The delay is on the chain, in Relay's record and on a screen; a change voids what
  was approved before it, and other members act elsewhere. Correct: Relay hands a wallet only what
  the program will execute, calls ready what is, and never follows a payment as if it were the change.
* **x402.** Whether money moved is known to a seller who may not answer; a Safe's purchase waits
  for owners who may leave. Correct: one settlement per purchase, the settlement on record is that
  purchase's, and no seller gets more than was quoted and let go.
* **Receivables.** One receipt seen by two observers; balances read while transfers are in
  flight. Correct: a receipt is booked once, invoices, receipts and ledger agree, and the ledger's
  cash is the chain's balance up to what is under way. A statement adds up, joins its neighbours, and
  stays as it was once its month is over.
* **Treasury sync.** Two handlers scan one treasury, over an opening balance that is found by
  looking back, a node that lags, and pages with a limit. Correct: each receipt is in the opening
  balance or booked, never both, and a break on record is one.
* **Schedules.** Late ticks, pauses, end dates. Correct: no period pays twice or late, and a
  schedule completes only when it is over.
* **Access, policies, keys, verification, console.** A check and the write that relies on it are
  two steps and another request falls between them. Correct: someone can always administer the
  organisation, what was revoked stays out, a session stands for one signature of its wallet, a tab
  acts in the organisation it shows, a bound target has a policy, no signer is lost with its key, a
  submitted case says what its signer was shown, a settled page shows what is there, and what a customer
  pays from the page reaches its invoice, once.
* **Forms.** A form and the API judge the same texts by two sets of rules; a form is opened on one
  version and saved over another. Correct: the form holds up nothing that the API takes, and a saved
  policy forbids what its page showed as forbidden and loosens only what was changed.
* **Opening of vaults.** The owner's wallet deploys what the API prepared, and the dialog or the tab
  may close at any time. Correct: the treasury on record asks of its owners what was signed for,
  and a vault on chain without a record can still be recorded.

All hazards, each at its line, are in `PROJECT.json` under `hazards`, with the properties that
would catch them, or a note that says why none does.

## 2. Modules

```
Payment  <----- implemented by ----- PaymentExecution --- uses as ---> TaskPool
Budget   <----- implemented by ----- Authorization                        ^
                       (an executing intent's way: PaymentExecution)      |
                                                 JobQueue -- implements --'

MCTreasury: SquadsTreasury | SafeTreasury | TimeLock | X402Settlement
            | Receivables | Statements | InflowSync | Schedules | Authorization
MCConsole:  SignIn | Challenges | Access | PolicyBinding | PolicyEditor | KeyRotation
            | Resource | Verification | ApplicationForm | VaultOpening | PayPage
```

**Abstract specifications.** `TaskPool`: work is posted once, handed out until it is closed,
never after. `Payment`: an approved intent moves money at most once, settles only if it did,
fails only if it did not and never will. `Budget`: a limit from which payments take their share
in one indivisible step.

**JobQueue** (`outbox_events`, `jobs`; `jobs.ts:242-322`, `worker.ts:106-150`). One action per operation;
`job[k]` is the row with dedupe key `k`, `run[w]` the record a worker holds with the attempts it read when
it claimed (`fail` compares that copy, not the row). `LapseLease` is the passing of the lease; nothing
renews one (`heartbeat` has no caller). `complete` is called inside the worker's `try`: when its update
commits and its answer is lost (`CompleteUnanswered`), the worker goes on to `fail` a job that has
succeeded, and `fail` looks at no status. Delays are abstracted to "later". The lease of a job in `Brief`
lapses only when nobody runs the job; that of any other may lapse under a live worker, and then several
workers run one job and report late. A task of `TaskPool` is closed when its job has ended *and nobody holds
it*.

**PaymentExecution** (`worker.ts` `execute`, `confirm`, `buildExecution`; their transactions in
`jobs.ts`; `broadcast`, `broadcastStatus`, `waitForTransaction` of both adapters). A step of a
worker is one await: `at[w].pc` names the next one.

| pc | action | code |
|---|---|---|
| `context` | `ReadContext` | `getExecutionContext`, gates and signer included |
| `build`, `rebuild` | `Build` | `buildExecution`: fresh, or after a run that stopped at "simulated" |
| `record` | `RecordSimulation` | `recordSimulation` |
| `sign`, `persist` | `Sign`, `MarkSigned` | `signTransfer`, `markSigned` (matches no row silently) |
| `broadcast`, `submit` | `Broadcast`, `MarkSubmitted` | `broadcast`, `markSubmitted` |
| `lookup`, `judge` | `Lookup`, `Judge` | the two reads of `broadcastStatus` |
| `condemn`, `reverse` | `MarkFailed` | `markFailed` from `execute` and from `confirm` |
| `begin`, `observe`, `settle` | `BeginConfirm`, `Observe`, `MarkFinalized` | `confirm` |

`HandlerError` and `Crash` may strike at every await. The chain is a set of transactions, each
blank, held (signed), pending, landed or reverted, with an account nonce (EVM), expired
blockhashes (Solana) and finality; `Land`, `Finalize`, `Reorg`, `Evict`, `Expire` and
`ForeignNonce` are its moves. The four Boolean constants `LeaseOutlastsHandler`, `Freezes`,
`NodeLags`, `Reorgs` name the parts of the environment, so that a run or a theorem can say under
which of them it holds. Jobs are handed out as `TaskPool` allows.

**Authorization** (`createIntent`, `decideIntent`, `updateOrganization` in `index.ts`;
`evaluateIntent`, `expireApproval`, `spentToday`, `getExecutionContext`, `recordSimulation`,
`markFailed` in `jobs.ts`; `evaluatePaymentIntent` in `packages/policy`). Time is a clock, because
the daily window and expiry are about it. `evaluateIntent` is three steps (read the row and gates;
read policy and spend and simulate; commit, looking only at whether the intent is still received),
each with what the earlier ones read. After `recordSimulation`, execution is one step, `Submit`, or a
crash and then `Resume`; `Confirm` learns the end from the network, or defers, for ever if the network never
tells. A job has one live holder, as in the payment
runs that pass. An error or a crash may be its last attempt: it is then in `dead`. Simulations may refuse at any
time.

The modules below take over where these leave an intent to a treasury's owners, a seller or a
customer. They share with `PaymentExecution` what happens to a signed transaction, and keep of
execution only whether the chain took it.

**SquadsTreasury** (`worker.ts` `publish`, `publishRotation`, `observe`, `executeRotation`;
`rotations.ts`; the Squads adapter; the time lock routes). Payments and rotations are one kind of
`Item`: each records an index (`ChooseIndex`), broadcasts, waits, completes and is then observed in
two steps, because the proposal is read before the row is locked. `log` is the multisig's
transactions by index, `stale` its stale transaction index, `members` the executor keys that it
lists. `Recognised` is `publishedBy`, which looks at the creator only. Members vote and cancel,
owners change the time lock, creations land late, never, or at an index that is taken.

**SafeTreasury** (`worker.ts` `publish`, `buildExecution`; approval and rejection routes; the Safe
adapter). A publication reads the nonce and records it later; owners sign in the console, or burn
the nonce, send the transaction themselves, or use the Safe for something else.

**TimeLock** (`governance-controls.tsx`, `governance-controls.ts` of the domain, the time lock routes
and `confirmTimeLock`). A member proposes a change, votes and executes with the wallet of this
browser; each request is a flow from the API's offer through the wallet and the chain to the
confirmation, which reads the multisig and writes the record in two steps. Any member, this one too,
may act in Squads itself at any time, and a payment shares the indices.

**X402Settlement** (`worker.ts` `buildX402`, publication and approval of a Safe's purchase; the x402
adapter). The worker signs a direct payment when it executes; of a Safe's, owners approve the message
that the publication fixed, and the worker puts their signatures together (`collected.slice(0,
threshold)`). Either way the authorization is persisted, presented and answered; `presented` holds
what a seller may still settle, in any order and also after the worker has given up. `Lookup` may fail
to see a settlement and otherwise returns the latest one to the same payee.

**Receivables** (`operations.ts` `createInvoice` to `openCursor`; `ledger.ts`; `worker.ts`
`syncTreasury`; the public invoice's x402 route). `recordInflow` is a `Read` and a `Write`, since its
reads take no locks; both observers use it. Postings carry the reference that makes them
idempotent. Outbound postings come from `MarkSubmitted` and `Confirm`, which trail the chain.

**Statements** (`costLines` and the ledger transactions of `jobs.ts`; `ledger.ts`; `recordInflow`,
`openCursor` and `statement` of `operations.ts`). Receivables' postings once more, of the native asset
only, where fees and rent are paid as well. A transaction that posts is a `Begin`, which dates it, and a
`Commit`; what a confirmation or a sync has read is in `tx` by then. A statement is two reads. A payment
is native, of a token or by x402, of a treasury that pays its own fees (`direct`) or has an executor.

**InflowSync** (`worker.ts` `syncTreasury`; `scanInflows`, `signatureAtOrBefore`, block ranges and
balances of both adapters; `recordReconciliation`). Handlers of two `treasury.sync` jobs overlap. The
opening balance is located, read and booked in three steps; a scan reads a page, records receipts one
by one and moves the cursor; a comparison reads the balance, whether anything newer landed, and the
books. `Limit`, `Recent` and `MaxBlocks` are the code's 500 signatures, the signatures it looks back
over, and the blocks of a scan.

**Schedules** (`operations.ts` `enqueueDueSchedules` and the members' operations). A clock that
nothing waits for; an occurrence is a number and its due time is computed from the start.

**SignIn** (`SessionProvider`, `POST /v1/auth/verify` after its signature, switch, logout,
`bootstrapOwner`, `createSession`, `setPrincipalStatus`). One person with several tabs and one cookie; a
request is a flow through the API's awaits back to the tab that asked, and answers may be lost or overtake
each other. A member may be put out and taken back at any time, also between a request's check and the
session that it creates.

**Challenges** (`POST /v1/auth/challenge` and `verify`, `consumeChallenge`). A challenge is written by
one clock, consumed by the database's and verified by a third, each at most `Drift` ahead of the
slowest. The nonce is spent before the signature is looked at.

**Access** (switch, logout, members, agents, credentials in `app.ts`, and their stores).
**PolicyBinding** (`addPolicyVersion`, `bindPolicy`): a transaction reads at one step and
is seen by others at another. **PolicyEditor** (the policies page, its routes, and
`evaluatePaymentIntent` as the measure of what a policy lets through): a version of another owner may
arrive while the editor is open, and every version keeps, as history, the form it was saved from and the
version that form was opened on.

**KeyRotation** (`rotateKeyEncryption`, `rotate-keys.ts`, `replaceSignerEnvelope`, `openSecret`):
several runs walk the signers by id while the API creates more, in either of three formats. API and
worker each have the keys that they were started with, and get the new one and lose the old one
separately.

**Resource** (`useApi`). **Verification** (the routes, their stores, and the wizard): a route that
checks before it writes is two steps, and each owner has a tab with a draft and the statement it
shows. **ApplicationForm** (`verification-application.tsx`, `lib/verification.ts`, the schema in
`packages/domain/src/verification.ts`, the review dialog): the same wizard by what is typed. A text is
a record of what the rules look at (length, padding, case, a long run of characters, a pasted
document, which grammars it satisfies), so that the form's rules and the API's can be compared field
by field without spelling a text out.

**PayPage** (`apps/web/app/pay/[token]/page.tsx`, `wallet.ts`, the public route, and of `recordInflow`
what finds the invoice). `flow` is `payWithWallet` between two awaits; `asked` is what the wallet has
before it, which a reload leaves there; `answers` are polls that overlap. Invoices of one treasury
differ by their tags on EVM and by their references on Solana.

**VaultOpening** (`create-vault.tsx`, `waitForConfirmation`, `POST /v1/vaults/prepare` and
`POST /v1/vaults` with `verifyVaultDeployment`). `dialog` is the component's state; `asking` and
`runs` are what goes on between two awaits of `prepare`, `deploy` and `finish`, also after the dialog
has been closed (`here`); `draft` is the one entry in the browser's storage. A plan is the owners and
the threshold. The address is the one that was prepared; everything else `deploy` writes down comes
from the form as it is then. A Safe's address is derived from its plan, and a Squads vault's creation
carries it, so what lands has the plan that was prepared.

`MCPaymentExecution` and `MCAuthorization` give TLC values; `*_proofs` hold the theorems.
`MCTreasury` and `MCConsole` instantiate several components in one module and run *one of them per
behaviour*: `part` is chosen in `Init` and never changes, the others keep an initial state. These
components share no variable, so their product would only multiply states; the sum of their state
spaces asks the same questions.

**Ghosts.** Where the code leaves a window open, a ghost variable records that a behaviour went
through it, and the property is claimed for all others: it says nothing of the window, and where a
hazard of `PROJECT.json` *is* the window, its `properties` do not name it. Where a document or a comment
denies that the window is open, section 4 quotes it. Each names the window:

| Ghost | Module | The behaviour in which |
|---|---|---|
| `slipped` | SquadsTreasury | an intake, a rotation or a time lock change was opened beside one of the others |
| `bypassed` | SafeTreasury | owners sent the signed payment themselves |
| `raced` | Receivables | a receipt was written on a read that another writer had overtaken |
| `drifted` | Receivables | the opening balance was booked while payments or receipts around its block were not in step with the books |
| `unseen` | Statements | a payment ended on a status while the node did not have the transaction, so its cost is not known |
| `askew` | Statements | the opening balance was booked while payments or receipts around its block were not in step with the books |
| `again` | PayPage | the customer began to pay anew after a request had reached the wallet |
| `late`, `moved` | PayPage (of a transfer) | the invoice was closed, or another paid in part, before the receipt was found; the wallet was moved to another chain after the page had checked |
| `missed` | TimeLock | the last change of the time lock was not read back, or the reading was overtaken by another change |
| `drifted` | InflowSync | the opening balance was taken beside a payment, or the signature of its slot was not among those looked at |
| `overlapped` | Access | an owner acted who had been put out since its request was authenticated |
| `overlapped` | PolicyBinding | a version was added to a policy while it was being bound |
| `misordered` | KeyRotation | the old key was in use after a run had reported that nothing is left under it, or the new one before the worker had it |
| `behind` | SignIn | a tab shows a session from before another tab changed the cookie, or signed out without clearing it |
| `out` (of a session) | SignIn | the session was issued while its member was put out |
| `dropped` | Resource | a load was asked for while another was in flight |
| `late` | Verification | a save or a submission was written on a check that no longer held |
| `apart` | ApplicationForm | since the save before the statement began, the owner typed or another owner saved |
| `stray` | VaultOpening | a vault's draft was not written after the send, carries another plan than was prepared, or gave way to the draft of another vault |

`told`, `signed`, `cutOff`, `confirmed` and InflowSync's `opened` and `missed` record history that a
property speaks of: the words an owner had read and the page above them when signing, which tokens
existed when their principal was put out, what was on the screen when an owner signed for a vault, what
the opening balance includes, and receipts that a node did not have or that came at once in greater
number than are asked for. A statement's `calm` says that when it was read its month was over, and every
posting begun in it. `falseBreak` and `turnedAway` are set by the step that must not happen.

## 3. Runs

| Run | Question | Size and why it is enough |
|---|---|---|
| `JobQueue` | Is work lost, doubled, revived or stuck, also when leases lapse under live workers? Does the queue implement `TaskPool`? | 2 workers (one to die, one to take over), 2 outbox events (a batch of one or two), of which one is `Brief` and the other may be run by both workers, the later of whom reports after it was ended, dead-lettered or taken again; 1 periodic job that both workers enqueue, `MaxAttempts` 2, 3 faults (enough to dead-letter a job and still crash, or to lose an answer and crash), 2 deferrals |
| `PayEvm` | Two intents on one account: at most one transfer each, failed means unpaid, ledger matches status, `Payment` is implemented | 2 workers, 2 intents, 3 transactions (one intent may sign twice), nonces 0..4, 2 faults: a crash and a foreign nonce can both hit |
| `PaySvm` | The same hazards with expiring blockhashes, reorganisations, lagging nodes and freezes, plus liveness | 2 workers, 1 intent (blockhashes are not shared between intents, so they do not interact), 3 transactions, 2 faults |
| `PayFreeze`, `PayLapse`, `PayLag` | What breaks when a gate closes during recovery, a lease lapses, a node lags | the smallest instance that shows it; each refutes one property |
| `AuthDay` | Authority, finality, the budget; is a request ever left without the job that takes it further? | 2 workers, 2 payments that fit the limit one at a time only, 2 approvers who both must agree, one below the automatic limit and one above it; 1 tick, 1 crash or dead letter, 1 change of a gate |
| `Treasury`, Squads | One proposal per row, and none but Relay's own; as many are paid as left the vault; nothing stranded | 2 payments (which may be published at once and record one index) and 1 rotation of 2 keys on one multisig, 1 time lock change, `MaxIndex` 2 (two may take one index, and one of them a second), 1 error or crash. The theorems hold for any number of payments, rotations and indices |
| `Treasury`, Safe | Paid is what left the Safe, ended otherwise is what did not | 2 payments that may share a nonce, 3 owners of whom 2 sign, `MaxNonce` 2 (one beyond the shared nonce) |
| `Treasury`, time lock | Does Relay tell, and go by, the delay that the multisig has? | delays 0 and 1, 2 indices (a change beside a payment or another change), 1 request under way while both members act in Squads itself, which do all that a second request can but be read back; a clock of 2 moments: a delay has passed or has not. `DelayIsTheProgrammed` holds for any number of requests |
| `Treasury`, x402 | One settlement per purchase, the right one, as approved | 2 purchases, both direct or one of them from the Safe (which one does not matter), from the same or from two payees that ask what is allowed or more; 3 owners of whom 2 sign and some leave; 2 attempts each (sign, recover), crashes anywhere |
| `Treasury`, books | Booked once, tables and ledger agree, cash is the chain's balance | 1 invoice, 2 receipts (one by x402, one that may match or not), 1 outbound payment that succeeds or reverts; transfers that cover a part of the subtotal of 3, twice of which is more than it and exactly the sum with the tag, x402 payments of the rest or all of it; both chain families |
| `Treasury`, monthly | Is the native asset's cash the balance with all fees and rent, and do statements add up and join? | 1 payment of either kind, native, token or x402, that succeeds or reverts, with rent or not, from a direct or a governed treasury of either family; 1 receipt, 2 months, a treasury that starts with nothing or with enough |
| `Treasury`, sync | Is every receipt read once, and is a break one? | 2 handlers that overlap, a chain of 2 transactions (two of a receipt, a transfer made by a contract, a payment; `SyncsAccount` holds for any chain), pages and look-backs of 1 so that each of them overflows, both chain families |
| `Treasury`, recurring | No burst, no payment outside its period, no early end | interval 2, `MaxTicks` 9: four occurrences, with an end, a maximum, both or neither |
| `Treasury`, limits | The daily limit across the edge of the 24-hour window | `Authorization` with 2 payments of 1 and 3 under a limit of 3, a window of 2 of 3 ticks, the first may wait for its approval for longer than the window; no crash: a crash only runs the same reads again |
| `Console`, browser | Does a tab act in the organisation it shows? | 1 wallet, 2 tabs, 2 memberships, 2 sessions, 2 requests under way |
| `Console`, proofs | Does a session stand for one signature, and is nobody turned away by a clock? | 2 wallets, one of Solana, 2 challenges, 2 requests that race, a lifetime of 2 under a drift of 1 |
| `Console`, members | An owner remains, what is revoked stays out | 2 owners, 1 agent, 2 tokens (one revoked beside one that is not), 3 changes of status. `NeverLockedOut` and `OnlyTheGrantedGetIn` hold for any numbers |
| `Console`, policies and terms | Does a bound target have a policy, and does it say what its owners saw and changed? | 2 policies, 2 targets, 3 versions; and 3 assets on 2 networks with one decimal place or none, 2 amounts, 2 addresses, 2 versions on top of strict, free or foreign (API-written) terms, 2 fields changed per edit |
| `Console`, keys | Can the worker open every signer? | 3 signers of which each may be sealed under either key, be of the old format or in KMS, 2 runs, API and worker restarted in any order |
| `Console`, page | Does a settled page show what is there? | 2 paths, 2 changes each |
| `Console`, payer | Does what a customer pays reach its invoice, once? | 2 invoices of which what remains of the other can equal what this one asks for, 2 transfers (by button and by code, or twice by button), 1 answer in flight while others have arrived |
| `Console`, wizard and form | Are the words signed the ones shown, and do form and API agree? | 2 owners, 2 complete profiles that can be exchanged, a case opened once (`SignedAsRead` holds for any number of openings); and 8 texts that between them pass and fail each rule, typed into any one field of two complete applications or an empty one, 4 reasons of a reviewer |
| `Console`, vaults | Is a vault on chain recorded as signed for? | 1 vault (that the draft of another displaces its own is in `VaultsAreKept`, for any number), 2 plans, `MaxRuns` 1: one preparation beside one deployment or record, which go on while the dialog is closed and opened again |
| `AuthWindow` | The same limit counted by when payments are committed | 3 payments (1, 3 and 2 of a limit of 3), one of which may wait for longer than the window; refuted |
| `SquadsAdopt` | Is the proposal that a row adopts the one made for it? | 2 payments, 1 key, 1 crash; refuted |
| `DoubleBook` | Is a receipt booked once, without the exception for a race? | 1 invoice, 1 receipt; refuted |

Bounds in the guards: `MaxFaults` (errors, crashes, foreign nonces, reorganisations together), `MaxDefers`,
`MaxNonce`, `MaxTime`, `MaxSwitches`, `MaxIndex`, `MaxAttempts`, `MaxAmount` (what an x402 intent allows, a
bound of the code), `MaxTokens`, `MaxChanges`, `MaxMembers`, `MaxSession`, `MaxChallenges`, `MaxVersion`,
`MaxEntered`, `MaxTyped`, `MaxSigner`, `MaxCases`, `MaxVaults`, `MaxFlows`, `MaxRuns`, `MaxBinding`,
`MaxEdition`, `MaxResource`, `MaxTicks`, `MaxDelay`, `MaxChain`, `MaxMonth`, `MaxTransfers`, `MaxAnswers`,
and in `Create` that a request can still expire before the clock stops. Every property of a passing run is
also checked to fail under a plausible mistake in the code (`mutants` in `PROJECT.json`). Several of the
runs' properties are conjunctions of claims that have names of their own in their module: `OneProposalEach`,
`AllocationsAddUp`, `PurchasesSettled` (`SettledOnce`, `SettlementIsOwn`, `SettledAsApproved`),
`OnlyGranted` (`RevokedStaysOut`, `ProvenOnce`, `NobodyTurnedAway`), `PoliciesKept` (`BindingsFollowPolicy`,
`HoldsWhatWasShown`, `LoosensOnlyWhatChanged`), `LedgerAccountsForChain` (with `StatementsHold`:
`CashIsBalance`, `StatementsJoin`), `ShownIsCurrent` (with `CustomerPaysInvoice`). `Symmetry` exchanges sets
of which no component uses two at once together: a subgroup of all exchanges, so as sound, and smaller.
`CHECK_DEADLOCK` is off: when every payment has ended the system rightly has nothing to do, and behind a
bound it has nothing left that the bound allows.

**Fairness.** `JobQueue`: a live worker loops over pump, claim and report (`drain`), so those are
weakly fair; claims are strongly fair per job since `claim` orders by `run_at`, so a ready job
cannot be passed over for ever. Handlers are assumed to return, and a worker that lost the answer of
`complete` to report the error that it takes it for. Errors, crashes, lost answers and deferrals
are never fair. `PaymentExecution`: worker steps as above; a chain includes and finalizes what it
can; a node that is asked again and again does not deny for ever what the chain has
(`TruthfulAnswer`). `Authorization` states safety only: that every request has the job
which takes it further (`NeverAbandoned`) is an invariant, and that a job ends is `EmittedEnds` of the queue;
a confirmation may be deferred for ever, so no end of a submitted payment is claimed without the chain that
`PaySvm` has. The
modules of `Treasury` and `Console` state safety only: what they wait for (members' votes, sellers,
customers, owners, an operator) need never happen, and the worker's part in it is an ordinary job,
whose end `JobQueue` and `PaySvm` show.

**What the passing runs show.** The outbox and leases lose nothing, and only a worker that still holds a job
which has ended can put it back, by a late report or after a `complete` that was not answered; it then runs
once more, and ends; persisting the signed bytes before sending, and asking the chain before acting again,
makes crashes harmless at every await; intents that compete for a nonce never make a failed one paid; the
ledger's pending amounts match. The daily limit needs no reservation: an intent shows itself
(`approval_required` or `approved`) before it looks at the others once more, just before it signs, so of two
that do not fit at least one sees the other.

Persisting an index before broadcasting, and looking at it before publishing again, keeps one
proposal per payment through crashes, late landings and foreign transactions. Two payments of a vault
that record one index may both take the proposal that lands there (`SquadsAdopt`). The chain executes it
once, so of the two rows one is paid: as many payments are paid as left the vault, but the amount and the
destination are then the other row's. No payment takes a change of the multisig for its own, nor a
rotation anything but its own. What Relay calls paid left the vault or the Safe even
when votes are withdrawn between observation and execution, since the chain checks again. One
authorization per purchase, sent again rather than signed again, makes a silent seller harmless.
Receipts, invoices and ledger agree whichever observer is first, and a receipt that cannot be
allocated leaves no half-written row. Of the checks that the API makes before it writes, each holds
but for the ghosts above; those are the windows to close first.

## 4. Disagreements between the code and what is said of it

1. `PayFreeze`. `getExecutionContext` applies gates and the signer check on recovery too; its
   refusal marks failed a payment that may have been sent. "a signed execution is resolved from chain
   state only" (`docs/FAILURE-RECOVERY.md`).
2. `PayLapse`. Leases are never renewed and nothing else locks an execution. A handler slower than
   60 s lets a second worker sign and send a second transfer; `markSigned` of the slower one
   matches no row and it sends its bytes anyway. "A payment moves money at most once".
3. `PayLag`. A failing or lagging `getTransaction` counts as "unknown", and the nonce consumed by
   the transaction itself then makes it look dead. "A node that has not yet seen a
   transaction [...] is a reason to wait, never a reason to declare a payment dead".
4. `AuthWindow`. `spentToday` windows by the creation of intents, its comment speaks of what was
   committed in the last 24 hours; a payment that waited for its approval drops out early.
5. `SquadsAdopt`. `publishedBy` recognises a publication by its creator, and all intents of a vault
   have the same executor. Two intents that record one index both take the transaction there for
   theirs; the second row then shows, and observes, a proposal that pays somebody else. "a retry can
   recognise its own proposal" (`packages/squads-adapter/src/index.ts`).
6. `DoubleBook`. `recordInflow` reads without locks and its unique key includes the event, so an
   indexer and an x402 settlement that run at once each insert the receipt. "the first record wins
   and the second only allocates it" (`operations.ts`).

Noticed on the way and kept out of the passing claims: a failed receipt is acted on before it is final, so a
reorganisation may turn it into a success (`FailedMeansUnpaid` is not claimed with `Reorgs`); Solana's
status and blockhash are two reads, and a transaction may land and expire between them (not claimed in
`PaySvm`); a submitted transaction that is dropped or expires is awaited for ever (`Stranded` in
`ApprovedEnds`; `NeverAbandoned` asks only that its confirmation is still queued).

Each ghost of section 2 is such a window too, and no property is claimed to hold in it. Three of them
are denied by a comment:

* `overlapped` of `PolicyBinding`: `bindPolicy` reads the active version without the lock that
  `addPolicyVersion` takes, and may insert its binding after the others have been moved. The binding stays on
  the retired version, and its target has no policy. "Bindings follow the policy, not a frozen version, so
  they move to the new version." (`index.ts:669`)
* `dropped`: `load` returns at once while a request is in flight, also when an invalidation called it, and
  nothing makes up for it: the page keeps an answer from before the mutation. `useApi` "refetches on
  invalidation" (`apps/web/lib/api.ts:66`).
* `stray`: the fields stay open while a preparation is under way, so a draft may carry owners that the
  prepared address does not have, and no retry can then record the vault; there is one draft for all vaults;
  and the notice of an unfinished vault shows the draft that was read when the dialog was opened, so that
  "Discard" in a dialog opened again can throw away the draft of a vault that has been deployed meanwhile.
  The stages are kept "so that a closed modal never strands a deployed vault" (`create-vault.tsx:19`).

Two more were met that no model needs:
`recordReconciliation` computes a status "in_flight" that the check of its table does not allow, so a
sync with a payment pending ends in an error (`operations.ts:561`, migration 006 line 135); the decision
on a verification case carries no version of the case, so a reviewer may decide on a resubmission unseen
(`verification-routes.ts:469`).

Behaviour that the models have, and that a reader of the code may not expect (none is a run of its own):

* *Time lock.* A worker executes a Squads payment as soon as it is approved, so under a delay its
  simulation fails and the intent with it, although the console says that it waits (`worker.ts:506`).
  The API offers votes and executions on changes that a later one has voided, and after a failed
  confirmation nothing confirms again. The drawer shows the current delay under "New delay"
  (`governance-controls.tsx:421`). No code sets the statuses `executing` and `draft`.
* *x402.* A Safe's payment takes the first `threshold` signatures collected without looking at who is
  an owner by then, so a purchase can be refused although enough current owners signed. The settlement
  on record has the quoted amount, not the one found. A gate that closes after the signature fails an
  intent whose authorization a seller may still settle; `evmAuthorizationUsed` has no caller.
* *Sync.* `scanInflows` drops receipts beyond 500 signatures and those whose transactions the node does
  not have, and the cursor passes them.
* *Queue.* A job whose `complete` was committed and not answered is set back to retry and handled again
  (`worker.ts:135-141`), or even dead-lettered although it is done. To payments the handlers' own checks
  make this harmless (`HandlerError` at the end of a handler in `PaymentExecution`).
* *Sign-in.* Two sign-ins of a new wallet at once create two organisations (`app.ts:290`). A tab can
  show another organisation than the one that the shared cookie acts in, until it reloads. A session that
  is created just after its member was put out is not revoked: it is refused while the member is out, and
  accepted when the member is taken back, behind a tab that shows itself signed out.
* *Application.* `PUT` of the profile needs a complete one, so "Save the draft" of an unfinished form is
  always refused, although the routes speak of "a half-finished draft". The form's `ready` looks neither
  at lengths nor at the characters of identifiers. Inputs stay open during a save, so the page above the
  words may differ from them ("Written by the API from the draft above",
  `verification-application.tsx:304`).
* *Policies.* The editor saves the whole definition without the version that it was opened on, so a save can
  undo another owner's freeze. It always adds "transfer", takes the networks from the assets, and shows
  amounts by the first asset's decimals, each of which changes a policy that the API has written. Sending a
  lost creation again makes a second policy.
* *Invoices.* One failed poll of the pay page shows "Invoice not found" for good; after a part payment it
  still asks for the full amount, which on EVM then matches no invoice, or that of which as much remains;
  after "Payment sent" it lets the customer pay again. The request to send names no chain, so a wallet
  that has moved since it was checked sends the payment elsewhere.
* *Books.* When a Solana node has the status of a transaction and not the transaction, the confirmation ends
  the payment without its fee and rent, and no later step books them (`if (!transaction) return result`,
  `solana-adapter`). An opening balance may be negative (a receipt by x402 was booked before the sync saw
  the treasury); it is in the closing balance of its month's statement and in none of its totals, against
  "Opening, inflows, outflows, fees, closing equal to the chain balance"
  (`docs/INTEGRATION-VERIFICATION.md:44`). Postings are dated when their transaction begins, so a month
  that has just closed can still change. A direct treasury's fee is spent when its token payment
  lands and booked when that is final; until then the native asset shows a break, not a payment in flight.

## 5. Proofs

Checked by TLAPS, for every value of the constants: any number of workers, intents, transactions,
owners, tabs or policies, and any bounds. A component's theorems are in `<component>_proofs`, or, for
the components that run one at a time, in `Treasury_proofs`, `Books_proofs` (both about `MCTreasury`'s
`Spec`), `Console_proofs` and `Pages_proofs` (about `MCConsole`'s). Every behaviour of `MCTreasury` or
`MCConsole` is one of each of its components, so there the invariant is proved of the component and
carried over. `Sums_proofs` has what the others need of sums. `PROJECT.json` lists the theorems under
`theorems`.

**Assumed of the constants.** Those named in the modules (`*Assumption`): bounds are naturals, `None` is
none of the values it stands in for, rows and proposals of different kinds are told apart. The texts of an
application are described consistently (`TextAssumption`: none of the rules finds anything in an empty text,
and a data URL, which has a colon and a comma, is no register number, type or code), other owners'
applications are what the schema accepts and stores (`StoredAssumption`), and a policy has whole amounts, as
many decimals as its assets have, and at least one asset (`TermsAssumption`; `allowedAssets` is `.min(1)`).
TLC evaluates them. Where a theorem assumes more, its statement says so (those about the queue do not: they
hold whichever jobs are `Brief`, also for none):

| Assumption | Where | Why it is needed |
|---|---|---|
| `LeaseOutlastsHandler` | `PaymentExecution_proofs` but for `TypeCorrect` | `PayLapse` is the counterexample without it |
| `Steady`: EVM, no `Freezes`, `NodeLags` or `Reorgs` | `FailedIsUnpaid`, `PaysAsPromised` | `PayFreeze`, `PayLag`; a block replaced after a failed receipt; Solana's two reads (section 4) |

**Queue and execution.** A report of a worker (`fail`, `defer`, `complete`) names a row by its key, so what
it does to the row depends on what has happened since the claim.

| Theorem | States | Inductive invariant, and what it adds |
|---|---|---|
| `JobQueue_proofs!EndsAreFinal` | `EndedIsFinal`: an ended job is handed to nobody, and is revived at most by those who held it when it ended | `RowsInv`: an outbox event is processed exactly when it has its row, a row that somebody holds exists, claims and enqueues leave an ended row alone, reports come from holders |
| `JobQueue_proofs!TypeCorrect`, `WorkIsNotLost`, `OneHolderEach` | the row's types, `NoLostWork`, `HolderOwnsRow` | `LeaseInv`: `RowsInv`, and for each `Brief` job `OneHolder`, the held row is running, or has succeeded and its holder does not know, with the attempt that its holder read; attempts count faults and deferrals (so a job dies only after `MaxAttempts` claims). Reports on other jobs write other rows |
| `JobQueue_proofs!QueueIsAPool` | `ImplementsTaskPool` | `LeaseInv`. Each step of outbox, rows and leases is a step of `TaskPool` or a stutter, also a late report and a lost answer; that a `Brief` task has one holder (`Exclusive`) is part of `TaskPool` |
| `PaymentExecution_proofs!TypeCorrect` | `TypeOK`, with no further assumption | `TypeInv` |
| `PersistedFirst`, `PaysAtMostOnce` | `PersistedBeforeBroadcast`, `AtMostOnce` | `SafeInv`: *OneHolder*; *WorkersFit*, what intent and row still are at each await of a handler (a worker at `persist` holds a fresh transaction and its row is "simulated", one at `broadcast` holds the one its row names); *RowsFit*, what is on the network is named by the row of its intent. Both transactions of an intent would be the one that the row names |
| `PendingIsBooked`, `SettledForGood` | `PendingMatchesStatus`, `SettledIsFinal` | `BooksInv`: the transaction that a confirmation waits for is the one that the row names, at `settle` it is final, and postings name nothing else |
| `UsesPool` | `UsesTaskPool` | `QueueInv`: which jobs exist at each status of an intent, so that submission posts a confirmation that was not there |
| `FailedIsUnpaid`, `PaysAsPromised` | `FailedMeansUnpaid`, `ImplementsPayment` | `FateInv`: at `condemn`, and once an intent has failed, its row names no transaction, one that reverted, or one off the network whose nonce is consumed, which no step can undo |

**Authorization.**

| Theorem | States | Inductive invariant, and what it adds |
|---|---|---|
| `RecordsTyped`, `EndsAreFinal` | `TypeOK`, `TerminalIsFinal` | `TypeInv` |
| `ApprovedByAuthority` | `QuorumOrDelegated` | `AuthorityInv`: a worker about to authorize has compared the amount with the limit, and votes exist only for intents that have got as far as a request; without these, intake could approve an intent that somebody has rejected |
| `RequestsKeepTheirJob` | `NeverAbandoned` | `JobsInv`: a status only moves on, a job exists from the status that posts it, and a worker is done with a job only when the status is past those of which it is owed; so a `Complete` never takes the last job, whatever another worker or an approver did meanwhile |
| `LimitHolds`; `Treasury_proofs!LimitIsKept` | `WithinDailyLimit`, of `Authorization` and as `MCTreasury` runs it | `LimitInv`: *HandsFit* and *OneHolder*, a worker past its re-check has an intent that is still approved and its own; *Room*, the intents created within the last day that were executed or have passed the re-check fit the limit together. The property speaks of the moment of each execution and the invariant of now: time makes room, and only a re-check takes it, which counts every other that has passed |
| `SpendsABudget` | `ImplementsBudget` | `LimitInv`. Holding a share is being executed or paid; the step that records a simulation is `Budget`'s reservation, for which *Room* shows that there is enough. `Budget` never gets back what was paid, so the theorem is about behaviours shorter than the window (`MaxTime < Day`) |

**Treasuries.**

| Theorem | States | Inductive invariant, and what it adds |
|---|---|---|
| `ProposedOnce`, `PaidFromVault`, `NobodyStranded` | `OneProposalEach`, `OutcomeMatchesVault`, `NothingStranded` | `SquadsInv`, for any payments and rotations: *Where*, *Published*, *Voted*, for each item where its transaction is (being recorded, in flight, or at the index that its row has persisted), what an index can hold otherwise, and who may still vote on it; *Own*, what a row takes for its proposal is its own, or for a payment that of another payment at the same index; *Vault*, of the rows that share a proposal one is paid when it is executed; *Apart*, an open rotation is the only one, so no other has had its index; *Exclusive*, a configuration change excludes the others |
| `SafeTellsOutcome` | `OutcomeMatchesSafe` | `SafeInv`: record and Safe meet in the receipt; an execution is on its way or has its receipt, and what left the Safe without one was sent by the owners |
| `PurchasesAreSettled` | `PurchasesSettled` (settled once; the settlement on record is the purchase's own; as quoted and approved) | `X402Inv`: what was presented or settled is the authorization that the row has persisted, and each stage of the worker knows the approvals behind it |
| `DelayIsTheProgrammed` | `TimeLockTold` | `DelaysInv`: an execution under way waits with the delay that the multisig had, which it still has unless the change was voided, and one in a wallet's hands has waited for as long; a change of the delay voids every earlier index, so an old reading can do no harm |
| `PaidByThePeriod` | `SchedulesKept` | `RecurringInv`: the next payment is never due before its occurrence, also after a pause, so that the last occurrence due is the one that is paid; it rests on lemmas about how many multiples of an interval have come (`CountDue`) |
| `BooksAgreeWithTables` | `AllocationsAddUp` | `BooksInv`: *BooksFit*, each posting names the row or invoice that it is of, and each sum of the ledger is one over the tables; *Fresh*, what a recorder read to be missing still is, since only its own method could have written it, so that its insertion adds one row and one posting |
| `SyncsAccount` | `SyncAccounts` | `ReadingInv`: *InStep*, from the opening balance to the cursor every receipt is booked or was skipped, and cash with what is pending is the balance at the opening and what came and went since; *HandlerFits*, what a handler has read is an older prefix of the same chain, and while nothing moved, books and payment are those of its block, so that it compares like with like |
| `CashIsTheChain` | `Books!LedgerAccountsForChain` | *Known*: the books hold, of each transaction on the chain, what it moved if it is booked, final or in the opening balance, and nothing else; only a booking changes that |
| `LedgerIsTheChain` | `LedgerAccountsForChain`: the above, and `StatementsHold` of the native asset | `MonthlyInv`: *Money*, cash with what is pending is the balance and what payments under way have spent, less receipts not booked: each posting moves both sides by what it ends; *Work*, what a transaction read when it began (a status, an opening balance at an older block) is what the chain says now less what has landed since; *Postings*, each line of cash has the counterpart that its name in a statement comes from; *Told*, a month that is over gets no further line, so a statement given out stays the one that the books would give |

The last four and the limit add up over sets that grow: `Sums_proofs` shows, for the community modules' fold
as it is defined, that a sum exists, does not depend on the order, and changes by what is added, taken
or moved. The library's induction over finite sets cannot be used (its theorem has an operator parameter), so
each of these facts is shown for a least counterexample, with the well-foundedness of the subset order.

**Console and API.**

| Theorem | States | Inductive invariant, and what it adds |
|---|---|---|
| `WorkerKeepsItsSigners` | `NoKeyLost` | `KeysInv`: after a run's report that nothing is left under the old key, no envelope is |
| `NeverLockedOut` | `AnOwnerRemains` | `OwnersInv`: a request under way was permitted to the owner who makes it |
| `OnlyTheGrantedGetIn` | `OnlyGranted` (revoked stays out; one signature per session; nobody turned away) | `TokensInv`: tokens are numbered in the order of issue and what was cut off is dead. `ProofsInv`: each stage of a trade stands for a signature over its challenge within its lifetime by the clock that checks it |
| `VaultsAreKept` | `VaultsAccountedFor` | `VaultsInv`: each request of the dialog carries the plan that was prepared and signed for, and a vault that was sent has its draft until it is recorded |
| `TabsActAsShown` | `ActsAsShown` | `BrowserInv`: a tab that is not behind shows the cookie's session or an error, is loading, or is signed out over a session that is dead or was issued late (*Current*, also of sessions that are not accepted now and may be again); and a live session that was not issued late belongs to an active member (*HeldByMembers*), whatever is done to the members |
| `PoliciesSayWhatWasSaved` (`BoundHasPolicy`) | `PoliciesKept` | `PolicyInv`: what a binding has read is the active version, and what a new version has moved is all that is bound. `EditingInv`: every version's terms are what the schema stores, and the terms of a form, sent or saved, are that form's in the decimals that all its assets share; so an amount shown is read back as the one that was stored, for any decimals |
| `SignedAsRead` | `AttestationHolds` | `WizardInv`: a submission under way carries the words that were on the screen, and a case that was opened again has no statement yet |
| `ShowsWhatIsThere` | `ShownIsCurrent` (with `CustomerPaysInvoice`) | `PageInv`: a request that was not overtaken is about the path shown, and its answer no older than the mutations heard of. `PayerInv`: what is shown, asked of a wallet and transferred is the invoice's amount and reference, and the customer has been asked for nothing, asked once, or has paid |
| `SignsThePage` | `SignsWhatThePageShows` | `FormInv`: unless somebody typed or another owner saved since, the statement page holds a draft that the API reads as the facts it stores, and a save under way carries what is on the page |
| `FormAndApiAgree` | `FormAgrees` | `AgreeInv`: what is stored has passed the schema and is trimmed and in capitals; a body under way has every required field, trimmed; the choice of an open dialog is one that it offered. With it, trimming and capitals change nothing that the rules look at |

**Left to TLC.** Everything under fairness (`EmittedEnds`, `ApprovedEnds`): the prover has no
rules for it, and neither property follows without fairness. The safety properties of
the runs that pass are all theorems.

## 6. Not modelled, and why

Encodings, hashes, fee estimates and the cryptography of signatures are data no modelled property tells
apart (a signature is who signed what). Policy versions are fixed while an intent is evaluated;
`PolicyBinding` says which one that is, and `PolicyEditor` what each says of a payment. `Authorization`
does not count attempts: any fault may be a job's last attempt, which `JobQueue` counts.
`PaymentExecution` pays from direct accounts: a Safe's own nonce and a Squads proposal's status would
prevent a second transfer even where Relay does not.

In the components that are modelled in part: expiry of tokens, roles other than owner, and a frozen
organisation (checked anew for each request); two bindings of one target at once (a unique index refuses
the second); the dialog of one vault in two tabs at once; changes of a multisig's owners and threshold,
which the domain plans and wallets then sign (`SafeTreasury`, `SquadsTreasury` and `X402Settlement` have
their effects as moves of the environment).

Left out as a whole: the HTTP API's validation (except of policies and applications) and listings, the
plans and wording of governance changes other than the time lock, cards (the code says that there is no
issuer), the relay of a wallet's transaction to a node, and the
console's lists, charts and layout. They make up most of the remaining lines and keep no state that two
steps share, so a model would restate them.

## 7. Plan

1. done: `TaskPool`, `JobQueue`; `Payment`, `PaymentExecution`; `Budget`, `Authorization`; first
   theorems.
2. done: `SquadsTreasury` with executor rotation, `SafeTreasury`, `TimeLock`, `X402Settlement` (direct
   and Safe), `Receivables`, `Statements`, `InflowSync`, `Schedules`; `SignIn`, `Challenges`, `Access`,
   `PolicyBinding`, `PolicyEditor`, `KeyRotation`, `Resource`, `Verification`, `ApplicationForm`,
   `VaultOpening`, `PayPage`; their runs.
3. done: the safety invariants of section 5, the refinements of `TaskPool`, `Payment` and `Budget`, the
   daily limit, the books, their reconciliation and the statements.
4. Composition: `Authorization`'s `Resume`, `Submit` and `Confirm` replaced by `PaymentExecution`'s handlers
   in one pipeline.
