# SlipGuard in TLA+

SlipGuard settles conditional token orders on Stellar. A trader signs an
*intent* off-chain; a solver fills it by calling the router contract, which
checks the trader's terms and moves both sides in one transaction. This
directory models the contracts with their storage, the SDK's intents from the
builder to the status a client reads, the reference solver bot with its
configuration and the SDK code it runs, and the deployment script. TLC checks
the models on small instances; TLAPS proves every invariant and action property
of those models for all instances: the settlement arithmetic, the router's
safety, its books and its refinement of an abstract order book, the token's
supply and allowances, the life of an intent between a trader and the router's
storage, what the bot sends, and what a deployment records. Liveness is left to
TLC. Five runs end in a counterexample to something the documentation or a
comment says; section 3 lists them.

`tlc -config X.cfg MC….tla` runs a configuration, `tlapm …Proofs.tla` a proof
module. `PROJECT.json` lists the runs, the mutants that show each property can
fail, and the source lines each definition models. Operators commented
*mutant* are those faulty variants; no specification uses them.

## 1. The system

| Part | State | Operations | Talks to |
| --- | --- | --- | --- |
| Router, `contracts/router` | status and receipt by intent hash, used `(trader, nonce)` pairs, each live until some ledger; admin | `execute_intent`, `cancel_intent`, `get_intent_hash`, `init`, getters | the two tokens of an intent, the host (authorization, clock, rollback) |
| Mock token, `contracts/mock_token` | balances, allowances with an expiration ledger, admin | `initialize`, `mint`, `approve`, `transfer`, `transfer_from`, `burn`, `burn_from` | called by the router, by tests, by the deployment |
| SDK, `packages/sdk` | a builder's fields; a client has no state | builds, validates, encodes and hashes intents; prepares, signs, sends and polls transactions | RPC server |
| Solver bot, `packages/solver-bot` | event cursor, set of seen hashes, the batch in hand, the running flag | poll events and feed, evaluate, execute, stop on a signal | RPC server, intent feed, SDK client |
| `scripts/deploy.sh` | ids so far, the output file | deploy, initialize, seed, record | Stellar CLI |
| `scripts/create-stellar-backlog.sh`, CI, docs | none at run time | | |

What is hard here, by component, with the properties that answer it (every
hazard is listed at its line in `PROJECT.json`):

- **Router.** A transaction is atomic, but a token is foreign code and may call
  back from inside a transfer; four transfers may each fail after the status is
  written; orders share nonces; a signed entry is a licence that outlives the
  moment it was given. Correct means: an order settles once
  (`NonceSettlesOnce`, `NoDoubleFillInFlight`), on its terms
  (`ReceiptsWithinTerms`), paid on both sides (`BalancesFollowReceipts`), signed
  by both parties (`FillSpendsBothSignatures`), with status, receipts and events
  in agreement (`ReceiptsMatchStatus`, `EventsMatchStatus`).
- **Arithmetic.** Two floored divisions and a width; in the bot two rounded
  prices besides. Correct means the floors never cost the trader a basis point
  beyond the tolerance (`ShortfallWithinOneBp`), never refuse a fair fill
  (`FeeWithinToleranceFills`, `DeliveringMoreNeverHurts`), and are the same in the
  bot and in the contract (`MirrorsRouter`), and that the bot does not fill at a
  loss (`ProfitWithinPriceRounding`).
- **Mock token.** Self-transfer, overflow, grants that expire and are renewed.
  Correct means that what is held is what was issued (`SupplyIsIssued`), and that
  a spender takes only what a live grant has left (`OnlyOwnerOrGrantTakes`,
  `DrawnWithinGrant`).
- **Storage.** Every entry has a life of its own, extended by writes and by some
  reads; archived entries must be restored and never read as absent. Correct
  means: no nonce settles twice (`KeySettledOnce`), no answer is taken back
  (`ToldIsFinal`), and a settlement stays live for the 30 days the code chose
  (`SettlementOutlivesThreshold`).
- **SDK intents.** Setters that may throw halfway, builders that are built from
  again, defaults taken from a clock, two validations in two languages, bigints
  in JSON. Correct means: amounts belong together (`AmountsBelongTogether`),
  a builder does not keep the nonce it made up (`SharedNonceSameInstant`), what
  the SDK accepts the router accepts (`BuiltIsFillable`), and the feed carries an
  intent without changing its hash (`FeedReturnsWhatWasBuilt`).
- **Bot.** One thread with many awaits. Between any two of them rivals settle,
  deadlines pass, ledgers leave the RPC server's window, signals arrive,
  responses get lost; a restarted process has forgotten everything while its
  last transaction may still be pending. Its environment may be
  malformed. Correct means: no intent is sent twice by a process
  (`SentOncePerRun`), of all fills in the mempool one can apply
  (`OneFillCanApply`), a signal stops it soon and for good
  (`SignalStopsSubmissions`, `StopsOnSignal`), and a `DRY_RUN` that does not
  clearly say no keeps it from spending (`NeverSpendsUnasked`).
- **Deployment.** A sequence of independent transactions that fails half-way
  and is run again, among other people's. Correct means that a deployment is
  recorded only if it can be used (`RecordedIsConfigured`), and that a dry run is
  one (`DryRunTouchesNothing`).

## 2. The modules

| Module | Models | Uses |
| --- | --- | --- |
| `I128` | the width of amounts | |
| `SlipMath` | fee, shortfall and every rejection of `execute_intent` that depends on the terms (`lib.rs` 167-214, 283-287) | `I128` |
| `Evaluator` | `evaluator.ts`: guard rails, market value, profit | |
| `Quote` | an intent being quoted: offers rise, the two clocks tick, both judges are asked | `SlipMath`, `Evaluator` |
| `TokenLedger` | `move_balance` | `I128` |
| `Router` | the router with its call stack | `SlipMath`, `TokenLedger` |
| `RouterProperties` | what it promises, and the refinement mapping | `Router`, `IntentLifecycle` |
| `IntentLifecycle` | abstract order book | |
| `MockToken` | the mock token contract | `TokenLedger` |
| `Intent` | `intent.ts`: validation, encoding and hash, JSON | `SlipMath` |
| `IntentBuilder` | the builder of `intent.ts` under a running clock | `Intent` |
| `Storage` | `storage.rs`: entries and their lives | |
| `TraderDesk` | a trader's program, the feed, settlements and the client's reads | `IntentBuilder`, `Storage` |
| `Network` | external: chain, mempool, RPC retention, rival solvers | |
| `Config` | `config.ts` and `parseLogLevel` of `logger.ts` | |
| `Watcher` | `watcher.ts` | `Network`, `Config` |
| `SolverBot` | `index.ts`, `executor.ts` and `client.ts` around the watcher | `Watcher` |
| `Deployment` | `deploy.sh` with `init` and `initialize` | |
| `SlipMathProofs`, `QuoteProofs`, `RouterProofs`, `MockTokenProofs`, `TraderDeskProofs`, `SolverBotProofs`, `DeploymentProofs` | the proofs | `FoldTheorems` |
| `FoldTheorems` | folds and sums over finite sets, for the proofs | |
| `MC*` | instances for TLC | |

### How the models correspond to the code

*Router.* `ledger` is the state a failing call undoes: the storage entries, the
honest tokens' balances, the events, and the signed authorization entries in
circulation. One action is one stretch of code without a foreign call in it:
`execute_intent` runs from the entry to the first transfer (`lib.rs` 158-224),
`TransferReturns` and `TransferFails` are the four transfers (226-239), and
`execute_intent_returns` the receipt and the event (241-259). `cancel_intent`
makes no foreign call and is one action. `stack` holds the calls in progress.
A token is honest (it behaves as the mock token does) or hostile (inside a
transfer it may return, panic, or call the router any number of times). A frame
remembers the ledger of its beginning; a failing frame restores it, and
`TransactionAborts` restores the outermost. Between transactions `stack` is
empty, and only then do accounts sign, entries expire and ledgers close.
`HostAllowsReentry` is FALSE on Soroban, whose host refuses re-entrance; the
comment at `lib.rs` 149-151 claims safety from the order of effects alone, so
the instance with TRUE checks exactly that. `fillAuths` and `cancelAuths` count
how often each party has signed each call: an entry has a nonce of its own on
Soroban, so the same call may be signed again while an earlier entry of it is in
circulation, and a call spends one of each party. A hostile token can therefore
bring a valid authorization for the very order that is being filled. The SHA-256 of the canonical
encoding is an injective function, which the assumption `HashAssumption` states.

*Quotes.* Prices are configured in a unit `PriceUnit` times finer than the one
`evaluator.ts` 170-171 rounds them to (`Scaled`), so that rounding takes place.
The floating-point error of the multiplication before it is left out.

*Bot.* `pc` is the await at which the single thread is suspended: `poll`
(`getLatestLedger` or `getEvents`), `feed` (`fetch`), `next` (between two
candidates), `account`, `simulate`, `send`, `await` (polling for the outcome)
and `sleep`. Every await may throw (`CallThrows`), which ends the cycle and
drops the batch. The cursor is kept as its distance from the latest ledger, so
the chain need not be numbered and can go on for ever; `window` holds the events
of the ledgers the RPC server retains. A transaction carries the sequence number
the account had when it was built and the set of parties whose entries it
carries. An applied transaction ends in one of four ways (`Results`): it settles
the order, lacks an authorization, came too late, or fails for another reason (a
balance, an entry past its expiration ledger, an archived footprint, resources),
which is always possible. `Excuses` is what the host may do about a source
account without an authorization entry: {FALSE}, refuse it, is Soroban. The run
`bot` leaves it open transaction by transaction: on Soroban alone no fill of the
bot ever succeeds, which `bot_presigned` shows of pre-signed ones and
`BotNeverAuthorized` proves of all, and nothing that follows a successful fill
would be explored. No property of that run speaks of how a transaction ends.

`env` is an operator's choice made once and kept across restarts;
`loadConfig` reads it at each start. A reader of `config.ts` is the set of what
it may return: one value, or none where the code throws, and then the process
stops before its first poll. A missing variable reads as `Undefined`, a number
that is not one is `NaN`, which `START_LEDGER` may pass on: the event cursor then
is one that the RPC server always refuses.

*Intents.* `builder` holds the fields that were set. A setter that throws before
it assigns anything is no step; `setAmounts` assigns the first amount before it
converts the second, and `torn` remembers that it did; `given` remembers that
`setNonce` was called. What `build()` leaves of the builder is `LeftBehind`. The JSON of an intent
keeps of each field whether it is written as a string or as a numeral, because a
numeral is read back as a double. An operator that throws in TypeScript is here
a predicate that says when it does not (`toBigInt`, `validateIntent`,
`Encodable`).

*Storage.* An entry is its value and the last ledger at which it is live. Each
setter writes and extends, as in `storage.rs`; a read inside a transaction is
the set of what it may find, empty while the entry is archived, because the host
refuses such a transaction until the entry is restored; a simulation answers as
if it were restored. Both are the host's doing, not in this repository, and are
marked external in the map; that the entries are of the kind the host keeps is
the code's choice (`Retained`: every function says `persistent()`). `MinTtl`, what the network gives a new or restored
entry, is a parameter without an upper or lower limit. In `TraderDesk` a whole
transaction is one step, since the module `Router` shows what happens inside;
`settled` and `told` are histories, read by properties only (and by the bound
`MaxKeys`).

*Deployment.* `todo` is what is left of the script. Each command may succeed,
fail, or fail after it was applied; `set -e` is `StopsAt`. Anybody may
initialize a contract before the script does (`OtherInits`): `init` asks for the
authorization of whatever admin it is given.

*Abstractions.* Addresses, hashes, tokens and intents are values; messages carry
what the properties distinguish. Wording, logging and metadata are
left out. Rejections are guards: a rejected call changes nothing.

## 3. The runs

| Run | Shows | Instance, and why it is enough |
| --- | --- | --- |
| `quote` | tolerance to within a basis point, agreement of the two judges, profits up to the rounding of prices, monotone acceptance | 420 sets of terms with amounts around zero and around 10,000, where a basis point is about a unit, and bps at and beyond every limit; both clocks before, at and after the deadline; prices with a remainder, missing, and rounding to zero |
| `router_reentry` | replay guard, coherence of status, receipts, events and balances, refinement of `IntentLifecycle` | three orders, two on one nonce, two involving a hostile token; six entries in circulation, enough for both parties to sign the same order twice and another one besides; two clock values. Calls nest two deep: a third one would have to spend a third nonce, so the attempts at it, which `MaxDepth` 3 allows, are all refused by the router |
| `router_host` | terms, payment and signatures with competition | two solvers, two amounts, an order whose fee exceeds its tolerance at the minimum, one selling what it buys, two on one nonce, balances that cannot fund everything |
| `token` | supply, grants, who may take | two holders, each the other's spender, balances of at most 2, three ledgers |
| `bot` | one fill that can apply, no resubmission, signals, termination, no spending unasked | three intents of which one throws and one is contested, a feed of two, events limited to one a poll, two retained ledgers, one restart; seven environments: with a feed and without, `DRY_RUN` a yes and a word that is neither yes nor no, a start ledger with `DRY_RUN` a no, a start ledger that is no number, and a price of zero |
| `trader` | amounts, nonces, agreement of SDK and router, lossless feed; replay guard and final answers through archival; life of a settlement | amounts that convert, differ and throw; nonces that clash with the clock or fit no u64; bps above their limit; numbers no double holds, the sum a deadline is made of among them (`MAX_SAFE_INTEGER` 4, `MAX_U64` 7); two intents, so that two may share a nonce, built over the two seconds of a clock of `MsPerSecond` 2; five ledgers with a threshold of 1, an extension of 2 and `MinTtl` 0, so that entries of one settlement archive at different ledgers. `MaxKeys` is 1: entries of different keys never meet |
| `deploy` | recorded means configured; dry runs are dry | two runs in any mode, enough ids for two complete ones |

Five runs end in a counterexample to something the documentation or a comment
says. Each has the instance of the passing run of its module, or a smaller one:

- `quote_over_delivery`: delivering more than the minimum *can* trip the
  tolerance check, when the fee takes more than the surplus
  (docs/02-protocol-mechanics.md:149).
- `quote_bot_mirror`: the evaluator accepts fills that overflow in the router
  (`evaluator.ts` 63-64, docs/03-end-user-guides.md:138).
- `bot_deaf`: after a quiet spell longer than the RPC server's retention the
  event cursor is refused at every poll, and the feed, polled after the events,
  is never read again (README.md:298).
- `bot_signal`: a signal between two candidates ends the process with the rest
  of the cycle undone, while the bot is said to finish "the current cycle"
  (docs/03-end-user-guides.md:198-199). `SignalStopsSubmissions` is what the code
  does instead (`index.ts` 75-77).
- `bot_presigned`: the trader's entry replaces the solver's instead of joining
  it (docs/04-developer-guide.md:178-180).

Met on the way, and stated by no run:

- `lib.rs` 92-93 says that since "the admin authorizes the call" the deployment
  "cannot be front-run by an unrelated party". The admin that authorizes `init` is
  the one the caller names, and `deploy.sh` creates the router (174) and calls
  `init` (178) in two transactions, so anybody may initialize the router in
  between: `OtherInits` does. The script's own `init` then fails and nothing is
  recorded, which is what `RecordedIsConfigured` shows; that router is somebody
  else's for good. No settlement reads the admin.
- README.md:298 has the bot check that a fill is profitable. `evaluator.ts`
  170-171 rounds prices to whole units of `PRICE_SCALE`, so for a token priced
  near that unit a loss at the configured prices passes for a profit: a buy price
  of 1.4e-6 counts as 1e-6. `ProfitWithinPriceRounding` is what the bot can rely
  on.
- docs/03-end-user-guides.md:133-142 describes the check each intent gets; an
  exception while one candidate is handled makes the process forget the ones
  behind it (`EndCycle`), all marked as seen.

Also: docs/05-architecture.md:46-50 has tokens deployed before the router and
`init` before any other call, "enforced" by `deploy.sh`, while the script
deploys the router first (172-178) and the router fills without an admin;
docs/04-developer-guide.md:214 has `loadConfig` throw on anything malformed,
while `START_LEDGER` may become NaN and `MAX_FEE_STROOPS` and `LOG_LEVEL` are
not validated; docs/05-architecture.md:96 has the bot ask `get_intent_status`
before it fills, which it never does; an intent with a nonce or an amount too
wide for the contract passes the SDK's validation and fails only when it is
encoded; and an intent whose nonce another one spent stays `Active` for every
reader.

**Deadlock.** Checked in the router, token and bot runs: time and signing, the
token's own calls, and the chain always go on. Not checked in `quote`, where
offers and clocks are bounded, in `deploy`, where runs and ids are, nor in
`trader`, where the clock and the ledger are.

**Bounds.** All are constants: `MaxTime`, `MaxDepth`, `MaxSigned` (router),
`MaxSequence` (token), `Contended`, `MaxFeed`, `MaxRuns` (bot), `Fresh`,
`MaxRuns` (deployment), `MaxMs`, `MaxBuilt`, `MaxKeys`, `MaxLedger` (trader's
desk, where building stops with publication and ledgers close only afterwards:
neither half reads what the other changes then). `MAX_I128` is small enough that overflow happens among
the amounts explored in `quote_bot_mirror` and `token`. Symmetry is not used:
the liveness and refinement properties would not survive it.

**Fairness.** `SolverBot` assumes weak fairness of the bot's own steps: awaited
calls return or throw and timers fire, which Node's event loop and the polling
deadline of `client.ts` 178-179 give. That is all `StopsOnSignal` needs.
`bot_deaf` assumes more, which can only make its counterexample stronger:
ledgers keep closing, and the RPC server and the feed are not unreachable for
ever (strong fairness of the two polls). The other modules state safety only.

## 4. The proofs

*Arithmetic* (`SlipMathProofs`). From the division bounds
`d * (a \div d) <= a < d * (a \div d + 1)`: the fee is between 0 and the amount;
an accepted fill leaves the trader short by less than one basis point more than
the tolerance; a fee within the tolerance always fills at the minimum;
acceptance is monotone in the amount. Assumptions: the denominator is a positive
natural number, amounts are integers. `QuoteProofs` lifts these to the
specification and adds that the bot's verdict equals the router's and that a
profit is one at prices within half a unit of the configured ones, whatever the
unit (`ScaledBounds`).

*Router* (`RouterProofs`). For every set of intents, tokens, solvers, amounts and
balances, every nesting depth, and with or without re-entrance: types, replay
guard, no two executions in flight on one nonce, receipts within the terms, and
receipts exactly for the filled orders. `NonceSettlesOnce` alone is not
inductive. A failing frame restores an *older* ledger, so whatever holds of the
current ledger must hold of every saved one; and while a call is in progress its
order is Filled without a receipt, so what holds between transactions must be
weakened by the calls on the stack. The invariant `IInv` therefore
says of the current ledger and of the one each frame saved that it is `Coherent`
(a settled order has spent its nonce, no nonce settles two orders, receipts are
within the terms); that the calls below it are `InProgress` there (each has spent
its nonce, and an order is Filled exactly if it has a receipt or one of them is
settling it); and of each frame that its call still satisfies what it was let in
for and found its nonce unspent (`FrameInv`). Each action has a lemma; actions
that leave the settlements alone share one. Assumptions: those of the module,
notably that hashes are injective.

What a transaction does as a whole, `FillSpendsBothSignatures` and the refinement
`ImplementsLifecycle`, cannot be read off its last step, which only pops the
stack. `SinceInv` (`RouterTransaction`) therefore compares the ledger with the one
the outermost call started from: nothing was signed since, what was settled then
is as it was, every new receipt is of a fill acceptable now whose two entries
were in circulation then and are gone, and so are those of every call in
progress. When the last frame returns, that is what happened between two states
of the abstract order book: `RouterImplementsLifecycle` maps the outermost steps
to steps of `IntentLifecycle` and all the others to stutters.

The books (`BooksInv`, theorem `RouterBooks`) say of every ledger, saved or
current, that it is `Audited`: each balance of an honest token is the initial one,
plus what the receipts say, plus the legs that calls in progress have paid
(`InMotion`); and every receipt and every cancellation has one event of its own
(`EventsAgree`). `BalancesFollowReceipts` and `EventsMatchStatus` are the case of an empty
stack. A transfer changes a sum at one place (`SumChange`). Sums and folds over sets are
the subject of `FoldTheorems`: that the community modules' recursive function
exists is shown there by a smallest set for which it would not, since the
library's induction theorems have an operator as parameter. Orders need not be
finite in number: a ledger holds the receipts of finitely many, which `Audited`
says too.

*Mock token* (`MockTokenProofs`). For every set of holders, grants and amounts
and every width: types, so a balance always fits; a spender draws no more than
one approval granted; a balance falls only by its owner's call or on a live
grant, of which exactly that much less is left; and the balances add up to what was issued (`SupplyIsIssued`), also when
somebody transfers to himself. `DrawnWithinGrant` reads `allowance`, which the
ledger sequence changes; the induction is on what is *stored* of a grant
(`StoredWithinGrant`), which only calls change. Assumptions: the amounts fit the
width, and holders are finite in number.

*Builder* (`TraderDeskProofs`, first part). For every program, clock and set of inputs.
`AmountsBelongTogether` speaks of what was built; what it rests on is a property
of the builder between two calls: unless the last `setAmounts` threw halfway,
both amounts are there or neither, and together they are a pair that was passed.
`BuildInv` joins that to what holds of an intent from the moment it is returned
(all fields, integers where the code has bigints, validated, its nonce the
clock's unless `setNonce` was called), and a builder without a call of `setNonce`
has no nonce, however often it was built from. `BuiltIsFillable` then follows from `FeeWithinTolerance`.
`FeedReturnsWhatWasBuilt` needs that every numeric field is a double
(`DoublesHeld`): JavaScript's numbers are, and the deadline is a sum that was
rounded when it was set, so that reading its numeral back rounds nothing.
Assumptions: nonces are integers, what goes to `setAmounts` are pairs, and what
is passed as a number is one that a double holds.

*Trader's desk* (`TraderDeskProofs`). For every threshold, extension and `MinTtl`
with TTL_THRESHOLD <= TTL_EXTEND_TO, any number of intents and keys. None of the three storage
properties is inductive: a nonce is safe because its entry is *there*, live or
not. `DeskInv` adds that the entries of every settlement exist, that a status
entry holds a final status and a nonce entry TRUE, and that whatever the client
was told has an entry. An intent that is open then has neither entry
(`OpenFacts`), so a settlement writes two new ones and disturbs no older one;
every other step keeps all entries, their lives and all values but receipts'
(`Kept`). `DeskTyped` follows from both invariants. `DeskPublishedFillable` carries
the builder's properties through the feed: what a solver reads is what was signed,
and the router accepts its terms.

*Bot* (`SolverBotProofs`). For every set of intents, every environment, feed and
number of restarts. `OneFillCanApply` needs the transaction in hand beside those
in the mempool (`SequenceInv`); `SignalStopsSubmissions` that nothing is in hand
once one was sent after the signal (`SignalInv`); `NeverSpendsUnasked` that a
process without a configuration awaits nothing and one that fills was told no
(`AskedInv`), which rests on what a record of `loadConfig` may say
(`ConfigSaysNo`). `BotNeverAuthorized`, for a host that excuses nobody, follows
from `AuthInv`: what is sent carries the simulated entries, of which the trader's
is unsigned, or the trader's in their place, and the router asks for both.

`SentOncePerRun` needs to know where an intent may be (`HandInv`): sent, in hand,
or in the batch once, never in two of these, and in all three cases in the set of
seen hashes. What feeds the batch is a fold over the entries of a response
(`Unseen`), of which `UnseenNew` shows that it returns only hashes not seen
before, each once, even if the response repeats them. `EventsLoggedOnce` relates
the cursor to the RPC server's window (`LoggedInv`): all that was logged is of
ledgers behind the cursor, and an intent that is settled has no other event to
come. Assumption: there is an intent.

*Deployment* (`DeploymentProofs`). For any number of contracts, accounts and runs
a dry run changes nothing, a property of single steps. `RecordedIsConfigured` is about the whole script, whose state is the list of
commands left. Its invariant `DeploymentInv` orders the commands of each mode
(`Rank`, `PlanOrdered`) and says that whatever ranks below the next command of
the plan has been done and still is (`PlanInv`): the ids are known, the contracts
deployed and their admins the run's own, because a command that meets a stranger's
admin stops the script. A command that is applied and then reported as failed
undoes nothing of it, and no admin is replaced, because of `init`'s guard
(`ChainKept`). What a file records stays so (`FileInv`),
since nothing on chain is undone. The assumptions, all the module's: asset
contracts have ids of their own, apart from the ones the script deploys, and a
missing id or file is told from a real one.

**Only model-checked**: `StopsOnSignal`, which is liveness under fairness and so
out of the prover's reach. The theorems rest on the host's rules as `Router`,
`Storage` and `Network` state them, which nothing here can prove.

## 5. Not modelled

- The life of the router's instance entry (the admin) and of the token's
  entries: nothing they hold changes what a settlement does, and a contract
  whose instance is archived is restored before it runs.
- The client's `getIntentHash`, which computes what `hashIntent` does; that the
  two encodings are byte for byte the same is taken for granted. The order in
  which the SDK's validations are tried, and their messages.
- The trader's side of a cancellation that is polled for longer than the intent
  is valid: the desk takes a transaction as one step, the polling of `client.ts`
  is modelled for the bot.
- The growth of the watcher's set of seen hashes, a memory limit.
- The logger but for its level; token metadata; the script's tool checks and CLI
  aliases; the backlog script and CI.

## 6. Plan

1. *Done*: arithmetic and its two judges; router with re-entrance, abstract
   order book; token; bot with network and configuration; deployment; storage
   lives, builder and the trader's desk; proofs of the arithmetic, of the
   router's safety, books and refinement, of the token's supply and allowances, of
   the builder, of the desk, of the bot's safety and of the deployment.
2. *To come*: for the watcher an abstract specification that hands each open
   intent out once, shown to be implemented by the poll of the feed.
