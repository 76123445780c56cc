----------------------------- MODULE SolverBot -----------------------------
(***************************************************************************)
(* The solver bot: the main loop of packages/solver-bot/src/index.ts with  *)
(* the watcher it polls, and the executor and the SDK client through which *)
(* it fills.                                                               *)
(*                                                                         *)
(* The process is single-threaded: what happens between two awaits is one  *)
(* action, and the network, other solvers and signals act at the awaits.   *)
(* `pc' names the await the loop is at.  Every awaited call may also throw: *)
(* the exception leaves tick() and ends the cycle (index.ts:83-89).        *)
(***************************************************************************)
EXTENDS Watcher

CONSTANTS
  Verdict,     \* of each intent: fill, skip (no profit, no price), or throw
  PreSigned,   \* intents listed with the trader's authorization entry
  Environments, \* what the process may be started with, by a name
  MaxFeed,     \* bound on entries in the feed
  MaxRuns      \* bound on restarts

ASSUME BotAssumption ==
  /\ Verdict \in [Intents -> {"fill", "skip", "throw"}]
  /\ PreSigned \subseteq Intents
  /\ MaxFeed \in Nat
  /\ MaxRuns \in Nat

VARIABLES
  env,         \* the environment, the same at every restart
  config,      \* what main() made of it
  pc,          \* where the loop is suspended
  running,     \* no signal yet
  batch,       \* candidates of this cycle not handled yet
  tx,          \* the transaction in hand
  run,         \* which process this is
  sent,        \* history: how often this process sent each intent
  late         \* history: transactions sent after the signal

process == <<env, config, run>>
loop    == <<pc, running, batch, tx, process>>
history == <<sent, late>>
vars    == <<network, feed, watcher, loop, history>>

Awaits == {"poll", "feed", "next", "account", "simulate", "send", "await", "sleep"}

TypeOK ==
  /\ NetworkTypeOK
  /\ WatcherTypeOK
  /\ env \in DOMAIN Environments
  /\ config = Undefined \/ config.dryRun \in BOOLEAN
  /\ pc \in Awaits \cup {"stopped", "crashed"}
  /\ running \in BOOLEAN
  /\ batch \in Seq(Intents)
  /\ tx \in Tx
  /\ run \in 0 .. MaxRuns
  /\ sent \in [Intents -> Nat]
  /\ late \in Nat

-----------------------------------------------------------------------------
(* The process.                                                            *)

Alive == pc \in Awaits

\* Leaving tick(), normally or by an exception: what is left of the batch is
\* forgotten, though the watcher has marked all of it as seen.
EndCycle ==
  /\ pc' = IF running THEN "sleep" ELSE "stopped"
  /\ batch' = <<>>

\* Of the configuration, what the loop below reads; Undefined if there is none.
Configured ==
  LET loaded == loadConfig(Environments[env]) IN
  config = IF loaded = {} THEN Undefined
           ELSE LET c == CHOOSE c \in loaded : TRUE
                IN  [dryRun |-> c.dryRun, startLedger |-> c.startLedger,
                     intentFeedUrl |-> c.intentFeedUrl]

\* What a process starts with; main() has nothing stored to read back.  Without
\* a configuration it ends before the loop.
Starts(at, on, todo, fills, extra) ==
  /\ at = IF config = Undefined THEN "stopped" ELSE "poll"
  /\ on = TRUE /\ todo = <<>>
  /\ fills = [i \in Intents |-> 0] /\ extra = 0

\* The watcher of a process, if it gets that far.
FirstLedger == IF config = Undefined THEN Undefined ELSE config.startLedger

Init ==
  /\ env \in DOMAIN Environments
  /\ Configured
  /\ NetworkInit
  /\ feed = <<>>
  /\ Starts(pc, running, batch, sent, late)
  /\ FreshWatcher(lag, seen, logged, FirstLedger)
  /\ tx = [intent |-> CHOOSE i \in Intents : TRUE, seq |-> 0, run |-> 0, auth |-> {}]
  /\ run = 0

\* Any awaited call may throw, whatever the reason.
CallThrows ==
  /\ pc \in {"poll", "account", "simulate", "send", "await"}
  /\ EndCycle
  /\ UNCHANGED <<network, feed, watcher, running, tx, process, history>>

PollEvents ==
  /\ pc = "poll"
  /\ \/ startCursor /\ pc' = pc /\ UNCHANGED <<seen, logged>>
     \/ CursorInRange /\ pollEvents /\ pc' = "feed" /\ UNCHANGED seen
  /\ UNCHANGED <<network, feed, running, batch, tx, process, history>>

\* The RPC server does not have the cursor's ledger.
EventsRefused ==
  /\ pc = "poll"
  /\ lag # NoCursor
  /\ ~CursorInRange
  /\ EndCycle
  /\ UNCHANGED <<network, feed, watcher, running, tx, process, history>>

\* An unreachable feed counts as an empty one.
FeedFails ==
  /\ pc = "feed"
  /\ EndCycle
  /\ UNCHANGED <<network, feed, watcher, running, tx, process, history>>

PollFeed ==
  /\ pc = "feed"
  /\ LET fresh == Unseen(IF config.intentFeedUrl = Undefined THEN <<>> ELSE feed) IN
       /\ seen' = seen \cup ToSet(fresh)
       /\ IF fresh = <<>> THEN EndCycle ELSE pc' = "next" /\ batch' = fresh
  /\ UNCHANGED <<network, feed, lag, logged, running, tx, process, history>>

CycleEnds ==
  /\ pc = "next"
  /\ batch = <<>>
  /\ EndCycle
  /\ UNCHANGED <<network, feed, watcher, running, tx, process, history>>

StopsMidCycle ==
  /\ pc = "next"
  /\ batch # <<>>
  /\ ~running
  /\ EndCycle
  /\ UNCHANGED <<network, feed, watcher, running, tx, process, history>>

\* evaluateFromPrices reads the bot's clock and prices, not the chain; the
\* amount is always min_buy_amount.
Evaluate(i) == IF Verdict[i] = "fill" /\ (status[i] = "Expired" \/ config.dryRun)
                 THEN "skip" ELSE Verdict[i]

HandleHead ==                  \* mutant of Handle: the signal is not looked at
  /\ pc = "next"
  /\ batch # <<>>
  /\ LET i == Head(batch) IN
       \/ Evaluate(i) = "throw" /\ EndCycle /\ UNCHANGED tx
       \/ Evaluate(i) = "skip" /\ batch' = Tail(batch) /\ UNCHANGED <<pc, tx>>
       \/ /\ Evaluate(i) = "fill"
          /\ batch' = Tail(batch)
          /\ pc' = "account"
          /\ tx' = [tx EXCEPT !.intent = i]
  /\ UNCHANGED <<network, feed, watcher, running, process, history>>

Handle == running /\ HandleHead

-----------------------------------------------------------------------------
(* execute: prepareExecuteIntent and submitTransaction.                    *)

NextAfterInHand ==             \* mutant: counts on from the last one built
  IF tx.run = run THEN tx.seq + 1 ELSE account + 1

NextSequence == account + 1

\* getAccount, and the transaction built on its sequence number.
Build ==
  /\ pc = "account"
  /\ tx' = [tx EXCEPT !.seq = NextSequence, !.run = run, !.auth = {}]
  /\ pc' = "simulate"
  /\ UNCHANGED <<network, feed, watcher, running, batch, process, history>>

\* The authorization entries the transaction carries signed: the simulated
\* ones, of which only the solver's needs no signature, or, in their place,
\* the caller's.
withAuth(i) == IF i \in PreSigned THEN {"trader"} ELSE {"solver"}

\* simulateTransaction accepts the call, and the transaction is assembled.
Simulate ==
  /\ pc = "simulate"
  /\ status[tx.intent] = "Open"
  /\ tx' = [tx EXCEPT !.auth = withAuth(tx.intent)]
  /\ pc' = "send"
  /\ UNCHANGED <<network, feed, watcher, running, batch, process, history>>

SimulationFails ==
  /\ pc = "simulate"
  /\ status[tx.intent] # "Open"
  /\ EndCycle
  /\ UNCHANGED <<network, feed, watcher, running, tx, process, history>>

\* sendTransaction: the network takes the transaction or tells to try again
\* later, which the client does not tell apart; or the response is lost.
Send ==
  /\ pc = "send"
  /\ sent' = [sent EXCEPT ![tx.intent] = @ + 1]
  /\ late' = IF running THEN late ELSE late + 1
  /\ \/ pending' = pending \cup {[tx |-> tx, ledgers |-> TxLifetime]}
     \/ UNCHANGED pending
  /\ \/ pc' = "await" /\ UNCHANGED batch
     \/ EndCycle
  /\ UNCHANGED <<window, status, account, outcomes, feed, watcher, running, tx, process>>

Settled == \E result \in Results : [tx |-> tx, result |-> result] \in outcomes

\* poll finds the transaction applied, successfully or not.
OutcomeArrives ==
  /\ pc = "await"
  /\ Settled
  /\ pc' = "next"
  /\ UNCHANGED <<network, feed, watcher, running, batch, tx, process, history>>

WaitsForOutcome ==             \* mutant: no deadline
  /\ Settled
  /\ pc = "await"
  /\ pc' = "next"
  /\ UNCHANGED <<network, feed, watcher, running, batch, tx, process, history>>

\* poll gives up after txTimeoutMs; the transaction may still be applied.
WaitTimesOut ==
  /\ pc = "await"
  /\ pc' = "next"
  /\ UNCHANGED <<network, feed, watcher, running, batch, tx, process, history>>

Wake ==
  /\ pc = "sleep"
  /\ pc' = IF running THEN "poll" ELSE "stopped"
  /\ UNCHANGED <<network, feed, watcher, running, batch, tx, process, history>>

BotStep ==
  \/ PollEvents \/ EventsRefused \/ PollFeed \/ CycleEnds \/ StopsMidCycle \/ Handle
  \/ Build \/ Simulate \/ SimulationFails \/ Send
  \/ OutcomeArrives \/ WaitTimesOut \/ Wake

-----------------------------------------------------------------------------
(* The rest of the world.                                                  *)

Signal ==
  /\ Alive /\ running
  /\ running' = FALSE
  /\ UNCHANGED <<network, feed, watcher, pc, batch, tx, process, history>>

Crash ==
  /\ Alive
  /\ pc' = "crashed"
  /\ UNCHANGED <<network, feed, watcher, running, batch, tx, process, history>>

\* A new process remembers nothing of the old one.
Restart ==
  /\ ~Alive
  /\ run < MaxRuns
  /\ run' = run + 1
  /\ Starts(pc', running', batch', sent', late')
  /\ FreshWatcher(lag', seen', logged', FirstLedger)
  /\ UNCHANGED <<network, feed, tx, env, config>>

ChainStep ==
  /\ \/ ClosingStep /\ CursorAges
     \/ (\E i \in Intents : IntentExpires(i)) /\ UNCHANGED lag
  /\ UNCHANGED <<feed, seen, logged, loop, history>>

\* A trader publishes an intent, perhaps once more.
Publish(i) ==
  /\ Len(feed) < MaxFeed
  /\ feed' = Append(feed, i)
  /\ UNCHANGED <<network, watcher, loop, history>>

Next ==
  \/ BotStep
  \/ CallThrows \/ FeedFails
  \/ Signal \/ Crash \/ Restart
  \/ ChainStep
  \/ \E i \in Intents : Publish(i)

\* The event loop runs, awaited calls return and timers fire: the loop never
\* stays where it is for ever.  A call may always throw instead of succeeding.
Fairness == WF_vars(BotStep)

Spec == Init /\ [][Next]_vars /\ Fairness

\* Besides, ledgers close, and neither the RPC server nor the feed is
\* unreachable for ever.
ReachableSpec ==
  /\ Spec
  /\ WF_vars(ChainStep)
  /\ SF_vars(PollEvents)
  /\ SF_vars(PollFeed)

-----------------------------------------------------------------------------
\* No event is logged twice by a process, wherever the cursor stops: a poll
\* that reported something resumes after the latest ledger (watcher.ts:137-139).
EventsLoggedOnce == \A i \in Intents : logged[i] <= 1

\* "Intents already returned by a previous poll are never returned twice"
\* (watcher.ts:33), so a process never sends two fills of one intent, however
\* often the feed lists it and however the earlier attempt ended.
SentOncePerRun == \A i \in Intents : sent[i] <= 1

\* Of the bot's transactions in the mempool at most one can still be applied,
\* also after it gave up waiting for one or crashed: each was built on the
\* sequence number the account had then (client.ts:144-150), so those not yet
\* overtaken compete for the same next one.
OneFillCanApply == \A p \in pending : p.tx.seq <= account + 1

\* After a signal at most the transaction in hand is still sent, and the rest of
\* the batch is not started (index.ts:75-77).  That is not what the documents
\* say, see FinishesCycleOnSignal.
SignalStopsSubmissions == late <= 1

\* DRY_RUN keeps the bot from spending unless it clearly says no: whatever else
\* is written there, in whatever case, nothing is sent, not even by a process
\* that could not make sense of it (config.ts:93-101, executor.ts:50-56).
NeverSpendsUnasked ==
  (\E i \in Intents : sent[i] > 0)
    => \/ ~IsSet(Environments[env], "DRY_RUN")
       \/ Environments[env]["DRY_RUN"].word \in Negative

\* A signal ends the process, whatever it was waiting for (index.ts:33-39,
\* 82-96): no transaction is waited for longer than txTimeoutMs.
StopsOnSignal == ~running ~> (pc = "stopped" \/ pc = "crashed")

-----------------------------------------------------------------------------
(* What the documents say.                                                 *)

\* README.md:298: "The reference solver watches an intent feed and router
\* events through Stellar RPC".  A published intent is eventually picked up by
\* a process that is neither stopped nor crashed.
PublishedIsWatched ==
  \A i \in Intents : i \in ToSet(feed) ~> (i \in seen \/ ~running \/ pc = "crashed")

\* docs/03-end-user-guides.md:198-199: the bot "handles `SIGINT` and `SIGTERM` by
\* finishing the current cycle".  It does not leave a cycle between two of its
\* candidates.
FinishesCycleOnSignal == [][(pc = "next" /\ pc' = "stopped") => batch = <<>>]_vars

\* docs/04-developer-guide.md:178-180: with authEntries "you hand over the
\* pre-signed entry and the fill can happen while the trader is offline".  No
\* such fill is refused for want of an authorization.
PreSignedFillsSucceed ==
  \A o \in outcomes : o.tx.intent \in PreSigned => o.result # "unauthorized"
=============================================================================
