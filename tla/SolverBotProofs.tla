-------------------------- MODULE SolverBotProofs --------------------------
(***************************************************************************)
(* What holds of the solver bot for any intents, environments, feeds and   *)
(* number of restarts: its types, its transactions, its signal, its dry    *)
(* run, and what a process does only once.                                 *)
(***************************************************************************)
EXTENDS SolverBot, FoldTheorems, SequenceTheorems

-----------------------------------------------------------------------------
(* The parts of the inductive invariant.                                   *)

Filling == {"account", "simulate", "send"}

Tagged(t) == t = [intent |-> t.intent, seq |-> t.seq, run |-> t.run, auth |-> t.auth]

\* No transaction is built on a sequence number the account has not reached.
SequenceInv ==
  /\ account \in Nat
  /\ Tagged(tx)
  /\ pc \in {"simulate", "send"} => tx.seq \in Nat /\ tx.seq <= account + 1
  /\ \A p \in pending :
       /\ p = [tx |-> p.tx, ledgers |-> p.ledgers]
       /\ p.tx.seq \in Nat /\ p.tx.seq <= account + 1

\* What is sent carries the entries withAuth left on it.
AuthInv ==
  /\ pc = "send" => tx.auth = withAuth(tx.intent)
  /\ \A p \in pending : p.tx.auth = withAuth(p.tx.intent)

\* A transaction in hand is the only one a signal lets through.
SignalInv ==
  /\ late \in {0, 1}
  /\ running => late = 0
  /\ late = 1 => pc \notin Filling

SaysNo ==
  \/ ~IsSet(Environments[env], "DRY_RUN")
  \/ Environments[env]["DRY_RUN"].word \in Negative

\* A process that fills has a configuration, and it is not a dry run.
AskedInv ==
  /\ config = Undefined => pc \notin Awaits
  /\ config # Undefined /\ ~config.dryRun => SaysNo
  /\ pc \in Filling => SaysNo
  /\ \A i \in Intents : sent[i] > 0 => SaysNo

NothingAuthorized == \A o \in outcomes : o.result = "unauthorized"

-----------------------------------------------------------------------------
(* Sequence numbers.                                                       *)

\* A ledger that closes keeps what it does not apply.
LEMMA ClosesFacts ==
  ASSUME NEW settled, NEW waiting, Closes(settled, waiting),
         \A p \in waiting : p = [tx |-> p.tx, ledgers |-> p.ledgers]
  PROVE  \A q \in pending' :
           /\ q = [tx |-> q.tx, ledgers |-> q.ledgers]
           /\ \E p \in waiting : q.tx = p.tx /\ p.ledgers > 1 /\ q.ledgers = p.ledgers - 1
<1> SUFFICES ASSUME NEW q \in pending'
             PROVE  /\ q = [tx |-> q.tx, ledgers |-> q.ledgers]
                    /\ \E p \in waiting :
                         q.tx = p.tx /\ p.ledgers > 1 /\ q.ledgers = p.ledgers - 1
  OBVIOUS
<1>1. PICK p \in waiting : p.ledgers > 1 /\ q = [p EXCEPT !.ledgers = @ - 1]
  BY DEF Closes
<1>2. p = [tx |-> p.tx, ledgers |-> p.ledgers]
  OBVIOUS
<1>3. q = [tx |-> p.tx, ledgers |-> p.ledgers - 1]
  BY <1>1, <1>2
<1>4. QED
  BY <1>1, <1>3

LEMMA SequenceChain ==
  ASSUME SequenceInv, ChainStep
  PROVE  SequenceInv'
<1>1. UNCHANGED <<pc, tx>>
  BY DEF ChainStep, loop
<1>2. \A p \in pending : p = [tx |-> p.tx, ledgers |-> p.ledgers]
  BY DEF SequenceInv
<1>3. ASSUME NEW settled, Closes(settled, pending), account' = account
      PROVE  SequenceInv'
  <2>1. \A q \in pending' : /\ q = [tx |-> q.tx, ledgers |-> q.ledgers]
                            /\ \E p \in pending : q.tx = p.tx
    BY <1>2, <1>3, ClosesFacts
  <2>2. QED
    BY <1>1, <1>3, <2>1 DEF SequenceInv, Tagged
<1>4. ASSUME NEW p \in pending, Applies(p) PROVE SequenceInv'
  <2>1. account' = account + 1 /\ account \in Nat
    BY <1>4 DEF Applies, SequenceInv
  <2>2. \E settled : Closes(settled, pending \ {p})
    BY <1>4 DEF Applies
  <2>3. \A q \in pending \ {p} : q = [tx |-> q.tx, ledgers |-> q.ledgers]
    BY <1>2
  <2>4. \A q \in pending' : /\ q = [tx |-> q.tx, ledgers |-> q.ledgers]
                            /\ \E r \in pending \ {p} : q.tx = r.tx
    BY <2>2, <2>3, ClosesFacts
  <2>5. QED
    BY <1>1, <2>1, <2>4 DEF SequenceInv, Tagged
<1>5. ASSUME NEW i \in Intents, IntentExpires(i) PROVE SequenceInv'
  BY <1>1, <1>5 DEF IntentExpires, SequenceInv, Tagged
<1>6. QED
  BY <1>3, <1>4, <1>5 DEF ChainStep, ClosingStep, LedgerCloses, RivalSettles

LEMMA SequenceStep == SequenceInv /\ [Next]_vars => SequenceInv'
<1> SUFFICES ASSUME SequenceInv, [Next]_vars PROVE SequenceInv'
  OBVIOUS
<1>1. ASSUME UNCHANGED <<network, tx>>, pc' \notin {"simulate", "send"} \/ pc' = pc
      PROVE  SequenceInv'
  BY <1>1 DEF SequenceInv, Tagged, network
<1>2. CASE Handle
  <2>1. Tagged(tx') /\ UNCHANGED network /\ pc' \notin {"simulate", "send"}
    BY <1>2 DEF Handle, HandleHead, SequenceInv, Tagged, EndCycle
  <2>2. QED
    BY <2>1 DEF SequenceInv, network, Tagged
<1>3. CASE Build
  <2>1. /\ tx' = [intent |-> tx.intent, seq |-> account + 1, run |-> run, auth |-> {}]
        /\ UNCHANGED network
    BY <1>3 DEF Build, SequenceInv, Tagged, NextSequence
  <2>2. QED
    BY <2>1 DEF SequenceInv, network, Tagged
<1>4. CASE Simulate
  <2>1. /\ tx' = [intent |-> tx.intent, seq |-> tx.seq, run |-> tx.run,
                 auth |-> withAuth(tx.intent)]
        /\ UNCHANGED network /\ pc = "simulate"
    BY <1>4 DEF Simulate, SequenceInv, Tagged
  <2>2. QED
    BY <2>1 DEF SequenceInv, network, Tagged
<1>5. CASE Send
  <2>1. /\ \A p \in pending' : p \in pending \/ p = [tx |-> tx, ledgers |-> TxLifetime]
        /\ UNCHANGED <<tx, account>> /\ pc = "send" /\ pc' \notin {"simulate", "send"}
    BY <1>5 DEF Send, EndCycle
  <2>2. QED
    BY <2>1 DEF SequenceInv, Tagged
<1>6. CASE ChainStep
  BY <1>6, SequenceChain
<1>7. CASE Restart
  <2>1. UNCHANGED <<network, tx>> /\ pc' \in {"stopped", "poll"}
    BY <1>7 DEF Restart, Starts
  <2>2. QED
    BY <1>1, <2>1
<1>8. CASE \/ PollEvents \/ EventsRefused \/ PollFeed \/ CycleEnds \/ StopsMidCycle
           \/ SimulationFails \/ OutcomeArrives \/ WaitTimesOut \/ Wake
           \/ CallThrows \/ FeedFails \/ Signal \/ Crash \/ (\E i \in Intents : Publish(i))
  <2>1. UNCHANGED <<network, tx>>
    BY <1>8 DEF PollEvents, EventsRefused, PollFeed, CycleEnds, StopsMidCycle,
                SimulationFails, OutcomeArrives, WaitTimesOut, Wake, CallThrows,
                FeedFails, Signal, Crash, Publish, loop
  <2>2. pc' \notin {"simulate", "send"} \/ pc' = pc
    BY <1>8 DEF PollEvents, EventsRefused, PollFeed, CycleEnds, StopsMidCycle,
                SimulationFails, OutcomeArrives, WaitTimesOut, Wake, CallThrows,
                FeedFails, Signal, Crash, Publish, loop, EndCycle
  <2>3. QED
    BY <1>1, <2>1, <2>2
<1>9. CASE UNCHANGED vars
  BY <1>1, <1>9 DEF vars, loop
<1>10. QED
  BY <1>2, <1>3, <1>4, <1>5, <1>6, <1>7, <1>8, <1>9 DEF Next, BotStep

-----------------------------------------------------------------------------
(* Authorization entries.                                                  *)

LEMMA AuthStep == SequenceInv /\ AuthInv /\ [Next]_vars => AuthInv'
<1> SUFFICES ASSUME SequenceInv, AuthInv, [Next]_vars PROVE AuthInv'
  OBVIOUS
<1>1. ASSUME UNCHANGED <<pending, tx>>, pc' # "send" \/ pc' = pc
      PROVE  AuthInv'
  BY <1>1 DEF AuthInv, withAuth
<1>2. CASE Simulate
  <2>1. /\ tx' = [intent |-> tx.intent, seq |-> tx.seq, run |-> tx.run,
                 auth |-> withAuth(tx.intent)]
        /\ UNCHANGED pending
    BY <1>2 DEF Simulate, SequenceInv, Tagged, network
  <2>2. QED
    BY <2>1 DEF AuthInv, withAuth
<1>3. CASE Send
  <2>1. /\ \A p \in pending' : p \in pending \/ p = [tx |-> tx, ledgers |-> TxLifetime]
        /\ UNCHANGED tx /\ pc = "send" /\ pc' # "send"
    BY <1>3 DEF Send, EndCycle
  <2>2. QED
    BY <2>1 DEF AuthInv, withAuth
<1>4. CASE ChainStep
  <2>1. UNCHANGED <<pc, tx>>
    BY <1>4 DEF ChainStep, loop
  <2>2. \A p \in pending : p = [tx |-> p.tx, ledgers |-> p.ledgers]
    BY DEF SequenceInv
  <2>3. ASSUME NEW settled, NEW waiting \in SUBSET pending, Closes(settled, waiting)
        PROVE  AuthInv'
    <3>1. \A p \in waiting : p = [tx |-> p.tx, ledgers |-> p.ledgers]
      BY <2>2
    <3>2. \A q \in pending' : \E p \in waiting : q.tx = p.tx
      BY <2>3, <3>1, ClosesFacts
    <3>3. QED
      BY <2>1, <3>2 DEF AuthInv, withAuth
  <2>4. CASE \E i \in Intents : IntentExpires(i)
    BY <1>1, <2>1, <2>4 DEF IntentExpires
  <2>5. CASE ClosingStep
    <3>1. \E settled : \E waiting \in SUBSET pending : Closes(settled, waiting)
      <4>1. ASSUME NEW settled, Closes(settled, pending)
            PROVE  \E waiting \in SUBSET pending : Closes(settled, waiting)
        BY <4>1
      <4>2. ASSUME NEW p, NEW settled, Closes(settled, pending \ {p})
            PROVE  \E waiting \in SUBSET pending : Closes(settled, waiting)
        <5>1. pending \ {p} \in SUBSET pending
          OBVIOUS
        <5>2. QED
          BY <4>2, <5>1
      <4>3. LedgerCloses => Closes({}, pending)
        BY DEF LedgerCloses
      <4>4. \A i : RivalSettles(i) => Closes({i}, pending)
        BY DEF RivalSettles
      <4>5. \A p : Applies(p) => \E settled : Closes(settled, pending \ {p})
        BY DEF Applies
      <4>6. QED
        BY <2>5, <4>1, <4>2, <4>3, <4>4, <4>5 DEF ClosingStep
    <3>2. QED
      BY <2>3, <3>1
  <2>6. QED
    BY <1>4, <2>4, <2>5 DEF ChainStep
<1>5. CASE UNCHANGED vars
  BY <1>1, <1>5 DEF vars, loop, network
<1>6. CASE Restart
  <2>1. UNCHANGED <<pending, tx>> /\ pc' # "send"
    BY <1>6 DEF Restart, Starts, network
  <2>2. QED
    BY <1>1, <2>1
<1>7. CASE Handle \/ Build
  <2>1. UNCHANGED pending /\ pc' # "send"
    BY <1>7 DEF Handle, HandleHead, Build, network, EndCycle
  <2>2. QED
    BY <2>1 DEF AuthInv, withAuth
<1>8. CASE \/ PollEvents \/ EventsRefused \/ PollFeed \/ CycleEnds \/ StopsMidCycle
           \/ SimulationFails \/ OutcomeArrives \/ WaitTimesOut \/ Wake
           \/ CallThrows \/ FeedFails \/ Signal \/ Crash \/ (\E i \in Intents : Publish(i))
  <2>1. UNCHANGED <<pending, tx>>
    BY <1>8 DEF PollEvents, EventsRefused, PollFeed, CycleEnds, StopsMidCycle,
                SimulationFails, OutcomeArrives, WaitTimesOut, Wake, CallThrows,
                FeedFails, Signal, Crash, Publish, loop, network
  <2>2. pc' # "send" \/ pc' = pc
    BY <1>8 DEF PollEvents, EventsRefused, PollFeed, CycleEnds, StopsMidCycle,
                SimulationFails, OutcomeArrives, WaitTimesOut, Wake, CallThrows,
                FeedFails, Signal, Crash, Publish, loop, EndCycle
  <2>3. QED
    BY <1>1, <2>1, <2>2
<1>9. QED
  BY <1>2, <1>3, <1>4, <1>5, <1>6, <1>7, <1>8 DEF Next, BotStep

-----------------------------------------------------------------------------
(* Signals.                                                                *)

LEMMA SignalStep == SignalInv /\ [Next]_vars => SignalInv'
<1> SUFFICES ASSUME SignalInv, [Next]_vars PROVE SignalInv'
  OBVIOUS
<1>1. ASSUME UNCHANGED <<running, late>>, pc' \notin Filling \/ pc' = pc
      PROVE  SignalInv'
  BY <1>1 DEF SignalInv
<1>2. CASE Handle
  <2>1. running /\ UNCHANGED <<running, late>>
    BY <1>2 DEF Handle, HandleHead, history
  <2>2. QED
    BY <2>1 DEF SignalInv
<1>3. CASE Build \/ Simulate
  <2>1. pc \in Filling /\ UNCHANGED <<running, late>>
    BY <1>3 DEF Build, Simulate, Filling, history
  <2>2. QED
    BY <2>1 DEF SignalInv
<1>4. CASE Send
  <2>1. pc \in Filling /\ pc' \notin Filling /\ UNCHANGED running
        /\ late' = IF running THEN late ELSE late + 1
    BY <1>4 DEF Send, Filling, EndCycle
  <2>2. QED
    BY <2>1 DEF SignalInv
<1>5. CASE Signal
  BY <1>5 DEF Signal, SignalInv, history
<1>6. CASE Restart
  <2>1. late' = 0
    BY <1>6 DEF Restart, Starts
  <2>2. QED
    BY <2>1 DEF SignalInv
<1>7. CASE \/ PollEvents \/ EventsRefused \/ PollFeed \/ CycleEnds \/ StopsMidCycle
           \/ SimulationFails \/ OutcomeArrives \/ WaitTimesOut \/ Wake
           \/ CallThrows \/ FeedFails \/ Crash \/ ChainStep
           \/ (\E i \in Intents : Publish(i))
  <2>1. UNCHANGED <<running, late>>
    BY <1>7 DEF PollEvents, EventsRefused, PollFeed, CycleEnds, StopsMidCycle,
                SimulationFails, OutcomeArrives, WaitTimesOut, Wake, CallThrows,
                FeedFails, Crash, ChainStep, Publish, loop, history
  <2>2. pc' \notin Filling \/ pc' = pc
    BY <1>7 DEF PollEvents, EventsRefused, PollFeed, CycleEnds, StopsMidCycle,
                SimulationFails, OutcomeArrives, WaitTimesOut, Wake, CallThrows,
                FeedFails, Crash, ChainStep, Publish, loop, EndCycle, Filling
  <2>3. QED
    BY <1>1, <2>1, <2>2
<1>8. CASE UNCHANGED vars
  BY <1>1, <1>8 DEF vars, loop, history
<1>9. QED
  BY <1>2, <1>3, <1>4, <1>5, <1>6, <1>7, <1>8 DEF Next, BotStep

-----------------------------------------------------------------------------
(* The dry run.                                                            *)

LEMMA LoadedDryRun ==
  ASSUME NEW e, NEW c, c \in loadConfig(e)
  PROVE  c.dryRun \in readBoolean(e, "DRY_RUN", FALSE)
<1> DEFINE A == FromPreset(e, "SOROBAN_RPC_URL", "rpcUrl")
           B == FromPreset(e, "NETWORK_PASSPHRASE", "networkPassphrase")
           C == Shaped(readRequired(e, "ROUTER_CONTRACT_ID"), "contract")
           D == Shaped(readRequired(e, "SOLVER_SECRET_KEY"), "secret")
           E == {readString(e, "INTENT_FEED_URL", Undefined)}
           F == readInteger(e, "POLL_INTERVAL_MS", 5000)
           G == {IF IsSet(e, "START_LEDGER") THEN e["START_LEDGER"].prefix ELSE Undefined}
           H == readBigInt(e, "MIN_PROFIT", 0)
           I == readBigInt(e, "TX_COST", 0)
           J == {readString(e, "MAX_FEE_STROOPS", "100000")}
           K == readInteger(e, "TX_TIMEOUT_MS", 60000)
           L == readTokenPrices(e)
           M == {parseLogLevel(readString(e, "LOG_LEVEL", Undefined))}
           N == readBoolean(e, "DRY_RUN", FALSE)
           O == readBoolean(e, "ALLOW_HTTP", FALSE)
<1>1. loadConfig(e) = [rpcUrl : A, networkPassphrase : B, routerContractId : C,
             solverSecretKey : D, intentFeedUrl : E, pollIntervalMs : F,
             startLedger : G, minProfit : H, txCost : I, maxFeeStroops : J,
             txTimeoutMs : K, tokenPrices : L, logLevel : M, dryRun : N, allowHttp : O]
  BY DEF loadConfig
<1> HIDE DEF A, B, C, D, E, F, G, H, I, J, K, L, M, N, O
<1>2. c.dryRun \in N
  BY <1>1
<1>3. QED
  BY <1>2 DEF N

\* loadConfig takes for a no only what was said clearly, or not said at all.
LEMMA ConfigSaysNo ==
  ASSUME Configured, config # Undefined, ~config.dryRun
  PROVE  SaysNo
<1>1. PICK loaded : /\ loaded = loadConfig(Environments[env])
                    /\ config = IF loaded = {} THEN Undefined
                                ELSE LET c == CHOOSE c \in loaded : TRUE
                                     IN  [dryRun |-> c.dryRun, startLedger |-> c.startLedger,
                                          intentFeedUrl |-> c.intentFeedUrl]
  BY DEF Configured
<1>2. PICK c \in loaded : config.dryRun = c.dryRun
  BY <1>1
<1>3. c.dryRun \in readBoolean(Environments[env], "DRY_RUN", FALSE)
  BY <1>1, <1>2, LoadedDryRun
<1>4. CASE IsSet(Environments[env], "DRY_RUN")
  <2>1. c.dryRun \in {b \in BOOLEAN : Environments[env]["DRY_RUN"].word
                                      \in IF b THEN Affirmative ELSE Negative}
    BY <1>3, <1>4 DEF readBoolean
  <2>2. Environments[env]["DRY_RUN"].word \in Negative
    BY <1>2, <2>1
  <2>3. QED
    BY <2>2 DEF SaysNo
<1>5. QED
  BY <1>4 DEF SaysNo

LEMMA AskedStep == AskedInv /\ [Next]_vars => AskedInv'
<1> SUFFICES ASSUME AskedInv, [Next]_vars PROVE AskedInv'
  OBVIOUS
<1>1. UNCHANGED <<env, config>>
  BY DEF Next, BotStep, vars, loop, process, PollEvents, EventsRefused, PollFeed, CycleEnds,
         StopsMidCycle, Handle, HandleHead, Build, Simulate, SimulationFails, Send,
         OutcomeArrives, WaitTimesOut, Wake, CallThrows, FeedFails, Signal, Crash,
         Restart, ChainStep, Publish
<1>2. SaysNo' <=> SaysNo
  BY <1>1 DEF SaysNo
<1>3. config = Undefined => pc' \notin Awaits
  <2>1. CASE Restart
    BY <1>1, <2>1 DEF Restart, Starts, Awaits
  <2>2. CASE pc \in Awaits
    BY <2>2 DEF AskedInv
  <2>3. CASE pc \notin Awaits /\ ~Restart
    <3>1. UNCHANGED pc
      BY <2>3 DEF Next, BotStep, vars, loop, PollEvents, EventsRefused, PollFeed, CycleEnds,
         StopsMidCycle, Handle, HandleHead, Build, Simulate, SimulationFails, Send,
         OutcomeArrives, WaitTimesOut, Wake, CallThrows, FeedFails, Signal, Crash,
         ChainStep, Publish, Awaits, Alive
    <3>2. QED
      BY <3>1 DEF AskedInv
  <2>4. QED
    BY <2>1, <2>2, <2>3
<1>4. pc' \in Filling => SaysNo
  <2>1. CASE Handle
    <3>1. pc' \in Filling => Evaluate(Head(batch)) = "fill"
      BY <2>1 DEF Handle, HandleHead, EndCycle, Filling
    <3>2. Evaluate(Head(batch)) = "fill" => ~config.dryRun
      BY DEF Evaluate
    <3>3. config # Undefined
      BY <2>1 DEF Handle, HandleHead, AskedInv, Awaits
    <3>4. QED
      BY <3>1, <3>2, <3>3 DEF AskedInv
  <2>2. CASE ~Handle
    <3>1. pc' \in Filling => pc \in Filling
      BY <2>2 DEF Next, BotStep, vars, loop, PollEvents, EventsRefused, PollFeed, CycleEnds,
         StopsMidCycle, Build, Simulate, SimulationFails, Send, EndCycle, Filling,
         OutcomeArrives, WaitTimesOut, Wake, CallThrows, FeedFails, Signal, Crash,
         Restart, Starts, ChainStep, Publish
    <3>2. QED
      BY <3>1 DEF AskedInv
  <2>3. QED
    BY <2>1, <2>2
<1>5. ASSUME NEW i \in Intents, sent'[i] > 0 PROVE SaysNo
  <2>1. CASE Send
    BY <2>1 DEF Send, AskedInv, Filling
  <2>2. CASE Restart
    BY <1>5, <2>2 DEF Restart, Starts
  <2>3. CASE ~Send /\ ~Restart
    <3>1. UNCHANGED sent
      BY <2>3 DEF Next, BotStep, vars, history, PollEvents, EventsRefused, PollFeed, CycleEnds,
         StopsMidCycle, Handle, HandleHead, Build, Simulate, SimulationFails,
         OutcomeArrives, WaitTimesOut, Wake, CallThrows, FeedFails, Signal, Crash,
         ChainStep, Publish
    <3>2. QED
      BY <1>5, <3>1 DEF AskedInv
  <2>4. QED
    BY <2>1, <2>2, <2>3
<1>6. config # Undefined /\ ~config.dryRun => SaysNo
  BY DEF AskedInv
<1>7. QED
  BY <1>1, <1>2, <1>3, <1>4, <1>5, <1>6 DEF AskedInv

-----------------------------------------------------------------------------
(* Refusals.                                                               *)

\* Every transaction lacks an entry: the trader's if it carries simulated ones,
\* the solver's if the trader's took their place.
LEMMA UnauthorizedStep ==
  ASSUME Excuses = {FALSE}
  PROVE  AuthInv /\ NothingAuthorized /\ [Next]_vars => NothingAuthorized'
<1> SUFFICES ASSUME AuthInv, NothingAuthorized, [Next]_vars PROVE NothingAuthorized'
  OBVIOUS
<1>1. ASSUME outcomes' = outcomes PROVE NothingAuthorized'
  BY <1>1 DEF NothingAuthorized
<1>2. ASSUME NEW p \in pending, Applies(p) PROVE NothingAuthorized'
  <2>1. ~Authorized(p.tx, FALSE)
    BY DEF AuthInv, withAuth, Authorized
  <2>2. Ends(p.tx, FALSE) = {"unauthorized"}
    BY <2>1 DEF Ends
  <2>3. outcomes' = outcomes \cup {[tx |-> p.tx, result |-> "unauthorized"]}
    BY <1>2, <2>2 DEF Applies
  <2>4. QED
    BY <2>3 DEF NothingAuthorized
<1>3. CASE ChainStep
  BY <1>1, <1>2, <1>3 DEF ChainStep, ClosingStep, LedgerCloses, RivalSettles, IntentExpires
<1>4. CASE ~ChainStep
  <2>1. UNCHANGED outcomes
    BY <1>4 DEF Next, BotStep, vars, network, PollEvents, EventsRefused, PollFeed, CycleEnds,
         StopsMidCycle, Handle, HandleHead, Build, Simulate, SimulationFails, Send,
         OutcomeArrives, WaitTimesOut, Wake, CallThrows, FeedFails, Signal, Crash,
         Restart, Publish
  <2>2. QED
    BY <1>1, <2>1
<1>5. QED
  BY <1>3, <1>4

-----------------------------------------------------------------------------
(* Types.                                                                  *)

\* What PollFeed makes of the feed.
NextNew(new, i) == IF i \in seen \cup ToSet(new) THEN new ELSE Append(new, i)

IsUnseen(it, entries) ==
  it = [s \in SUBSET (DOMAIN entries) |->
          IF s = {} THEN <<>> ELSE NextNew(it[s \ {Max(s)}], entries[Max(s)])]

LEMMA UnseenUnfolded ==
  ASSUME NEW entries
  PROVE  Unseen(entries) = (CHOOSE it : IsUnseen(it, entries))[DOMAIN entries]
BY DEF Unseen, FoldLeft, MapThenFoldSet, IsUnseen, NextNew

\* What PollFeed may make a batch of: intents never handed out before, each once.
NewOnes ==
  {q \in Seq(Intents) :
     /\ \A k \in 1 .. Len(q) : q[k] \notin seen
     /\ \A k, l \in 1 .. Len(q) : k # l => q[k] # q[l]}

LEMMA NextNewOnes ==
  ASSUME NEW new \in NewOnes, NEW i \in Intents
  PROVE  NextNew(new, i) \in NewOnes
<1> DEFINE q == Append(new, i)
<1>1. CASE i \in seen \cup ToSet(new)
  BY <1>1 DEF NextNew
<1>2. CASE i \notin seen \cup ToSet(new)
  <2>1. new \in Seq(Intents) /\ Len(new) \in Nat
    BY DEF NewOnes
  <2>2. q \in Seq(Intents) /\ Len(q) = Len(new) + 1 /\ q[Len(new) + 1] = i
    BY <2>1
  <2>3. \A k \in 1 .. Len(new) : q[k] = new[k] /\ new[k] # i /\ new[k] \notin seen
    <3>1. \A k \in 1 .. Len(new) : q[k] = new[k]
      BY <2>1
    <3>2. \A k \in 1 .. Len(new) : new[k] # i
      BY <1>2, <2>1 DEF ToSet
    <3>3. QED
      BY <3>1, <3>2 DEF NewOnes
  <2> HIDE DEF q
  <2>4. \A k \in 1 .. Len(q) : k \in 1 .. Len(new) \/ k = Len(new) + 1
    BY <2>1, <2>2
  <2>5. \A k \in 1 .. Len(q) : q[k] \notin seen
    BY <1>2, <2>2, <2>3, <2>4
  <2>6. \A k, l \in 1 .. Len(q) : k # l => q[k] # q[l]
    BY <2>2, <2>3, <2>4 DEF NewOnes
  <2>7. q \in NewOnes
    BY <2>2, <2>5, <2>6 DEF NewOnes
  <2>8. QED
    BY <1>2, <2>7 DEF NextNew, q
<1>3. QED
  BY <1>1, <1>2

LEMMA MaxIn ==
  ASSUME NEW n \in Nat, NEW s \in SUBSET (1 .. n), s # {}
  PROVE  Max(s) \in s
<1> DEFINE T == {n - x : x \in s}
<1>1. T \in SUBSET Nat /\ T # {}
  OBVIOUS
<1> HIDE DEF T
<1>2. PICK m \in T : \A k \in T : m <= k
  BY <1>1, SmallestNumber
<1>3. PICK x \in s : m = n - x
  BY <1>2 DEF T
<1>4. \A y \in s : x >= y
  <2>1. TAKE y \in s
  <2>2. n - y \in T /\ y \in Nat /\ x \in Nat
    BY DEF T
  <2>3. QED
    BY <1>2, <1>3, <2>2
<1>5. QED
  BY <1>4 DEF Max

LEMMA UnseenNew ==
  ASSUME NEW entries \in Seq(Intents)
  PROVE  Unseen(entries) \in NewOnes
<1> DEFINE S == DOMAIN entries
           F == [k \in S |-> [q \in NewOnes |-> NextNew(q, entries[k])]]
           pick == [s \in SUBSET S |-> Max(s)]
           it == CHOOSE it : IsUnseen(it, entries)
<1>1. Len(entries) \in Nat /\ S = 1 .. Len(entries) /\ \A k \in S : entries[k] \in Intents
  OBVIOUS
<1>2. IsFiniteSet(S)
  BY <1>1, FS_Interval
<1>3. <<>> \in NewOnes
  BY DEF NewOnes
<1>4. F \in [S -> [NewOnes -> NewOnes]]
  <2> HIDE DEF S
  <2>1. QED
  BY <1>1, NextNewOnes
<1>5. Picks(pick, S)
  <2>1. ASSUME NEW s \in SUBSET S, s # {} PROVE pick[s] \in s
    <3>1. pick[s] = Max(s)
      OBVIOUS
    <3> HIDE DEF S, pick
    <3>2. QED
      BY <1>1, <2>1, <3>1, MaxIn
  <2>2. QED
    BY <2>1 DEF Picks
<1>6. \A k \in S, q \in NewOnes : F[k][q] = NextNew(q, entries[k])
  OBVIOUS
<1>7. \A s \in SUBSET S : pick[s] = Max(s)
  OBVIOUS
<1> HIDE DEF F, pick, S
<1>8. \E f : IsUnseen(f, entries)
  <2>1. PICK f \in [SUBSET S -> NewOnes] : FoldsOn(f, pick, F, <<>>, SUBSET S)
    BY <1>2, <1>3, <1>4, <1>5, FoldExists
  <2>2. ASSUME NEW s \in SUBSET S
        PROVE  f[s] = IF s = {} THEN <<>> ELSE NextNew(f[s \ {Max(s)}], entries[Max(s)])
    <3>1. CASE s = {}
      BY <2>1, <3>1 DEF FoldsOn
    <3>2. CASE s # {}
      <4>1. f[s] = F[Max(s)][f[s \ {Max(s)}]] /\ Max(s) \in S
        BY <1>5, <1>7, <2>1, <3>2 DEF FoldsOn, Picks
      <4>2. f[s \ {Max(s)}] \in NewOnes
        BY <2>1
      <4>3. QED
        BY <1>6, <3>2, <4>1, <4>2
    <3>3. QED
      BY <3>1, <3>2
  <2>3. f = [s \in SUBSET S |->
               IF s = {} THEN <<>> ELSE NextNew(f[s \ {Max(s)}], entries[Max(s)])]
    BY <2>1, <2>2
  <2>4. QED
    BY <2>3 DEF IsUnseen, S
<1>9. IsUnseen(it, entries)
  BY <1>8
<1> HIDE DEF it
<1>10. ASSUME NEW s \in SUBSET S
       PROVE  it[s] = IF s = {} THEN <<>> ELSE NextNew(it[s \ {Max(s)}], entries[Max(s)])
  BY <1>9 DEF IsUnseen, S
<1>11. FoldsWithin(it, pick, F, <<>>, NewOnes, S)
  <2>1. ASSUME NEW s \in SUBSET S, s # {}, it[s \ {pick[s]}] \in NewOnes
        PROVE  it[s] = F[pick[s]][it[s \ {pick[s]}]]
    <3>1. pick[s] = Max(s) /\ Max(s) \in S
      BY <1>5, <1>7, <2>1 DEF Picks
    <3>2. it[s] = NextNew(it[s \ {pick[s]}], entries[pick[s]])
      BY <1>10, <2>1, <3>1
    <3>3. QED
      BY <1>6, <2>1, <3>1, <3>2
  <2>2. \A s \in SUBSET S : s = {} => it[s] = <<>>
    BY <1>10
  <2>3. QED
    BY <2>1, <2>2 DEF FoldsWithin
<1>12. it[S] \in NewOnes
  BY <1>2, <1>3, <1>4, <1>5, <1>11, FoldTyped
<1>13. QED
  BY <1>12, UnseenUnfolded DEF it, S

LEMMA ClosesTyped ==
  ASSUME NetworkTypeOK, NEW settled \in SUBSET Intents, NEW waiting \in SUBSET pending,
         \A p \in pending : p = [tx |-> p.tx, ledgers |-> p.ledgers],
         Closes(settled, waiting)
  PROVE  /\ window' \in [1 .. Retention -> SUBSET Intents]
         /\ \A k \in 1 .. Retention :
              window'[k] = IF k = Retention THEN settled ELSE window[k + 1]
         /\ status' \in [Intents -> {"Open", "Settled", "Expired"}]
         /\ \A p \in pending' : p.tx \in Tx /\ p.ledgers \in 1 .. TxLifetime
<1>1. Retention \in Nat \ {0} /\ TxLifetime \in Nat
  BY NetworkAssumption
<1>2. /\ window' = Append(Tail(window), settled)
      /\ status' = [i \in Intents |-> IF i \in settled THEN "Settled" ELSE status[i]]
  BY DEF Closes
<1>3. window \in Seq(SUBSET Intents) /\ Len(window) = Retention
  BY <1>1 DEF NetworkTypeOK
<1>4. /\ Tail(window) \in Seq(SUBSET Intents) /\ Len(Tail(window)) = Retention - 1
      /\ \A k \in 1 .. Retention - 1 : Tail(window)[k] = window[k + 1]
  BY <1>1, <1>3
<1>5. /\ window' \in Seq(SUBSET Intents) /\ Len(window') = Retention
      /\ \A k \in 1 .. Retention - 1 : window'[k] = window[k + 1]
      /\ window'[Retention] = settled
  BY <1>1, <1>2, <1>4
<1>6. window' \in [1 .. Retention -> SUBSET Intents]
  BY <1>1, <1>5
<1>7. \A k \in 1 .. Retention : k = Retention \/ k \in 1 .. Retention - 1
  BY <1>1
<1>8. status' \in [Intents -> {"Open", "Settled", "Expired"}]
  BY <1>2 DEF NetworkTypeOK
<1>9. ASSUME NEW q \in pending' PROVE q.tx \in Tx /\ q.ledgers \in 1 .. TxLifetime
  <2>1. PICK p \in waiting : q.tx = p.tx /\ p.ledgers > 1 /\ q.ledgers = p.ledgers - 1
    BY ClosesFacts
  <2>2. p.tx \in Tx /\ p.ledgers \in 1 .. TxLifetime
    BY DEF NetworkTypeOK
  <2>3. QED
    BY <1>1, <2>1, <2>2
<1>10. QED
  BY <1>5, <1>6, <1>7, <1>8, <1>9

\* A step that closes a ledger, in one form.
LEMMA ClosingFacts ==
  ASSUME NetworkTypeOK, ClosingStep
  PROVE  \E settled \in SUBSET Intents, waiting \in SUBSET pending :
           Closes(settled, waiting) /\ \A i \in settled : status[i] = "Open"
<1>1. CASE LedgerCloses
  BY <1>1 DEF LedgerCloses
<1>2. ASSUME NEW i \in Intents, RivalSettles(i)
      PROVE  \E settled \in SUBSET Intents, waiting \in SUBSET pending :
               Closes(settled, waiting) /\ \A j \in settled : status[j] = "Open"
  <2>1. {i} \in SUBSET Intents /\ pending \in SUBSET pending
    OBVIOUS
  <2>2. Closes({i}, pending) /\ \A j \in {i} : status[j] = "Open"
    BY <1>2 DEF RivalSettles
  <2>3. QED
    BY <2>1, <2>2
<1>3. ASSUME NEW p \in pending, Applies(p)
      PROVE  \E settled \in SUBSET Intents, waiting \in SUBSET pending :
               Closes(settled, waiting) /\ \A i \in settled : status[i] = "Open"
  <2>0. PICK excused \in Excuses : \E result \in Ends(p.tx, excused) :
          Closes(IF result = "ok" THEN {p.tx.intent} ELSE {}, pending \ {p})
    BY <1>3 DEF Applies
  <2>1. PICK result \in Ends(p.tx, excused) :
          Closes(IF result = "ok" THEN {p.tx.intent} ELSE {}, pending \ {p})
    BY <2>0
  <2> DEFINE settled == IF result = "ok" THEN {p.tx.intent} ELSE {}
  <2>2. p.tx.intent \in Intents
    BY DEF NetworkTypeOK, Tx
  <2>3. settled \in SUBSET Intents /\ \A i \in settled : status[i] = "Open"
    BY <2>1, <2>2 DEF Ends
  <2>4. pending \ {p} \in SUBSET pending
    OBVIOUS
  <2>5. Closes(settled, pending \ {p})
    BY <2>1
  <2> HIDE DEF settled
  <2>6. QED
    BY <2>3, <2>4, <2>5
<1>4. QED
  BY <1>1, <1>2, <1>3 DEF ClosingStep

LEMMA ChainTyped ==
  ASSUME TypeOK, SequenceInv, ChainStep
  PROVE  TypeOK'
<1>1. UNCHANGED <<feed, seen, logged, loop, history>> /\ NetworkTypeOK
  BY DEF ChainStep, TypeOK
<1>2. \A p \in pending : p = [tx |-> p.tx, ledgers |-> p.ledgers]
  BY DEF SequenceInv
<1>3. Retention \in Nat /\ NoCursor \notin Int
  BY NetworkAssumption, WatcherAssumption
<1>4. NetworkTypeOK'
  <2>1. CASE ClosingStep
    <3>1. /\ window' \in [1 .. Retention -> SUBSET Intents]
          /\ status' \in [Intents -> {"Open", "Settled", "Expired"}]
          /\ \A p \in pending' : p.tx \in Tx /\ p.ledgers \in 1 .. TxLifetime
      BY <1>1, <1>2, <2>1, ClosingFacts, ClosesTyped
    <3>2. account' \in Nat /\ outcomes' \subseteq Outcome
      <4>1. CASE UNCHANGED <<account, outcomes>>
        BY <1>1, <4>1 DEF NetworkTypeOK
      <4>2. ASSUME NEW p \in pending, Applies(p) PROVE account' \in Nat /\ outcomes' \subseteq Outcome
        <5>1. p.tx \in Tx
          BY <1>1 DEF NetworkTypeOK
        <5>2. account' = p.tx.seq /\ \E result \in Results :
                outcomes' = outcomes \cup {[tx |-> p.tx, result |-> result]}
          BY <4>2 DEF Applies, Ends, Results
        <5>3. QED
          BY <1>1, <5>1, <5>2 DEF NetworkTypeOK, Outcome, Tx
      <4>3. QED
        BY <2>1, <4>1, <4>2 DEF ClosingStep, LedgerCloses, RivalSettles
    <3>3. QED
      BY <3>1, <3>2 DEF NetworkTypeOK
  <2>2. ASSUME NEW i \in Intents, IntentExpires(i) PROVE NetworkTypeOK'
    BY <1>1, <2>2 DEF IntentExpires, NetworkTypeOK
  <2>3. QED
    BY <2>1, <2>2 DEF ChainStep
<1>5. WatcherTypeOK'
  <2>1. lag' \in (0 .. Retention + 1) \cup {NoCursor}
    BY <1>3 DEF ChainStep, CursorAges, TypeOK, WatcherTypeOK
  <2>2. QED
    BY <1>1, <2>1 DEF TypeOK, WatcherTypeOK
<1>6. QED
  BY <1>1, <1>4, <1>5 DEF TypeOK, loop, process, history

Places == Awaits \cup {"stopped", "crashed"}

LEMMA TypedQuiet ==
  ASSUME TypeOK, UNCHANGED <<network, feed, watcher, process, history>>, tx' \in Tx,
         running' \in BOOLEAN, pc' \in Places, batch' \in Seq(Intents)
  PROVE  TypeOK'
BY DEF TypeOK, NetworkTypeOK, WatcherTypeOK, network, watcher, process, history, Places

LEMMA TypedStep ==
  ASSUME TypeOK, SequenceInv, [Next]_vars
  PROVE  TypeOK'
<1>1. /\ NetworkTypeOK /\ WatcherTypeOK /\ tx \in Tx /\ batch \in Seq(Intents)
      /\ running \in BOOLEAN /\ pc \in Places /\ <<>> \in Seq(Intents)
      /\ sent \in [Intents -> Nat] /\ late \in Nat
  BY DEF TypeOK, Places
<1>2. EndCycle => pc' \in Places /\ batch' \in Seq(Intents)
  BY <1>1 DEF EndCycle, Places, Awaits
<1>3. Retention \in Nat \ {0} /\ NoCursor \notin Int
  BY NetworkAssumption, WatcherAssumption
<1>4. CASE CallThrows \/ EventsRefused \/ FeedFails \/ CycleEnds \/ StopsMidCycle \/ SimulationFails
  <2>1. EndCycle /\ UNCHANGED <<network, feed, watcher, process, history, tx, running>>
    BY <1>4 DEF CallThrows, EventsRefused, FeedFails, CycleEnds, StopsMidCycle, SimulationFails
  <2>2. QED
    BY <1>1, <1>2, <2>1, TypedQuiet
<1>5. CASE OutcomeArrives \/ WaitTimesOut \/ Wake \/ Signal \/ Crash
  <2>1. UNCHANGED <<network, feed, watcher, process, history, tx, batch>>
    BY <1>5 DEF OutcomeArrives, WaitTimesOut, Wake, Signal, Crash
  <2>2. running' \in BOOLEAN /\ pc' \in Places
    BY <1>1, <1>5 DEF OutcomeArrives, WaitTimesOut, Wake, Signal, Crash, Places, Awaits
  <2>3. QED
    BY <1>1, <2>1, <2>2, TypedQuiet
<1>6. CASE Build \/ Simulate
  <2>1. /\ UNCHANGED <<network, feed, watcher, process, history, running, batch>>
        /\ pc' \in Places
    BY <1>6 DEF Build, Simulate, Places, Awaits
  <2>2. account \in Nat /\ run \in Nat
    BY DEF TypeOK, NetworkTypeOK
  <2>3. withAuth(tx.intent) \in SUBSET {"solver", "trader"}
    BY DEF withAuth
  <2>4. tx' \in Tx
    <3>1. Tagged(tx) /\ tx.intent \in Intents /\ tx.seq \in Nat /\ tx.run \in Nat
      BY <1>1 DEF SequenceInv, Tx
    <3>2. CASE Build
      <4>1. tx' = [intent |-> tx.intent, seq |-> account + 1, run |-> run, auth |-> {}]
        BY <3>1, <3>2 DEF Build, Tagged, NextSequence
      <4>2. QED
        BY <2>2, <3>1, <4>1 DEF Tx
    <3>3. CASE Simulate
      <4>1. tx' = [intent |-> tx.intent, seq |-> tx.seq, run |-> tx.run,
                   auth |-> withAuth(tx.intent)]
        BY <3>1, <3>3 DEF Simulate, Tagged
      <4>2. QED
        BY <2>3, <3>1, <4>1 DEF Tx
    <3>4. QED
      BY <1>6, <3>2, <3>3
  <2>5. QED
    BY <1>1, <2>1, <2>4, TypedQuiet
<1>7. CASE PollEvents
  <2>1. UNCHANGED <<network, feed, seen, running, batch, tx, process, history>>
    BY <1>7 DEF PollEvents
  <2>2. pc' \in Places
    BY <1>1, <1>7 DEF PollEvents, Places, Awaits
  <2>3. lag' \in (0 .. Retention + 1) \cup {NoCursor} /\ logged' \in [Intents -> Nat]
    <3>1. lag \in (0 .. Retention + 1) \cup {NoCursor} /\ logged \in [Intents -> Nat]
      BY <1>1 DEF WatcherTypeOK
    <3>2. CASE startCursor /\ UNCHANGED logged
      BY <1>3, <3>1, <3>2 DEF startCursor
    <3>3. CASE pollEvents
      BY <1>3, <3>1, <3>3 DEF pollEvents, NextCursor
    <3>4. QED
      BY <1>7, <3>2, <3>3 DEF PollEvents
  <2>4. WatcherTypeOK' /\ NetworkTypeOK'
    BY <1>1, <2>1, <2>3 DEF WatcherTypeOK, NetworkTypeOK, network
  <2>5. QED
    BY <2>1, <2>2, <2>4 DEF TypeOK, process, history, Places
<1>8. CASE PollFeed
  <2>1. UNCHANGED <<network, feed, lag, logged, running, tx, process, history>>
    BY <1>8 DEF PollFeed
  <2>2. PICK fresh \in Seq(Intents) :
          /\ seen' = seen \cup ToSet(fresh)
          /\ IF fresh = <<>> THEN EndCycle ELSE pc' = "next" /\ batch' = fresh
    <3> DEFINE entries == IF config.intentFeedUrl = Undefined THEN <<>> ELSE feed
    <3>1. entries \in Seq(Intents)
      BY <1>1 DEF WatcherTypeOK
    <3> HIDE DEF entries
    <3>2. Unseen(entries) \in Seq(Intents)
      BY <3>1, UnseenNew DEF NewOnes
    <3>3. QED
      BY <1>8, <3>2 DEF PollFeed, entries
  <2>3. seen' \subseteq Intents
    BY <1>1, <2>2 DEF WatcherTypeOK, ToSet
  <2>4. pc' \in Places /\ batch' \in Seq(Intents)
    BY <1>2, <2>2 DEF Places, Awaits
  <2>5. WatcherTypeOK' /\ NetworkTypeOK'
    BY <1>1, <2>1, <2>3 DEF WatcherTypeOK, NetworkTypeOK, network
  <2>6. QED
    BY <2>1, <2>4, <2>5 DEF TypeOK, process, history, Places
<1>9. CASE Handle
  <2>1. UNCHANGED <<network, feed, watcher, running, process, sent, late>>
    BY <1>9 DEF Handle, HandleHead, history
  <2>2. Head(batch) \in Intents /\ Tail(batch) \in Seq(Intents)
    BY <1>1, <1>9 DEF Handle, HandleHead
  <2>3. pc' \in Places /\ batch' \in Seq(Intents) /\ tx' \in Tx
    BY <1>1, <1>2, <1>9, <2>2 DEF Handle, HandleHead, Tx, Places, Awaits
  <2>4. WatcherTypeOK' /\ NetworkTypeOK'
    BY <1>1, <2>1 DEF WatcherTypeOK, NetworkTypeOK, network, watcher
  <2>5. QED
    BY <2>1, <2>3, <2>4 DEF TypeOK, process, Places
<1>10. CASE Send
  <2>1. UNCHANGED <<window, status, account, outcomes, feed, watcher, running, tx, process>>
    BY <1>10 DEF Send
  <2>2. /\ sent' \in [Intents -> Nat] /\ late' \in Nat /\ pc' \in Places /\ batch' \in Seq(Intents)
        /\ \A p \in pending' : p \in pending \/ p = [tx |-> tx, ledgers |-> TxLifetime]
    BY <1>1, <1>2, <1>10 DEF Send, Places, Awaits, Tx
  <2>3. TxLifetime \in 1 .. TxLifetime
    BY NetworkAssumption
  <2>4. \A p \in pending' : p.tx \in Tx /\ p.ledgers \in 1 .. TxLifetime
    BY <1>1, <2>2, <2>3 DEF NetworkTypeOK
  <2>5. WatcherTypeOK' /\ NetworkTypeOK'
    BY <1>1, <2>1, <2>4 DEF WatcherTypeOK, NetworkTypeOK, watcher
  <2>6. QED
    BY <2>1, <2>2, <2>5 DEF TypeOK, process, Places
<1>11. CASE Restart
  <2>1. UNCHANGED <<network, feed, tx, env, config>> /\ run' \in 0 .. MaxRuns
    BY <1>11, BotAssumption DEF Restart, TypeOK
  <2>2. /\ pc' \in Places /\ running' = TRUE /\ batch' = <<>>
        /\ sent' = [i \in Intents |-> 0] /\ late' = 0
    BY <1>11 DEF Restart, Starts, Places, Awaits
  <2>3. /\ lag' \in (0 .. Retention + 1) \cup {NoCursor}
        /\ seen' = {} /\ logged' = [i \in Intents |-> 0]
    BY <1>3, <1>11 DEF Restart, FreshWatcher, StartLags
  <2>4. WatcherTypeOK' /\ NetworkTypeOK'
    BY <1>1, <2>1, <2>3 DEF WatcherTypeOK, NetworkTypeOK, network
  <2>5. QED
    BY <1>1, <2>1, <2>2, <2>4 DEF TypeOK, Places
<1>12. ASSUME NEW i \in Intents, Publish(i) PROVE TypeOK'
  <2>1. feed' \in Seq(Intents) /\ UNCHANGED <<network, watcher, loop, history>>
    BY <1>1, <1>12 DEF Publish, WatcherTypeOK
  <2>2. WatcherTypeOK' /\ NetworkTypeOK'
    BY <1>1, <2>1 DEF WatcherTypeOK, NetworkTypeOK, network, watcher
  <2>3. QED
    BY <2>1, <2>2 DEF TypeOK, loop, process, history
<1>13. CASE UNCHANGED vars
  BY <1>1, <1>13, TypedQuiet DEF vars, loop
<1>14. QED
  BY <1>4, <1>5, <1>6, <1>7, <1>8, <1>9, <1>10, <1>11, <1>12, <1>13, ChainTyped DEF Next, BotStep

-----------------------------------------------------------------------------
(* What a process does only once.                                          *)

\* What was sent, what is in hand and what is in the batch are different
\* intents, and the watcher has handed out all of them.
HandInv ==
  /\ \A i \in Intents : sent[i] > 0 => sent[i] = 1 /\ i \in seen
  /\ \A k \in 1 .. Len(batch) : batch[k] \in seen /\ sent[batch[k]] = 0
  /\ \A k, l \in 1 .. Len(batch) : k # l => batch[k] # batch[l]
  /\ pc \in Filling =>
       /\ tx.intent \in seen /\ sent[tx.intent] = 0
       /\ \A k \in 1 .. Len(batch) : batch[k] # tx.intent

\* Behind the cursor is every event that was logged, and an intent that was
\* settled has no other.
LoggedInv ==
  /\ \A k \in 1 .. Retention : \A i \in window[k] : status[i] = "Settled"
  /\ \A i \in Intents : logged[i] > 0 =>
       /\ logged[i] = 1 /\ status[i] = "Settled" /\ lag # NoCursor
       /\ \A k \in 1 .. Retention : k + lag > Retention => i \notin window[k]

LEMMA HandQuiet ==
  ASSUME HandInv, UNCHANGED <<sent, seen>>, tx'.intent = tx.intent,
         batch' = <<>> \/ batch' = batch, pc' \in Filling => pc \in Filling
  PROVE  HandInv'
<1>1. \A k \in 1 .. Len(batch') : k \in 1 .. Len(batch) /\ batch'[k] = batch[k]
  OBVIOUS
<1>2. QED
  BY <1>1 DEF HandInv

LEMMA HandStep ==
  ASSUME TypeOK, SequenceInv, HandInv, [Next]_vars
  PROVE  HandInv'
<1>1. /\ batch \in Seq(Intents) /\ sent \in [Intents -> Nat] /\ tx.intent \in Intents
      /\ feed \in Seq(Intents) /\ Len(batch) \in Nat
  BY DEF TypeOK, WatcherTypeOK, Tx
<1>2. EndCycle => batch' = <<>> /\ pc' \notin Filling
  BY DEF EndCycle, Filling
<1>3. CASE CallThrows \/ EventsRefused \/ FeedFails \/ CycleEnds \/ StopsMidCycle \/ SimulationFails
  <2>1. EndCycle /\ UNCHANGED <<sent, seen, tx>>
    BY <1>3 DEF CallThrows, EventsRefused, FeedFails, CycleEnds, StopsMidCycle,
                SimulationFails, watcher, history
  <2>2. QED
    BY <1>2, <2>1, HandQuiet
<1>4. CASE PollEvents \/ OutcomeArrives \/ WaitTimesOut \/ Wake \/ Signal \/ Crash \/ ChainStep
           \/ (\E i \in Intents : Publish(i)) \/ UNCHANGED vars
  <2>1. UNCHANGED <<sent, seen, tx, batch>>
    BY <1>4 DEF PollEvents, OutcomeArrives, WaitTimesOut, Wake, Signal, Crash, ChainStep, Publish,
                vars, watcher, history, loop
  <2>2. pc' \in Filling => pc \in Filling
    BY <1>4 DEF PollEvents, OutcomeArrives, WaitTimesOut, Wake, Signal, Crash, ChainStep, Publish,
                vars, loop, Filling
  <2>3. QED
    BY <2>1, <2>2, HandQuiet
<1>5. CASE Build \/ Simulate
  <2>1. UNCHANGED <<sent, seen, batch>> /\ pc \in Filling
    BY <1>5 DEF Build, Simulate, watcher, history, Filling
  <2>2. Tagged(tx)
    BY DEF SequenceInv
  <2>3. tx'.intent = tx.intent
    BY <1>5, <2>2 DEF Build, Simulate, Tagged
  <2>4. QED
    BY <2>1, <2>3, HandQuiet
<1>6. CASE PollFeed
  <2> DEFINE entries == IF config.intentFeedUrl = Undefined THEN <<>> ELSE feed
  <2>1. Unseen(entries) \in NewOnes
    <3>1. entries \in Seq(Intents)
      BY <1>1
    <3> HIDE DEF entries
    <3>2. QED
      BY <3>1, UnseenNew
  <2>2. PICK fresh \in NewOnes :
          /\ seen' = seen \cup ToSet(fresh)
          /\ IF fresh = <<>> THEN EndCycle ELSE pc' = "next" /\ batch' = fresh
    BY <1>6, <2>1 DEF PollFeed
  <2>3. UNCHANGED <<sent, tx>> /\ pc' \notin Filling /\ (batch' = <<>> \/ batch' = fresh)
    BY <1>2, <1>6, <2>2 DEF PollFeed, history, Filling
  <2>4. /\ fresh \in Seq(Intents)
        /\ \A k \in 1 .. Len(fresh) : fresh[k] \in Intents /\ fresh[k] \notin seen /\ fresh[k] \in seen'
        /\ \A k, l \in 1 .. Len(fresh) : k # l => fresh[k] # fresh[l]
    BY <2>2 DEF NewOnes, ToSet
  <2>5. \A k \in 1 .. Len(fresh) : sent[fresh[k]] = 0
    BY <1>1, <2>4 DEF HandInv
  <2>6. \A k \in 1 .. Len(batch') : k \in 1 .. Len(fresh) /\ batch'[k] = fresh[k]
    BY <2>3
  <2>7. \A i \in Intents : sent'[i] > 0 => sent'[i] = 1 /\ i \in seen'
    BY <2>2, <2>3 DEF HandInv
  <2>8. QED
    BY <2>3, <2>4, <2>5, <2>6, <2>7 DEF HandInv
<1>7. CASE Handle
  <2>1. UNCHANGED <<sent, seen>> /\ batch # <<>>
    BY <1>7 DEF Handle, HandleHead, watcher, history
  <2>2. CASE EndCycle /\ UNCHANGED tx
    BY <1>2, <2>1, <2>2, HandQuiet
  <2>3. CASE batch' = Tail(batch) /\ (UNCHANGED <<pc, tx>> \/ tx' = [tx EXCEPT !.intent = Head(batch)])
    <3>1. /\ Len(batch) > 0 /\ Head(batch) = batch[1]
          /\ \A k \in 1 .. Len(batch') :
               k + 1 \in 1 .. Len(batch) /\ k + 1 # 1 /\ batch'[k] = batch[k + 1]
      BY <1>1, <2>1, <2>3
    <3>2. 1 \in 1 .. Len(batch)
      BY <1>1, <3>1
    <3>3. \A k \in 1 .. Len(batch') :
            batch'[k] \in seen /\ sent[batch'[k]] = 0 /\ batch'[k] # Head(batch)
      BY <3>1, <3>2 DEF HandInv
    <3>4. \A k, l \in 1 .. Len(batch') : k # l => batch'[k] # batch'[l]
      BY <3>1 DEF HandInv
    <3>5. CASE tx' = [tx EXCEPT !.intent = Head(batch)]
      <4>1. Tagged(tx)
        BY DEF SequenceInv
      <4>2. tx'.intent = batch[1]
        BY <3>1, <3>5, <4>1 DEF Tagged
      <4>3. QED
        BY <2>1, <3>1, <3>2, <3>3, <3>4, <4>2 DEF HandInv
    <3>6. CASE UNCHANGED <<pc, tx>>
      <4>1. pc \notin Filling
        BY <1>7 DEF Handle, HandleHead, Filling
      <4>2. QED
        BY <2>1, <3>3, <3>4, <3>6, <4>1 DEF HandInv
    <3>7. QED
      BY <2>3, <3>5, <3>6
  <2>4. QED
    BY <1>7, <2>2, <2>3 DEF Handle, HandleHead
<1>8. CASE Send
  <2>1. /\ UNCHANGED <<seen, tx>> /\ pc = "send" /\ pc' \notin Filling
        /\ batch' = batch \/ batch' = <<>>
        /\ sent' = [sent EXCEPT ![tx.intent] = @ + 1]
    BY <1>2, <1>8 DEF Send, watcher, Filling
  <2>2. sent[tx.intent] = 0 /\ tx.intent \in seen /\ \A k \in 1 .. Len(batch) : batch[k] # tx.intent
    BY <2>1 DEF HandInv, Filling
  <2>3. \A k \in 1 .. Len(batch') : k \in 1 .. Len(batch) /\ batch'[k] = batch[k] /\ batch[k] \in Intents
    BY <1>1, <2>1
  <2>4. /\ sent'[tx.intent] = 1
        /\ \A i \in Intents : i # tx.intent => sent'[i] = sent[i]
    BY <1>1, <2>1, <2>2
  <2>5. QED
    BY <2>1, <2>2, <2>3, <2>4 DEF HandInv
<1>9. CASE Restart
  <2>1. batch' = <<>> /\ sent' = [i \in Intents |-> 0] /\ pc' \notin Filling
    BY <1>9 DEF Restart, Starts, Filling
  <2>2. QED
    BY <2>1 DEF HandInv
<1>10. QED
  BY <1>3, <1>4, <1>5, <1>6, <1>7, <1>8, <1>9 DEF Next, BotStep

LEMMA LoggedClosing ==
  ASSUME TypeOK, SequenceInv, LoggedInv, ClosingStep, CursorAges, UNCHANGED logged
  PROVE  LoggedInv'
<1>1. NetworkTypeOK /\ WatcherTypeOK /\ \A p \in pending : p = [tx |-> p.tx, ledgers |-> p.ledgers]
  BY DEF TypeOK, SequenceInv
<1>2. PICK settled \in SUBSET Intents, waiting \in SUBSET pending :
        Closes(settled, waiting) /\ \A i \in settled : status[i] = "Open"
  BY <1>1, ClosingFacts
<1>3. \A k \in 1 .. Retention : window'[k] = IF k = Retention THEN settled ELSE window[k + 1]
  BY <1>1, <1>2, ClosesTyped
<1>4. \A i \in Intents : status'[i] = IF i \in settled THEN "Settled" ELSE status[i]
  BY <1>2 DEF Closes
<1>5. /\ Retention \in Nat \ {0} /\ NoCursor \notin Int
      /\ window \in [1 .. Retention -> SUBSET Intents]
      /\ lag \in (0 .. Retention + 1) \cup {NoCursor}
  BY <1>1, NetworkAssumption, WatcherAssumption DEF NetworkTypeOK, WatcherTypeOK
<1>6. \A k \in 1 .. Retention : k # Retention => k + 1 \in 1 .. Retention
  BY <1>5
<1>7. ASSUME NEW k \in 1 .. Retention, NEW i \in window'[k] PROVE status'[i] = "Settled"
  <2>1. CASE k = Retention
    BY <1>2, <1>3, <1>4, <1>7, <2>1
  <2>2. CASE k # Retention
    <3>1. k + 1 \in 1 .. Retention /\ i \in window[k + 1] /\ i \in Intents
      BY <1>3, <1>5, <1>6, <1>7, <2>2
    <3>2. status[i] = "Settled"
      BY <3>1 DEF LoggedInv
    <3>3. QED
      BY <1>4, <3>1, <3>2
  <2>3. QED
    BY <2>1, <2>2
<1>8. ASSUME NEW i \in Intents, logged'[i] > 0
      PROVE  /\ logged'[i] = 1 /\ status'[i] = "Settled" /\ lag' # NoCursor
             /\ \A k \in 1 .. Retention : k + lag' > Retention => i \notin window'[k]
  <2>1. /\ logged[i] = 1 /\ status[i] = "Settled" /\ lag # NoCursor
        /\ \A k \in 1 .. Retention : k + lag > Retention => i \notin window[k]
    BY <1>8 DEF LoggedInv
  <2>2. i \notin settled /\ status'[i] = "Settled"
    BY <1>2, <1>4, <2>1
  <2>3. /\ lag \in 0 .. Retention + 1 /\ lag' # NoCursor
        /\ lag' = lag + 1 \/ (lag' = lag /\ lag = Retention + 1)
    <3>1. lag \in 0 .. Retention + 1
      BY <1>5, <2>1
    <3>2. lag' = lag + 1 \/ (lag' = lag /\ lag = Retention + 1)
      BY <2>1 DEF CursorAges
    <3>3. lag' \in Int
      BY <3>1, <3>2
    <3>4. QED
      BY <1>5, <3>1, <3>2, <3>3
  <2>4. ASSUME NEW k \in 1 .. Retention, k + lag' > Retention, k # Retention
        PROVE  i \notin window[k + 1]
    <3>1. k + 1 \in 1 .. Retention
      BY <1>6, <2>4
    <3>2. (k + 1) + lag > Retention
      BY <1>5, <2>3, <2>4
    <3>3. QED
      BY <2>1, <3>1, <3>2
  <2>5. ASSUME NEW k \in 1 .. Retention, k + lag' > Retention PROVE i \notin window'[k]
    BY <1>3, <2>2, <2>4, <2>5
  <2>6. QED
    BY <2>1, <2>2, <2>3, <2>5
<1>9. QED
  BY <1>7, <1>8 DEF LoggedInv

LEMMA LoggedPoll ==
  ASSUME TypeOK, LoggedInv, CursorInRange, pollEvents, UNCHANGED network
  PROVE  LoggedInv'
<1>1. /\ UNCHANGED <<window, status>> /\ logged \in [Intents -> Nat]
      /\ Retention \in Nat /\ NoCursor \notin Int /\ lag \in 1 .. Retention
  BY NetworkAssumption, WatcherAssumption DEF network, TypeOK, WatcherTypeOK, CursorInRange
<1>2. PICK events \in SUBSET Intents :
        /\ Response(events)
        /\ lag' = IF events = {} THEN lag ELSE 0
        /\ logged' = [i \in Intents |-> IF i \in events THEN logged[i] + 1 ELSE logged[i]]
  BY DEF pollEvents, NextCursor
<1>3. ASSUME NEW i \in events
      PROVE  i \in Intents /\ logged[i] = 0 /\ status[i] = "Settled"
  <2>1. PICK k \in Retained : i \in window[k]
    BY <1>2 DEF Response
  <2>2. k \in 1 .. Retention /\ k + lag > Retention
    BY <1>1, <2>1 DEF Retained
  <2>3. ~ (logged[i] > 0) /\ status[i] = "Settled"
    BY <2>1, <2>2 DEF LoggedInv
  <2>4. QED
    BY <1>1, <2>3
<1>4. ASSUME NEW i \in Intents, logged'[i] > 0
      PROVE  /\ logged'[i] = 1 /\ status[i] = "Settled" /\ lag' # NoCursor
             /\ \A k \in 1 .. Retention : k + lag' > Retention => i \notin window[k]
  <2>1. lag' # NoCursor
    BY <1>1, <1>2
  <2>2. logged'[i] = 1 /\ status[i] = "Settled"
    <3>1. CASE i \in events
      BY <1>2, <1>3, <3>1
    <3>2. CASE i \notin events
      BY <1>2, <1>4, <3>2 DEF LoggedInv
    <3>3. QED
      BY <3>1, <3>2
  <2>3. CASE events = {}
    BY <1>2, <1>4, <2>1, <2>2, <2>3 DEF LoggedInv
  <2>4. CASE events # {}
    BY <1>1, <1>2, <2>1, <2>2, <2>4
  <2>5. QED
    BY <2>3, <2>4
<1>5. QED
  BY <1>1, <1>4 DEF LoggedInv

LEMMA LoggedStep ==
  ASSUME TypeOK, SequenceInv, LoggedInv, [Next]_vars
  PROVE  LoggedInv'
<1>1. CASE UNCHANGED <<window, status, lag, logged>>
  BY <1>1 DEF LoggedInv
<1>2. CASE PollEvents
  <2>1. UNCHANGED network
    BY <1>2 DEF PollEvents
  <2>2. CASE startCursor /\ UNCHANGED logged
    <3>1. \A i \in Intents : ~ (logged[i] > 0)
      BY <2>2 DEF startCursor, LoggedInv
    <3>2. UNCHANGED <<window, status>>
      BY <2>1 DEF network
    <3>3. QED
      BY <2>2, <3>1, <3>2 DEF LoggedInv
  <2>3. QED
    BY <1>2, <2>1, <2>2, LoggedPoll DEF PollEvents
<1>3. CASE Restart
  <2>1. UNCHANGED <<window, status>> /\ logged' = [i \in Intents |-> 0]
    BY <1>3 DEF Restart, FreshWatcher, network
  <2>2. QED
    BY <2>1 DEF LoggedInv
<1>4. CASE ChainStep
  <2>1. CASE ClosingStep /\ CursorAges
    BY <1>4, <2>1, LoggedClosing DEF ChainStep
  <2>2. ASSUME NEW j \in Intents, IntentExpires(j), UNCHANGED <<lag, logged>> PROVE LoggedInv'
    <3>1. /\ status[j] = "Open" /\ status' = [status EXCEPT ![j] = "Expired"]
          /\ UNCHANGED window /\ DOMAIN status = Intents
      BY <2>2 DEF IntentExpires, TypeOK, NetworkTypeOK
    <3>2. \A i : status[i] = "Settled" => status'[i] = "Settled"
      BY <3>1
    <3>3. QED
      BY <2>2, <3>1, <3>2 DEF LoggedInv
  <2>3. QED
    BY <1>4, <2>1, <2>2 DEF ChainStep
<1>5. CASE ~PollEvents /\ ~Restart /\ ~ChainStep
  <2>1. UNCHANGED <<window, status, lag, logged>>
    BY <1>5 DEF Next, BotStep, vars, network, watcher, EventsRefused, PollFeed, CycleEnds,
         StopsMidCycle, Handle, HandleHead, Build, Simulate, SimulationFails, Send,
         OutcomeArrives, WaitTimesOut, Wake, CallThrows, FeedFails, Signal, Crash, Publish
  <2>2. QED
    BY <1>1, <2>1
<1>6. QED
  BY <1>2, <1>3, <1>4, <1>5

-----------------------------------------------------------------------------
(* The theorems.                                                           *)

BotInv ==
  TypeOK /\ SequenceInv /\ AuthInv /\ SignalInv /\ AskedInv /\ HandInv /\ LoggedInv

LEMMA ConfiguredTyped ==
  ASSUME Configured, config # Undefined
  PROVE  config.dryRun \in BOOLEAN
<1>1. PICK loaded : /\ loaded = loadConfig(Environments[env])
                    /\ config = IF loaded = {} THEN Undefined
                                ELSE LET c == CHOOSE c \in loaded : TRUE
                                     IN  [dryRun |-> c.dryRun, startLedger |-> c.startLedger,
                                          intentFeedUrl |-> c.intentFeedUrl]
  BY DEF Configured
<1>2. PICK c \in loaded : config.dryRun = c.dryRun
  BY <1>1
<1>3. c.dryRun \in readBoolean(Environments[env], "DRY_RUN", FALSE)
  BY <1>1, <1>2, LoadedDryRun
<1>4. readBoolean(Environments[env], "DRY_RUN", FALSE) \subseteq BOOLEAN
  BY DEF readBoolean
<1>5. QED
  BY <1>2, <1>3, <1>4

LEMMA TypedInit == Init => TypeOK
<1> SUFFICES ASSUME Init PROVE TypeOK
  OBVIOUS
<1>1. /\ Retention \in Nat \ {0} /\ NoCursor \notin Int /\ MaxRuns \in Nat
      /\ \E i : i \in Intents
  BY NetworkAssumption, WatcherAssumption, BotAssumption
<1>2. NetworkTypeOK
  BY DEF Init, NetworkInit, NetworkTypeOK
<1>3. WatcherTypeOK
  <2>1. lag \in (0 .. Retention + 1) \cup {NoCursor}
    BY <1>1 DEF Init, FreshWatcher, StartLags
  <2>2. QED
    BY <2>1 DEF Init, FreshWatcher, WatcherTypeOK
<1>4. tx \in Tx
  <2> DEFINE first == CHOOSE i \in Intents : TRUE
  <2>1. first \in Intents
    BY <1>1
  <2> HIDE DEF first
  <2>2. tx = [intent |-> first, seq |-> 0, run |-> 0, auth |-> {}]
    BY DEF Init, first
  <2>3. QED
    BY <2>1, <2>2 DEF Tx
<1>5. config = Undefined \/ config.dryRun \in BOOLEAN
  BY ConfiguredTyped DEF Init
<1>6. QED
  BY <1>1, <1>2, <1>3, <1>4, <1>5 DEF Init, Starts, TypeOK, Awaits

LEMMA BotInit == Init => BotInv /\ NothingAuthorized
<1> SUFFICES ASSUME Init PROVE BotInv /\ NothingAuthorized
  OBVIOUS
<1>1. /\ account = 0 /\ pending = {} /\ outcomes = {}
      /\ DOMAIN status = Intents /\ late = 0 /\ Configured
      /\ pc = IF config = Undefined THEN "stopped" ELSE "poll"
      /\ \A i \in Intents : sent[i] = 0
  BY DEF Init, NetworkInit, Starts
<1>2. Tagged(tx)
  BY DEF Init, Tagged
<1>3. SequenceInv /\ AuthInv
  BY <1>1, <1>2 DEF SequenceInv, AuthInv
<1>4. SignalInv
  BY <1>1 DEF SignalInv
<1>5. AskedInv
  BY <1>1, ConfigSaysNo DEF AskedInv, Filling, Awaits
<1>6. NothingAuthorized
  BY <1>1 DEF NothingAuthorized
<1>7. HandInv /\ LoggedInv
  <2>1. /\ batch = <<>> /\ pc \notin Filling
        /\ window = [k \in 1 .. Retention |-> {}]
        /\ logged = [i \in Intents |-> 0]
    BY <1>1 DEF Init, NetworkInit, Starts, FreshWatcher, Filling
  <2>2. QED
    BY <1>1, <2>1 DEF HandInv, LoggedInv
<1>8. QED
  BY <1>3, <1>4, <1>5, <1>6, <1>7, TypedInit DEF BotInv

THEOREM BotInvariant == Spec => []BotInv
<1>1. BotInv /\ [Next]_vars => BotInv'
  BY TypedStep, SequenceStep, AuthStep, SignalStep, AskedStep, HandStep, LoggedStep DEF BotInv
<1>2. QED
  BY <1>1, BotInit, PTL DEF Spec

\* The bot and its network stay within their types, in every environment.
THEOREM BotTyped == Spec => []TypeOK
<1>1. BotInv => TypeOK
  BY DEF BotInv
<1>2. QED
  BY <1>1, BotInvariant, PTL

\* A process sends at most one fill of an intent, whatever the feed lists and
\* however often its loop is thrown out of a cycle (watcher.ts:33, 101-118).
THEOREM BotSentOncePerRun == Spec => []SentOncePerRun
<1>1. BotInv => SentOncePerRun
  BY DEF BotInv, HandInv, SentOncePerRun, TypeOK
<1>2. QED
  BY <1>1, BotInvariant, PTL

\* A process logs no event twice, for any retention and response limit, wherever
\* the cursor starts and however far it falls behind (watcher.ts:137-139).
THEOREM BotEventsLoggedOnce == Spec => []EventsLoggedOnce
<1>1. BotInv => EventsLoggedOnce
  BY DEF BotInv, LoggedInv, EventsLoggedOnce, TypeOK, WatcherTypeOK
<1>2. QED
  BY <1>1, BotInvariant, PTL

\* Of all the transactions the bot ever left in the mempool, over any number of
\* restarts, one at most can be applied next (client.ts:144-150).
THEOREM BotOneFillCanApply == Spec => []OneFillCanApply
<1>1. BotInv => OneFillCanApply
  BY DEF BotInv, SequenceInv, OneFillCanApply
<1>2. QED
  BY <1>1, BotInvariant, PTL

\* After a signal at most the transaction in hand is sent (index.ts:75-77).
THEOREM BotSignalStops == Spec => []SignalStopsSubmissions
<1>1. BotInv => SignalStopsSubmissions
  BY DEF BotInv, SignalInv, SignalStopsSubmissions
<1>2. QED
  BY <1>1, BotInvariant, PTL

\* Nothing is sent in an environment whose DRY_RUN does not clearly say no, for
\* every environment (config.ts:93-101, executor.ts:50-56).
THEOREM BotNeverSpendsUnasked == Spec => []NeverSpendsUnasked
<1>1. BotInv => NeverSpendsUnasked
  BY DEF BotInv, AskedInv, SaysNo, NeverSpendsUnasked
<1>2. QED
  BY <1>1, BotInvariant, PTL

\* On a host that excuses no party, none of the bot's transactions is ever
\* authorized, whatever was pre-signed, however often it restarts: withAuth leaves
\* on it the simulated entries or the trader's, never both (client.ts:222-244).
THEOREM BotNeverAuthorized ==
  ASSUME Excuses = {FALSE}
  PROVE  Spec => []NothingAuthorized
<1>1. BotInv /\ NothingAuthorized /\ [Next]_vars => NothingAuthorized'
  BY UnauthorizedStep DEF BotInv
<1>2. QED
  BY <1>1, BotInit, BotInvariant, PTL DEF Spec
=============================================================================
