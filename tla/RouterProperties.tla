------------------------- MODULE RouterProperties -------------------------
(***************************************************************************)
(* What the router promises.                                               *)
(***************************************************************************)
EXTENDS Router

\* The ledger as everyone outside the running transaction sees it.
Committed == IF stack = <<>> THEN ledger ELSE stack[1].saved

FilledIn(L) == {i \in Intents : L.receipt[Hash[i]] # NoReceipt}

-----------------------------------------------------------------------------
OneSettlementPerNonce(L) ==
  \A i, j \in Intents :
    (i # j /\ NonceKey(i) = NonceKey(j)) =>
      (L.status[Hash[i]] = "Active" \/ L.status[Hash[j]] = "Active")

\* A (trader, nonce) pair settles at most one of the intents that carry it, by
\* a fill or by a cancellation, at every moment and in whatever order calls
\* nest: the replay guard of types.rs:46 and storage.rs:90.
NonceSettlesOnce == OneSettlementPerNonce(ledger)

\* No two executions in progress settle the same order or spend the same
\* nonce: "a hostile token cannot re-enter and double-fill the order"
\* (lib.rs:149-151).
NoDoubleFillInFlight ==
  \A k, l \in 1 .. Len(stack) :
    k # l => NonceKey(stack[k].call.intent) # NonceKey(stack[l].call.intent)

\* Between transactions an intent is Filled exactly if it has a receipt, and
\* the receipt is its own: "Settled by a solver; a fill receipt exists"
\* (types.rs:12).
ReceiptsMatchStatus ==
  stack = <<>> =>
    \A h \in Hashes :
      /\ ledger.status[h] = "Filled" <=> ledger.receipt[h] # NoReceipt
      /\ ledger.receipt[h] # NoReceipt => ledger.receipt[h].intent_hash = h

\* Between transactions the event stream tells the same story as the stored
\* status: one event for every settled intent, of the right kind, and none for
\* the others.  Off-chain observers rebuild the status from it.
EventsMatchStatus ==
  stack = <<>> =>
    \A h \in Hashes :
      LET Published(name) ==
            {k \in 1 .. Len(ledger.events) :
               ledger.events[k] = [name |-> name, intent_hash |-> h]}
      IN  /\ Cardinality(Published("IntentFilled"))
               = IF ledger.status[h] = "Filled" THEN 1 ELSE 0
          /\ Cardinality(Published("IntentCancelled"))
               = IF ledger.status[h] = "Cancelled" THEN 1 ELSE 0

WithinTerms(L) ==
  \A i \in Intents :
    LET r == L.receipt[Hash[i]] IN
      r # NoReceipt =>
        /\ r.solver # i.trader
        /\ r.timestamp <= i.deadline
        /\ r.bought_amount >= i.min_buy_amount
        /\ shortfall(i, r.bought_amount) * BPS_DENOMINATOR
             < (i.max_slippage_bps + 1) * i.min_buy_amount

\* Every receipt is of a fill within its trader's terms: by somebody else, in
\* time, for at least min_buy_amount, and net of the fee within the tolerance.
ReceiptsWithinTerms == WithinTerms(ledger)

\* What the fill of `i' moves to (or from) account `a' in token `t': delivery
\* against payment, with nothing left at the router.
NetFlow(L, t, a, i) ==
  LET r == L.receipt[Hash[i]]
      Sold   == IF t = i.sell_token THEN i.sell_amount ELSE 0
      Bought == IF t = i.buy_token THEN trader_proceeds(i, r.bought_amount) ELSE 0
  IN  CASE a = i.trader -> Bought - Sold
        [] a = r.solver -> Sold - Bought
        [] OTHER -> 0

NetFlows(L, t, a) ==
  SumFunctionOnSet([i \in FilledIn(L) |-> NetFlow(L, t, a, i)], FilledIn(L))

\* Between transactions every honest balance is the initial one plus the flows
\* of the receipts: both sides of every fill happened, once, and nothing else
\* did; the router itself ends with what it had (lib.rs:226-239).
BalancesFollowReceipts ==
  stack = <<>> =>
    \A t \in HonestTokens, a \in Addresses :
      ledger.balance[t][a] = InitialBalance[t][a] + NetFlows(ledger, t, a)

-----------------------------------------------------------------------------
\* A fill that becomes visible used up two signed entries, the solver's and the
\* trader's, each for exactly the recorded solver, intent and amount: there are
\* fewer of them in circulation than before the transaction (lib.rs:158-166).
FillSpendsBothSignatures ==
  [][\A i \in Intents :
       (/\ Committed.status[Hash[i]] # "Filled"
        /\ Committed'.status[Hash[i]] = "Filled") =>
         LET r == Committed'.receipt[Hash[i]]
             c == [solver |-> r.solver, intent |-> i, amount |-> r.bought_amount]
         IN  /\ \A e \in Entries(c) : Committed'.fillAuths[e] < Committed.fillAuths[e]
             /\ Cardinality(Entries(c)) = 2]_vars

-----------------------------------------------------------------------------
(* The router implements IntentLifecycle: seen from outside the running    *)
(* transaction, its calls settle orders in one step each.                  *)

OrderFills == [solver : Solvers, amount : Amounts, time : 0 .. MaxTime]

OutcomeOf(i) ==
  LET h == get_intent_hash(i)
      r == Committed.receipt[h]
  IN  IF Committed.status[h] = "Filled"
        THEN [status |-> "Filled",
              fill |-> [solver |-> r.solver, amount |-> r.bought_amount, time |-> r.timestamp]]
        ELSE [status |-> Committed.status[h]]

AcceptableFill(i, f, time) ==
  f.time = time /\ f.solver # i.trader /\ AcceptsTerms(i, f.amount, time)

Lifecycle == INSTANCE IntentLifecycle WITH
  Orders     <- Intents,
  Key        <- [i \in Intents |-> NonceKey(i)],
  Fills      <- OrderFills,
  Acceptable <- AcceptableFill,
  outcome    <- [i \in Intents |-> OutcomeOf(i)],
  clock      <- now

\* Every step of the router is a step of the abstract order book or leaves it
\* unchanged: a transaction settles all its orders at once or none, each fill
\* within the terms at the time it is made, and a shared nonce only once.
ImplementsLifecycle == Lifecycle!Spec
=============================================================================
