------------------------------- MODULE Router -------------------------------
(***************************************************************************)
(* The settlement router, contracts/router/src/lib.rs, and the ledger it   *)
(* settles on.                                                             *)
(*                                                                         *)
(* A transaction is atomic: while it runs no other one does, and it leaves *)
(* no trace if it fails.  What can interleave is the router with itself: a *)
(* token is a contract, and one that is not honest may, inside a transfer, *)
(* return without moving anything, panic, or call the router again.  The   *)
(* calls in progress are the frames of `stack'; each frame keeps the       *)
(* ledger as it was when the call began, which is what a failing call      *)
(* rolls back to.                                                          *)
(*                                                                         *)
(* The Soroban host refuses to enter a contract that is already on the     *)
(* call stack.  execute_intent does not rely on it (lib.rs:149-151 claims  *)
(* the order checks-effects-interactions is enough), so the model takes    *)
(* the host's refusal as a constant and is checked both ways.              *)
(***************************************************************************)
EXTENDS SlipMath, TokenLedger, Sequences, FiniteSets, Functions

CONSTANTS
  Intents,           \* TraderIntent records
  Hashes,            \* BytesN<32>
  Hash,              \* the SHA-256 of an intent's XDR, a function on Intents
  Addresses,         \* accounts and contracts holding tokens
  Solvers,           \* the addresses that may call execute_intent
  RouterAddress,     \* env.current_contract_address()
  Nonces,
  HonestTokens,      \* tokens that behave as contracts/mock_token
  HostileTokens,     \* tokens that may do anything within a transfer
  InitialBalance,    \* of the honest tokens, before any fill
  Amounts,           \* values of actual_buy_amount
  HostAllowsReentry, \* FALSE on Soroban
  NoReceipt,         \* the value of a receipt entry that is absent
  MaxTime,           \* bound on ledger timestamps
  MaxDepth,          \* bound on nested calls of the router
  MaxSigned          \* bound on signed authorization entries in circulation

Tokens == HonestTokens \cup HostileTokens

ASSUME IntentsAssumption ==
  Intents \subseteq
    [trader : Addresses, sell_token : Tokens, buy_token : Tokens,
     sell_amount : Int, min_buy_amount : Int, max_slippage_bps : Nat,
     deadline : Nat, nonce : Nonces, solver_fee_bps : Nat]

\* SHA-256 of the canonical encoding of every field (lib.rs:105-112) is taken
\* to be collision-free.
ASSUME HashAssumption ==
  /\ Hash \in [Intents -> Hashes]
  /\ \A i, j \in Intents : Hash[i] = Hash[j] => i = j

\* Nobody can sign for the router, and it does not call itself.
ASSUME AddressAssumption ==
  /\ Solvers \subseteq Addresses
  /\ RouterAddress \in Addresses \ Solvers
  /\ \A i \in Intents : i.trader # RouterAddress

ASSUME ValueAssumption ==
  /\ Amounts \subseteq Int
  /\ InitialBalance \in [HonestTokens -> [Addresses -> Int]]
  /\ HonestTokens \cap HostileTokens = {}
  /\ HostAllowsReentry \in BOOLEAN

ASSUME BoundAssumption == MaxTime \in Nat /\ MaxDepth \in Nat /\ MaxSigned \in Nat

VARIABLES
  ledger,    \* everything a failing call undoes, see Ledger
  stack,     \* the calls of execute_intent in progress, outermost first
  now        \* env.ledger().timestamp()

vars == <<ledger, stack, now>>

-----------------------------------------------------------------------------
(* Types.                                                                  *)

IntentStatus == {"Active", "Filled", "Cancelled"}   \* Expired is never stored

Calls == [solver : Solvers, intent : Intents, amount : Amounts]

\* solver.require_auth() and intent.trader.require_auth(): what each party to a
\* call signs.  An entry binds the whole call, as require_auth covers every
\* argument.
Entries(c) == {<<c.solver, c>>, <<c.intent.trader, c>>}

FillEntries == UNION {Entries(c) : c \in Calls}

FillReceipt ==
  [intent_hash : Hashes, solver : Solvers, bought_amount : Amounts,
   timestamp : 0 .. MaxTime]

ASSUME NoReceiptAssumption == NoReceipt \notin FillReceipt

Events == [name : {"IntentFilled", "IntentCancelled"}, intent_hash : Hashes]

Ledger ==
  [status      : [Hashes -> IntentStatus],
   nonces      : SUBSET (Addresses \X Nonces),
   receipt     : [Hashes -> FillReceipt \cup {NoReceipt}],
   balance     : [HonestTokens -> [Addresses -> Int]],
   events      : Seq(Events),
   fillAuths   : [FillEntries -> Nat],   \* how many are signed and unspent
   cancelAuths : [Intents -> Nat]]       \* likewise, signed by the trader

Legs == {"sell", "pull", "pay", "fee"}

Frame == [call : Calls, pc : Legs \cup {"receipt"}, saved : Ledger]

TypeOK ==
  /\ ledger \in Ledger
  /\ stack \in Seq(Frame)
  /\ now \in 0 .. MaxTime

-----------------------------------------------------------------------------
get_intent_hash(i) == Hash[i]

NonceKey(i) == <<i.trader, i.nonce>>

\* The stored state an execution and a cancellation both require.
OpenByStatus(i) ==           \* mutant: no replay check
  ledger.status[get_intent_hash(i)] = "Active"

IsOpen(i) ==
  /\ ledger.status[get_intent_hash(i)] = "Active"
  /\ NonceKey(i) \notin ledger.nonces

Top == stack[Len(stack)]

Popped == SubSeq(stack, 1, Len(stack) - 1)

\* Entries in circulation.  One is signed with a nonce of its own, so the same
\* call can be signed any number of times, and each use takes one away.
InCirculation == SumFunction(ledger.fillAuths) + SumFunction(ledger.cancelAuths)

Spend(signed, used) ==
  [e \in DOMAIN signed |->
     IF e \in used /\ signed[e] > 0 THEN signed[e] - 1 ELSE signed[e]]

\* Both parties have signed the call, and they are two.
AnyAmountAuthorized(c) ==    \* mutant: the trader's entry binds the intent only
  /\ c.solver # c.intent.trader
  /\ ledger.fillAuths[<<c.solver, c>>] > 0
  /\ \E e \in FillEntries :
       /\ ledger.fillAuths[e] > 0
       /\ e[1] = c.intent.trader /\ e[2].intent = c.intent

Authorized(c) ==
  /\ c.solver # c.intent.trader
  /\ \A e \in Entries(c) : ledger.fillAuths[e] > 0

\* What execute_intent commits before the first transfer.
InteractionsFirst(c) ==      \* mutant: status and nonce are left for later
  [ledger EXCEPT !.fillAuths = Spend(@, Entries(c))]

Effects(c) ==
  [ledger EXCEPT
     !.status[get_intent_hash(c.intent)] = "Filled",
     !.nonces = @ \cup {NonceKey(c.intent)},
     !.fillAuths = Spend(@, Entries(c))]

\* The token transfers of execute_intent, in order.
GrossLeg(c, pc) ==           \* mutant: the trader is paid before the fee
  CASE pc = "sell" -> [token |-> c.intent.sell_token, from |-> c.intent.trader,
                       to |-> c.solver, amount |-> c.intent.sell_amount]
    [] pc = "pull" -> [token |-> c.intent.buy_token, from |-> c.solver,
                       to |-> RouterAddress, amount |-> c.amount]
    [] pc = "pay"  -> [token |-> c.intent.buy_token, from |-> RouterAddress,
                       to |-> c.intent.trader, amount |-> c.amount]
    [] pc = "fee"  -> [token |-> c.intent.buy_token, from |-> RouterAddress,
                       to |-> c.solver, amount |-> solver_fee(c.intent, c.amount)]

Leg(c, pc) ==
  LET i == c.intent IN
  CASE pc = "sell" -> [token |-> i.sell_token, from |-> i.trader,
                       to |-> c.solver, amount |-> i.sell_amount]
    [] pc = "pull" -> [token |-> i.buy_token, from |-> c.solver,
                       to |-> RouterAddress, amount |-> c.amount]
    [] pc = "pay"  -> [token |-> i.buy_token, from |-> RouterAddress,
                       to |-> i.trader, amount |-> trader_proceeds(i, c.amount)]
    [] pc = "fee"  -> [token |-> i.buy_token, from |-> RouterAddress,
                       to |-> c.solver, amount |-> solver_fee(i, c.amount)]

AfterLegNoFee(c, pc) ==      \* mutant: the fee stays at the router
  CASE pc = "sell" -> "pull"
    [] pc = "pull" -> "pay"
    [] pc \in {"pay", "fee"} -> "receipt"

AfterLeg(c, pc) ==
  CASE pc = "sell" -> "pull"
    [] pc = "pull" -> "pay"
    [] pc = "pay"  -> IF solver_fee(c.intent, c.amount) > 0 THEN "fee" ELSE "receipt"
    [] pc = "fee"  -> "receipt"

\* The receipt of a fill made now, and the events.
NetReceiptOf(c) ==           \* mutant: records the proceeds, not the gross amount
  [intent_hash |-> get_intent_hash(c.intent), solver |-> c.solver,
   bought_amount |-> trader_proceeds(c.intent, c.amount), timestamp |-> now]

ReceiptOf(c) ==
  [intent_hash |-> get_intent_hash(c.intent), solver |-> c.solver,
   bought_amount |-> c.amount, timestamp |-> now]

MislabelledEvent(name, i) == \* mutant: every event is a cancellation
  [name |-> "IntentCancelled", intent_hash |-> get_intent_hash(i)]

Event(name, i) == [name |-> name, intent_hash |-> get_intent_hash(i)]

InTransfer == stack # <<>> /\ Top.pc \in Legs

InHostileToken == InTransfer /\ Leg(Top.call, Top.pc).token \in HostileTokens

\* The router can be entered: at the top of a transaction, or from within a
\* hostile token if the host lets it.
CanEnter ==
  \/ stack = <<>>
  \/ InHostileToken /\ HostAllowsReentry /\ Len(stack) < MaxDepth

-----------------------------------------------------------------------------
Init ==
  /\ ledger = [status      |-> [h \in Hashes |-> "Active"],
               nonces      |-> {},
               receipt     |-> [h \in Hashes |-> NoReceipt],
               balance     |-> InitialBalance,
               events      |-> <<>>,
               fillAuths   |-> [e \in FillEntries |-> 0],
               cancelAuths |-> [i \in Intents |-> 0]]
  /\ stack = <<>>
  /\ now = 0

\* An account signs an authorization entry off-chain, perhaps once more.
SignFill ==
  /\ stack = <<>>
  /\ InCirculation < MaxSigned
  /\ \E e \in FillEntries : ledger' = [ledger EXCEPT !.fillAuths[e] = @ + 1]
  /\ UNCHANGED <<stack, now>>

SignCancel ==
  /\ stack = <<>>
  /\ InCirculation < MaxSigned
  /\ \E i \in Intents : ledger' = [ledger EXCEPT !.cancelAuths[i] = @ + 1]
  /\ UNCHANGED <<stack, now>>

\* An entry passes its expiration ledger before anybody used it.
EntryExpires ==
  /\ stack = <<>>
  /\ \/ \E e \in FillEntries :
          /\ ledger.fillAuths[e] > 0
          /\ ledger' = [ledger EXCEPT !.fillAuths[e] = @ - 1]
     \/ \E i \in Intents :
          /\ ledger.cancelAuths[i] > 0
          /\ ledger' = [ledger EXCEPT !.cancelAuths[i] = @ - 1]
  /\ UNCHANGED <<stack, now>>

LedgerCloses ==
  /\ stack = <<>>
  /\ now < MaxTime
  /\ now' = now + 1
  /\ UNCHANGED <<ledger, stack>>

\* execute_intent up to its effects.  A call that any check rejects changes
\* nothing and returns to its caller.
execute_intent(c) ==
  /\ CanEnter
  /\ Authorized(c)
  /\ AcceptsTerms(c.intent, c.amount, now)
  /\ IsOpen(c.intent)
  /\ ledger' = Effects(c)
  /\ stack' = Append(stack, [call |-> c, pc |-> "sell", saved |-> ledger])
  /\ UNCHANGED now

\* A transfer returns: an honest token has moved the balance, a hostile one
\* has not touched any balance the model follows.
TransferReturns ==
  /\ InTransfer
  /\ LET leg == Leg(Top.call, Top.pc) IN
       \/ /\ leg.token \in HonestTokens
          /\ CanMove(ledger.balance[leg.token], leg.from, leg.to, leg.amount)
          /\ ledger' = [ledger EXCEPT
               !.balance[leg.token] = Moved(@, leg.from, leg.to, leg.amount)]
       \/ /\ leg.token \in HostileTokens
          /\ UNCHANGED ledger
  /\ stack' = [stack EXCEPT ![Len(stack)].pc = AfterLeg(Top.call, @)]
  /\ UNCHANGED now

\* A transfer panics, and the call with it.  If the caller is a token that
\* catches the failure, only this call is undone.
TransferFails ==
  /\ InTransfer
  /\ LET leg == Leg(Top.call, Top.pc) IN
       leg.token \in HonestTokens =>
         ~CanMove(ledger.balance[leg.token], leg.from, leg.to, leg.amount)
  /\ ledger' = Top.saved
  /\ stack' = Popped
  /\ UNCHANGED now

\* The transaction exceeds its resource budget, or a failure propagates to the
\* outermost call: everything since the transaction began is undone.
TransactionAborts ==
  /\ stack # <<>>
  /\ ledger' = stack[1].saved
  /\ stack' = <<>>
  /\ UNCHANGED now

\* The receipt and the event, after the last transfer.
execute_intent_returns ==
  /\ stack # <<>>
  /\ Top.pc = "receipt"
  /\ LET h == get_intent_hash(Top.call.intent) IN
       ledger' = [ledger EXCEPT
         !.receipt[h] = ReceiptOf(Top.call),
         !.events = Append(@, Event("IntentFilled", Top.call.intent))]
  /\ stack' = Popped
  /\ UNCHANGED now

CancelKeepsNonce(i) ==       \* mutant: the nonce survives a cancellation
  [ledger EXCEPT
     !.status[get_intent_hash(i)] = "Cancelled",
     !.cancelAuths = Spend(@, {i}),
     !.events = Append(@, Event("IntentCancelled", i))]

CancelEffects(i) ==
  [ledger EXCEPT
     !.status[get_intent_hash(i)] = "Cancelled",
     !.nonces = @ \cup {NonceKey(i)},
     !.cancelAuths = Spend(@, {i}),
     !.events = Append(@, Event("IntentCancelled", i))]

cancel_intent(i) ==
  /\ CanEnter
  /\ ledger.cancelAuths[i] > 0
  /\ IsOpen(i)
  /\ ledger' = CancelEffects(i)
  /\ UNCHANGED <<stack, now>>

Next ==
  \/ SignFill
  \/ SignCancel
  \/ EntryExpires
  \/ LedgerCloses
  \/ \E c \in Calls : execute_intent(c)
  \/ TransferReturns
  \/ TransferFails
  \/ TransactionAborts
  \/ execute_intent_returns
  \/ \E i \in Intents : cancel_intent(i)

Spec == Init /\ [][Next]_vars
=============================================================================
