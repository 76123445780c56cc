------------------------------ MODULE Network ------------------------------
(***************************************************************************)
(* The Stellar network as the solver bot meets it: the chain, the router's *)
(* orders on it, the bot's account and the transactions it has sent.       *)
(*                                                                         *)
(* The router is reduced to whether it would still accept each intent       *)
(* (module Router says when that is); the rest is external to the          *)
(* repository and modelled from how the SDK and the bot use it.  Ledgers   *)
(* are not numbered: `window' holds the events of the ledgers the RPC      *)
(* server retains, newest last, so the chain can go on for ever.           *)
(***************************************************************************)
EXTENDS Naturals, Sequences, FiniteSets

CONSTANTS
  Intents,
  Contended,       \* bound on the intents others settle or let expire
  Retention,       \* ledgers of events the RPC server keeps
  TxLifetime,      \* ledgers a transaction is valid for, setTimeout(60)
  Excuses          \* what the host may do about a source account without an
                   \* entry: {FALSE}, refuse it, is Soroban

ASSUME NetworkAssumption ==
  /\ Intents # {}
  /\ Contended \subseteq Intents
  /\ Retention \in Nat \ {0}
  /\ TxLifetime \in Nat \ {0}
  /\ Excuses \subseteq BOOLEAN /\ Excuses # {}

VARIABLES
  window,     \* the intents settled in each retained ledger
  status,     \* Open while execute_intent would accept the intent
  account,    \* sequence number of the solver's account
  pending,    \* transactions in the mempool
  outcomes    \* of the transactions that were applied

network == <<window, status, account, pending, outcomes>>

\* A transaction: `run' tells apart the processes that built it, `auth' is the
\* set of parties whose authorization entries it carries signed.
Tx == [intent : Intents, seq : Nat, run : Nat, auth : SUBSET {"solver", "trader"}]

\* "overtaken": the order was settled or its deadline had passed; "other":
\* a balance did not suffice, a signed entry had passed its expiration ledger,
\* an archived one was not restored, or the resources ran out.
Results == {"ok", "unauthorized", "overtaken", "other"}

Outcome == [tx : Tx, result : Results]

NetworkTypeOK ==
  /\ window \in [1 .. Retention -> SUBSET Intents]
  /\ status \in [Intents -> {"Open", "Settled", "Expired"}]
  /\ account \in Nat
  /\ \A p \in pending : p.tx \in Tx /\ p.ledgers \in 1 .. TxLifetime
  /\ outcomes \subseteq Outcome

NetworkInit ==
  /\ window = [k \in 1 .. Retention |-> {}]
  /\ status = [i \in Intents |-> "Open"]
  /\ account = 0
  /\ pending = {}
  /\ outcomes = {}

\* A ledger closes with the given settlements in it; transactions whose time
\* bounds have passed are no longer valid.
Closes(settled, waiting) ==
  /\ window' = Append(Tail(window), settled)
  /\ status' = [i \in Intents |-> IF i \in settled THEN "Settled" ELSE status[i]]
  /\ pending' = {[p EXCEPT !.ledgers = @ - 1] : p \in {q \in waiting : q.ledgers > 1}}

LedgerCloses == Closes({}, pending) /\ UNCHANGED <<account, outcomes>>

\* Somebody else fills the intent, or its trader cancels it.
RivalSettles(i) ==
  /\ i \in Contended /\ status[i] = "Open"
  /\ Closes({i}, pending)
  /\ UNCHANGED <<account, outcomes>>

\* The deadline passes: nothing is stored and no event is published.
IntentExpires(i) ==
  /\ i \in Contended /\ status[i] = "Open"
  /\ status' = [status EXCEPT ![i] = "Expired"]
  /\ UNCHANGED <<window, account, pending, outcomes>>

\* execute_intent asks both parties for authorization, and the solver is the
\* transaction's source account.
Authorized(tx, excused) ==
  /\ "trader" \in tx.auth
  /\ "solver" \in tx.auth \/ excused

\* How a transaction applied now may end, in the order execute_intent looks.
Ends(tx, excused) ==
  IF ~Authorized(tx, excused) THEN {"unauthorized"}
  ELSE IF status[tx.intent] # "Open" THEN {"overtaken"}
  ELSE {"ok", "other"}

\* A transaction is applied when its sequence number is the next one of the
\* account; applied is not the same as successful.
Applies(p) ==
  /\ p \in pending
  /\ p.tx.seq = account + 1
  /\ account' = p.tx.seq
  /\ \E excused \in Excuses : \E result \in Ends(p.tx, excused) :
       /\ outcomes' = outcomes \cup {[tx |-> p.tx, result |-> result]}
       /\ Closes(IF result = "ok" THEN {p.tx.intent} ELSE {}, pending \ {p})

\* The steps that close a ledger.
ClosingStep ==
  \/ LedgerCloses
  \/ \E i \in Intents : RivalSettles(i)
  \/ \E p \in pending : Applies(p)
=============================================================================
