---------------------------- MODULE MCSolverBot ----------------------------
(* Bots with up to three intents to choose from: two that are worth        *)
(* filling, of which others may settle the first, and one whose evaluation *)
(* throws, as a buy price that rounds to zero makes it (Evaluator).  The   *)
(* bot is started with a plain environment, without a feed, with several   *)
(* texts for DRY_RUN and START_LEDGER, and with a price list that throws.  *)
EXTENDS SolverBot, TLC

CONSTANTS Good, Other, Poison, NotYet

MCVerdict == [i \in Intents |-> IF i = Poison THEN "throw" ELSE "fill"]

Word(w) == [word |-> w, shape |-> "none", number |-> NaN, bigint |-> NaN,
            prefix |-> NaN, json |-> NaN]

MCNetworks ==
  [n \in {"testnet", "futurenet", "mainnet"} |->
     [rpcUrl |-> Word("rpc"), networkPassphrase |-> Word(n)]]

NoFeed ==
  [STELLAR_NETWORK   |-> Word("testnet"),
   ROUTER_CONTRACT_ID |-> [Word("router") EXCEPT !.shape = "contract"],
   SOLVER_SECRET_KEY |-> [Word("seed") EXCEPT !.shape = "secret"]]

Plain == NoFeed @@ [INTENT_FEED_URL |-> Word("feed")]

With(key, text) == Plain @@ (key :> text)

MCPlain == [plain |-> Plain]

MCEnvironments ==
  [plain    |-> Plain,
   noFeed   |-> NoFeed,
   dryRun   |-> With("DRY_RUN", Word("yes")),
   unclear  |-> With("DRY_RUN", Word("on")),
   since    |-> With("START_LEDGER", [Word("12k") EXCEPT !.prefix = 12])
                  @@ [DRY_RUN |-> Word("no")],
   garbled  |-> With("START_LEDGER", Word("latest")),
   freeLunch |-> With("TOKEN_PRICES", [Word("free") EXCEPT !.json = [Good |-> 0]])]
=============================================================================
