------------------------------- MODULE Config -------------------------------
(***************************************************************************)
(* The solver bot's configuration, packages/solver-bot/src/config.ts: what *)
(* the process makes of its environment.                                   *)
(*                                                                         *)
(* An environment is a function from the variables that are set to texts,  *)
(* and a text is the record of what the conversions of the code make of it *)
(* (Text, below).  A reader is the set of its results: one value, or none  *)
(* where the code throws ConfigError.  A configuration is a record of such *)
(* results, so there is one unless some reader throws.                     *)
(***************************************************************************)
EXTENDS Integers

CONSTANTS
  NETWORKS,     \* the SDK's presets by name, types.ts
  Undefined,
  NaN           \* what a conversion that fails returns

ASSUME ConfigAssumption ==
  /\ DOMAIN NETWORKS = {"testnet", "futurenet", "mainnet"}
  /\ Undefined \notin Int /\ NaN \notin Int

\* word: trimmed and in lower case, "" when blank; shape: the strkey pattern it
\* matches; number, bigint, prefix and json: the results of Number(), BigInt(),
\* parseInt() and JSON.parse(), the last a function from tokens to prices.
Text == {"word", "shape", "number", "bigint", "prefix", "json"}

Affirmative == {"true", "1", "yes"}
Negative    == {"false", "0", "no"}

-----------------------------------------------------------------------------
\* Unset and blank are the same.
IsSet(env, key) == key \in DOMAIN env /\ env[key].word # ""

readString(env, key, fallback) == IF IsSet(env, key) THEN env[key] ELSE fallback

readRequired(env, key) == {text \in {readString(env, key, Undefined)} : text # Undefined}

\* The pattern test on a contract id or a secret key.
Shaped(texts, shape) == {text \in texts : text.shape = shape}

readInteger(env, key, fallback) ==
  IF IsSet(env, key) THEN {n \in {env[key].number} : n \in Nat \ {0}} ELSE {fallback}

readBigInt(env, key, fallback) ==
  IF IsSet(env, key) THEN {n \in {env[key].bigint} : n \in Int} ELSE {fallback}

readBooleanLoosely(env, key, fallback) == \* mutant: anything else counts as no
  {IF IsSet(env, key) THEN env[key].word \in Affirmative ELSE fallback}

readBoolean(env, key, fallback) ==
  IF IsSet(env, key)
    THEN {b \in BOOLEAN : env[key].word \in IF b THEN Affirmative ELSE Negative}
    ELSE {fallback}

readTokenPrices(env) ==
  IF IsSet(env, "TOKEN_PRICES")
    THEN {prices \in {env["TOKEN_PRICES"].json} :
            prices # NaN /\ \A t \in DOMAIN prices : prices[t] \in Nat \ {0}}
    ELSE {<<>>}

\* Anything unknown is info.
parseLogLevel(text) ==
  IF text # Undefined /\ text.word \in {"debug", "warn", "error"} THEN text.word ELSE "info"

\* The preset of STELLAR_NETWORK, which must be known if it is set.
preset(env) ==
  IF IsSet(env, "STELLAR_NETWORK")
    THEN {NETWORKS[n] : n \in {env["STELLAR_NETWORK"].word} \cap DOMAIN NETWORKS}
    ELSE {[rpcUrl |-> Undefined, networkPassphrase |-> Undefined]}

\* An explicit setting overrides the preset; one of them is needed.
FromPreset(env, key, field) ==
  {v \in {readString(env, key, p[field]) : p \in preset(env)} : v # Undefined}

\* parseInt's result is taken as it is, NaN included, and so are the ceiling on
\* the fee and the feed's address.
loadConfig(env) ==
  [rpcUrl            : FromPreset(env, "SOROBAN_RPC_URL", "rpcUrl"),
   networkPassphrase : FromPreset(env, "NETWORK_PASSPHRASE", "networkPassphrase"),
   routerContractId  : Shaped(readRequired(env, "ROUTER_CONTRACT_ID"), "contract"),
   solverSecretKey   : Shaped(readRequired(env, "SOLVER_SECRET_KEY"), "secret"),
   intentFeedUrl     : {readString(env, "INTENT_FEED_URL", Undefined)},
   pollIntervalMs    : readInteger(env, "POLL_INTERVAL_MS", 5000),
   startLedger       : {IF IsSet(env, "START_LEDGER") THEN env["START_LEDGER"].prefix
                        ELSE Undefined},
   minProfit         : readBigInt(env, "MIN_PROFIT", 0),
   txCost            : readBigInt(env, "TX_COST", 0),
   maxFeeStroops     : {readString(env, "MAX_FEE_STROOPS", "100000")},
   txTimeoutMs       : readInteger(env, "TX_TIMEOUT_MS", 60000),
   tokenPrices       : readTokenPrices(env),
   logLevel          : {parseLogLevel(readString(env, "LOG_LEVEL", Undefined))},
   dryRun            : readBoolean(env, "DRY_RUN", FALSE),
   allowHttp         : readBoolean(env, "ALLOW_HTTP", FALSE)]
=============================================================================
