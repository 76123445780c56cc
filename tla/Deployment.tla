----------------------------- MODULE Deployment -----------------------------
(***************************************************************************)
(* A deployment: the steps of scripts/deploy.sh and the calls by which the *)
(* router (init) and the mock tokens (initialize) get their admin.         *)
(*                                                                         *)
(* Every step of the script is a transaction of its own, the script stops  *)
(* at the first one that fails (set -e), a failed command may have been    *)
(* applied all the same, and the operator may run the script again.  What  *)
(* anybody else does in between is one action: to initialize a contract    *)
(* that is not initialized yet, authorized by the admin they name.         *)
(***************************************************************************)
EXTENDS Naturals, Sequences

CONSTANTS
  Fresh,       \* ids of contracts this script may create, 1 .. some number
  SellSac,     \* the asset contracts of SELL_ASSET and BUY_ASSET
  BuySac,
  Accounts,
  Signers,     \* the accounts SOURCE's key can sign for
  Unset,       \* an id or an admin that does not exist
  NoFile,      \* OUT_FILE does not exist
  Partial,     \* OUT_FILE was truncated and not written to the end
  MaxRuns      \* bound on runs of the script

Contracts == 1 .. Fresh \cup {SellSac, BuySac}

ASSUME DeploymentAssumption ==
  /\ Fresh \in Nat \ {0}
  /\ MaxRuns \in Nat
  /\ Signers \subseteq Accounts
  /\ Unset \notin Contracts \cup Accounts
  /\ {SellSac, BuySac} \cap (1 .. Fresh) = {}   \* ids are hashes of how they came about

VARIABLES
  code,      \* what each contract runs
  admin,     \* its Admin entry
  funded,    \* tokens with demo balances
  file,      \* OUT_FILE
  options,   \* what the environment of this run asks for
  ids,       \* ROUTER_ID, SELL_TOKEN_ID, BUY_TOKEN_ID
  todo,      \* the steps left of this run, <<>> when the script is not running
  runs

chain == <<code, admin, funded>>
vars  == <<chain, file, options, ids, todo, runs>>

Options == [dry : BOOLEAN, mode : {"sac", "mock", "none"}, seed : BOOLEAN, admin : Accounts]

Slots == {"router", "sell", "buy"}

Record == [router : Contracts, sell : Contracts \cup {Unset}, buy : Contracts \cup {Unset},
           admin : Accounts, sac : BOOLEAN]

ASSUME FileAssumption == {NoFile, Partial} \cap Record = {}

Steps == {"router", "init", "sellSac", "buySac", "sell", "sellInit", "buy", "buyInit",
          "seedSell", "seedBuy", "truncate", "write"}

TypeOK ==
  /\ code \in [Contracts -> {"none", "router", "token", "asset"}]
  /\ admin \in [Contracts -> Accounts \cup {Unset}]
  /\ funded \subseteq Contracts
  /\ file \in Record \cup {NoFile, Partial}
  /\ options \in Options
  /\ ids \in [Slots -> Contracts \cup {Unset}]
  /\ todo \in Seq(Steps)
  /\ runs \in 0 .. MaxRuns

-----------------------------------------------------------------------------
(* The contracts.                                                          *)

InitAgain(c, a) ==          \* mutant: no has_admin check
  /\ code[c] \in {"router", "token"}
  /\ admin' = [admin EXCEPT ![c] = a]

\* init and initialize: once, authorized by the admin itself.
init(c, a) ==
  /\ code[c] \in {"router", "token"}
  /\ admin[c] = Unset
  /\ admin' = [admin EXCEPT ![c] = a]

\* The admin who authorizes the call is the one it names, so it need not be the
\* deployment's: the contract and its admin are two transactions.
OtherInits ==
  /\ \E c \in 1 .. Fresh, a \in Accounts : init(c, a)
  /\ UNCHANGED <<code, funded, file, options, ids, todo, runs>>

-----------------------------------------------------------------------------
(* The script.                                                             *)

Plan(o) ==
  <<"router", "init">>
    \o (CASE o.mode = "sac"  -> <<"sellSac", "buySac">>
          [] o.mode = "mock" -> <<"sell", "sellInit", "buy", "buyInit">>
          [] o.mode = "none" -> <<>>)
    \o (IF o.mode = "mock" /\ o.seed THEN <<"seedSell", "seedBuy">> ELSE <<>>)
    \o <<"truncate", "write">>

Init ==
  /\ code = [c \in Contracts |-> "none"]
  /\ admin = [c \in Contracts |-> Unset]
  /\ funded = {}
  /\ file = NoFile
  /\ options \in Options
  /\ ids = [s \in Slots |-> Unset]
  /\ todo = <<>>
  /\ runs = 0

Start ==
  /\ todo = <<>> /\ runs < MaxRuns
  /\ options' \in Options
  /\ ids' = [s \in Slots |-> Unset]
  /\ todo' = Plan(options')
  /\ runs' = runs + 1
  /\ UNCHANGED <<chain, file>>

SlotOf(step) ==
  CASE step \in {"router", "init"} -> "router"
    [] step \in {"sell", "sellInit", "sellSac", "seedSell"} -> "sell"
    [] step \in {"buy", "buyInit", "buySac", "seedBuy"} -> "buy"

\* A contract is created at an id of its own; an asset has the one it has.
Target(step) ==
  CASE step = "sellSac" -> SellSac
    [] step = "buySac" -> BuySac
    [] step \in {"router", "sell", "buy"} ->
         CHOOSE c \in 1 .. Fresh :
           code[c] = "none" /\ \A d \in 1 .. Fresh : code[d] = "none" => c <= d

Deploys(step) ==
  /\ step \in {"router", "sell", "buy", "sellSac", "buySac"}
  /\ step \in {"router", "sell", "buy"} => \E c \in 1 .. Fresh : code[c] = "none"
  /\ code' = [code EXCEPT ![Target(step)] =
       CASE step = "router" -> "router"
         [] step \in {"sell", "buy"} -> "token"
         [] step \in {"sellSac", "buySac"} -> "asset"]
  /\ UNCHANGED <<admin, funded>>

\* The CLI signs for ADMIN_ADDRESS only if SOURCE's key can.
Initializes(step) ==
  /\ step \in {"init", "sellInit", "buyInit"}
  /\ ids[SlotOf(step)] # Unset /\ options.admin \in Signers
  /\ init(ids[SlotOf(step)], options.admin)
  /\ UNCHANGED <<code, funded>>

Mints(step) ==
  /\ step \in {"seedSell", "seedBuy"}
  /\ ids[SlotOf(step)] # Unset /\ admin[ids[SlotOf(step)]] \in Signers
  /\ funded' = funded \cup {ids[SlotOf(step)]}
  /\ UNCHANGED <<code, admin>>

\* What the command of a step does on the chain when it is executed.
Commands(step) == Deploys(step) \/ Initializes(step) \/ Mints(step)

OnChain == Steps \ {"truncate", "write"}

EvenDryRun == TRUE           \* mutant of Executes: run and capture always run

\* run and capture print instead of executing in a dry run.
Executes == ~options.dry

\* A command succeeds, and what it printed is the id of its contract.
CommandSucceeds ==
  /\ todo # <<>> /\ Head(todo) \in OnChain
  /\ IF Executes THEN Commands(Head(todo)) ELSE UNCHANGED chain
  /\ ids' = IF ~options.dry /\ Head(todo) \in {"router", "sell", "buy", "sellSac", "buySac"}
              THEN [ids EXCEPT ![SlotOf(Head(todo))] = Target(Head(todo))]
              ELSE ids
  /\ todo' = Tail(todo)
  /\ UNCHANGED <<file, options, runs>>

GoesOn == Tail(todo)         \* mutant of StopsAt: no set -e

StopsAt == <<>>

\* A command fails, applied or not, and the script with it.
CommandFails ==
  /\ todo # <<>> /\ Head(todo) \in OnChain
  /\ Executes
  /\ Commands(Head(todo)) \/ UNCHANGED chain
  /\ todo' = StopsAt
  /\ UNCHANGED <<file, options, ids, runs>>

\* The redirection truncates the file before the first line is written.
Truncates ==
  /\ todo # <<>> /\ Head(todo) = "truncate"
  /\ file' = IF options.dry THEN file ELSE Partial
  /\ todo' = Tail(todo)
  /\ UNCHANGED <<chain, options, ids, runs>>

Writes ==
  /\ todo # <<>> /\ Head(todo) = "write"
  /\ file' = IF options.dry THEN file
             ELSE [router |-> ids.router, sell |-> ids.sell, buy |-> ids.buy,
                   admin |-> options.admin, sac |-> options.mode = "sac"]
  /\ todo' = <<>>
  /\ UNCHANGED <<chain, options, ids, runs>>

\* The operator interrupts the script, or its host dies.
Interrupted ==
  /\ todo # <<>>
  /\ todo' = <<>>
  /\ UNCHANGED <<chain, file, options, ids, runs>>

Script == CommandSucceeds \/ CommandFails \/ Truncates \/ Writes

Next == Start \/ Script \/ Interrupted \/ OtherInits

Spec == Init /\ [][Next]_vars

-----------------------------------------------------------------------------
\* A deployment that was recorded is one that can be used: its router and, if
\* the script made them, its tokens run what they should and answer to the
\* recorded admin, whatever failed, was interrupted, run again or was
\* initialized by somebody else meanwhile (deploy.sh:172-232).
RecordedIsConfigured ==
  file \in Record =>
    /\ code[file.router] = "router" /\ admin[file.router] = file.admin
    /\ (~file.sac /\ file.sell # Unset) =>
         /\ file.sell # file.buy
         /\ \A t \in {file.sell, file.buy} : code[t] = "token" /\ admin[t] = file.admin
    /\ file.sac => \A t \in {file.sell, file.buy} : code[t] = "asset"

\* A dry run leaves chain and file alone: "print the plan, touch nothing"
\* (README.md:176), also the file an earlier run has written.
DryRunTouchesNothing ==
  [][(options.dry /\ todo' # todo) => UNCHANGED <<chain, file>>]_vars
=============================================================================
