-------------------------- MODULE DeploymentProofs --------------------------
(***************************************************************************)
(* What holds of a deployment for any number of contracts, accounts and    *)
(* runs of the script: a dry run touches nothing, and what is recorded has *)
(* been configured.                                                        *)
(***************************************************************************)
EXTENDS Deployment, FoldTheorems, SequenceTheorems

-----------------------------------------------------------------------------
\* No admin is replaced, whoever set it.
AdminKept == \A c \in Contracts : admin[c] # Unset => admin'[c] = admin[c]

-----------------------------------------------------------------------------
DryKept == (options.dry /\ todo' # todo) => UNCHANGED <<chain, file>>

LEMMA DryStep ==
  ASSUME Next
  PROVE  DryKept
<1>1. CASE Start
  BY <1>1 DEF Start, DryKept
<1>2. CASE CommandSucceeds
  BY <1>2 DEF CommandSucceeds, Executes, DryKept
<1>3. CASE CommandFails
  BY <1>3 DEF CommandFails, Executes, DryKept
<1>4. CASE Truncates
  BY <1>4 DEF Truncates, DryKept
<1>5. CASE Writes
  BY <1>5 DEF Writes, DryKept
<1>6. CASE Interrupted
  BY <1>6 DEF Interrupted, DryKept
<1>7. CASE OtherInits
  BY <1>7 DEF OtherInits, DryKept
<1>8. QED
  BY <1>1, <1>2, <1>3, <1>4, <1>5, <1>6, <1>7 DEF Next, Script

\* No step of a dry run, its last ones and its failures included, changes the
\* chain or the file of an earlier run (deploy.sh, README.md:176).
THEOREM DeploymentDryRun == Spec => DryRunTouchesNothing
<1>1. [Next]_vars => [DryKept]_vars
  BY DryStep
<1>2. Spec => [][DryKept]_vars
  BY <1>1, PTL DEF Spec
<1>3. QED
  BY <1>2 DEF DryRunTouchesNothing, DryKept

-----------------------------------------------------------------------------
(* The plan of a run.                                                      *)

Planned(o) ==
  {"router", "init", "truncate", "write"}
    \cup (CASE o.mode = "sac"  -> {"sellSac", "buySac"}
            [] o.mode = "mock" -> {"sell", "sellInit", "buy", "buyInit"}
            [] o.mode = "none" -> {})
    \cup (IF o.mode = "mock" /\ o.seed THEN {"seedSell", "seedBuy"} ELSE {})

\* The order of the steps in the script.
Rank ==
  [step \in Steps |->
     CASE step = "router" -> 1
       [] step = "init" -> 2
       [] step \in {"sell", "sellSac"} -> 3
       [] step = "sellInit" -> 4
       [] step \in {"buy", "buySac"} -> 5
       [] step = "buyInit" -> 6
       [] step = "seedSell" -> 7
       [] step = "seedBuy" -> 8
       [] step = "truncate" -> 9
       [] step = "write" -> 10]

\* q is a plan from some step on: nothing is left out, repeated or moved.
Ordered(q, o) ==
  /\ \A k \in 1 .. Len(q) : q[k] \in Planned(o)
  /\ \A k, l \in 1 .. Len(q) : k < l => Rank[q[k]] < Rank[q[l]]
  /\ \A s \in Planned(o) : Rank[s] >= Rank[q[1]] => \E k \in 1 .. Len(q) : q[k] = s

LEMMA PlannedSteps ==
  ASSUME NEW o \in Options
  PROVE  Planned(o) \subseteq Steps
BY DEF Planned, Options, Steps

LEMMA RankValues ==
  /\ Rank["router"] = 1 /\ Rank["init"] = 2
  /\ Rank["sell"] = 3 /\ Rank["sellSac"] = 3 /\ Rank["sellInit"] = 4
  /\ Rank["buy"] = 5 /\ Rank["buySac"] = 5 /\ Rank["buyInit"] = 6
  /\ Rank["seedSell"] = 7 /\ Rank["seedBuy"] = 8
  /\ Rank["truncate"] = 9 /\ Rank["write"] = 10
  /\ \A s \in Steps : Rank[s] \in 1 .. 10
BY DEF Rank, Steps

\* The plans, step by step.
LEMMA SacPlan ==
  ASSUME NEW o \in Options, o.mode = "sac"
  PROVE  LET q == Plan(o) IN
       /\ q \in Seq(Steps) /\ Len(q) = 6
       /\ q[1] = "router" /\ q[2] = "init" /\ q[3] = "sellSac" /\ q[4] = "buySac"
       /\ q[5] = "truncate" /\ q[6] = "write"
BY DEF Plan, Steps

LEMMA PlainPlan ==
  ASSUME NEW o \in Options, o.mode = "none"
  PROVE  LET q == Plan(o) IN
       /\ q \in Seq(Steps) /\ Len(q) = 4
       /\ q[1] = "router" /\ q[2] = "init" /\ q[3] = "truncate" /\ q[4] = "write"
BY DEF Plan, Steps

LEMMA MockPlan ==
  ASSUME NEW o \in Options, o.mode = "mock", ~o.seed
  PROVE  LET q == Plan(o) IN
       /\ q \in Seq(Steps) /\ Len(q) = 8
       /\ q[1] = "router" /\ q[2] = "init" /\ q[3] = "sell" /\ q[4] = "sellInit"
       /\ q[5] = "buy" /\ q[6] = "buyInit" /\ q[7] = "truncate" /\ q[8] = "write"
BY DEF Plan, Steps

LEMMA SeededPlan ==
  ASSUME NEW o \in Options, o.mode = "mock", o.seed
  PROVE  LET q == Plan(o) IN
       /\ q \in Seq(Steps) /\ Len(q) = 10
       /\ q[1] = "router" /\ q[2] = "init" /\ q[3] = "sell" /\ q[4] = "sellInit"
       /\ q[5] = "buy" /\ q[6] = "buyInit" /\ q[7] = "seedSell" /\ q[8] = "seedBuy"
       /\ q[9] = "truncate" /\ q[10] = "write"
BY DEF Plan, Steps

LEMMA SacPlanOrdered ==
  ASSUME NEW o \in Options, o.mode = "sac"
  PROVE  Ordered(Plan(o), o)
<1> DEFINE q == Plan(o)
<1>1. Planned(o) = {"router", "init", "sellSac", "buySac", "truncate", "write"}
  BY DEF Planned
<1>2. \A k \in 1 .. Len(q) : k = 1 \/ k = 2 \/ k = 3 \/ k = 4 \/ k = 5 \/ k = 6
  <2>1. Len(q) = 6
    BY SacPlan
  <2>2. \A k \in 1 .. 6 : k = 1 \/ k = 2 \/ k = 3 \/ k = 4 \/ k = 5 \/ k = 6
    OBVIOUS
  <2>3. QED
    BY <2>1, <2>2
<1>3. \A k \in 1 .. Len(q) : q[k] \in Planned(o)
  BY <1>1, <1>2, SacPlan
<1>4. \A k, l \in 1 .. Len(q) : k < l => Rank[q[k]] < Rank[q[l]]
  <2>1. Rank[q[1]] = 1 /\ Rank[q[2]] = 2 /\ Rank[q[3]] = 3 /\ Rank[q[4]] = 5
       /\ Rank[q[5]] = 9 /\ Rank[q[6]] = 10
    BY SacPlan, RankValues
  <2> HIDE DEF q
  <2>2. QED
    BY <1>2, <2>1
<1>5. \A s \in Planned(o) : \E k \in 1 .. Len(q) : q[k] = s
  BY <1>1, SacPlan
<1> HIDE DEF q
<1>6. Ordered(q, o)
  BY <1>3, <1>4, <1>5 DEF Ordered
<1>7. QED
  BY <1>6 DEF q

LEMMA PlainPlanOrdered ==
  ASSUME NEW o \in Options, o.mode = "none"
  PROVE  Ordered(Plan(o), o)
<1> DEFINE q == Plan(o)
<1>1. Planned(o) = {"router", "init", "truncate", "write"}
  BY DEF Planned
<1>2. \A k \in 1 .. Len(q) : k = 1 \/ k = 2 \/ k = 3 \/ k = 4
  <2>1. Len(q) = 4
    BY PlainPlan
  <2>2. \A k \in 1 .. 4 : k = 1 \/ k = 2 \/ k = 3 \/ k = 4
    OBVIOUS
  <2>3. QED
    BY <2>1, <2>2
<1>3. \A k \in 1 .. Len(q) : q[k] \in Planned(o)
  BY <1>1, <1>2, PlainPlan
<1>4. \A k, l \in 1 .. Len(q) : k < l => Rank[q[k]] < Rank[q[l]]
  <2>1. Rank[q[1]] = 1 /\ Rank[q[2]] = 2 /\ Rank[q[3]] = 9 /\ Rank[q[4]] = 10
    BY PlainPlan, RankValues
  <2> HIDE DEF q
  <2>2. QED
    BY <1>2, <2>1
<1>5. \A s \in Planned(o) : \E k \in 1 .. Len(q) : q[k] = s
  BY <1>1, PlainPlan
<1> HIDE DEF q
<1>6. Ordered(q, o)
  BY <1>3, <1>4, <1>5 DEF Ordered
<1>7. QED
  BY <1>6 DEF q

LEMMA MockPlanOrdered ==
  ASSUME NEW o \in Options, o.mode = "mock", ~o.seed
  PROVE  Ordered(Plan(o), o)
<1> DEFINE q == Plan(o)
<1>1. Planned(o) = {"router", "init", "sell", "sellInit", "buy", "buyInit", "truncate", "write"}
  BY DEF Planned
<1>2. \A k \in 1 .. Len(q) : k = 1 \/ k = 2 \/ k = 3 \/ k = 4 \/ k = 5
     \/ k = 6 \/ k = 7 \/ k = 8
  <2>1. Len(q) = 8
    BY MockPlan
  <2>2. \A k \in 1 .. 8 : k = 1 \/ k = 2 \/ k = 3 \/ k = 4 \/ k = 5 \/ k = 6 \/ k = 7 \/ k = 8
    OBVIOUS
  <2>3. QED
    BY <2>1, <2>2
<1>3. \A k \in 1 .. Len(q) : q[k] \in Planned(o)
  BY <1>1, <1>2, MockPlan
<1>4. \A k, l \in 1 .. Len(q) : k < l => Rank[q[k]] < Rank[q[l]]
  <2>1. Rank[q[1]] = 1 /\ Rank[q[2]] = 2 /\ Rank[q[3]] = 3 /\ Rank[q[4]] = 4
       /\ Rank[q[5]] = 5 /\ Rank[q[6]] = 6 /\ Rank[q[7]] = 9 /\ Rank[q[8]] = 10
    BY MockPlan, RankValues
  <2> HIDE DEF q
  <2>2. QED
    BY <1>2, <2>1
<1>5. \A s \in Planned(o) : \E k \in 1 .. Len(q) : q[k] = s
  BY <1>1, MockPlan
<1> HIDE DEF q
<1>6. Ordered(q, o)
  BY <1>3, <1>4, <1>5 DEF Ordered
<1>7. QED
  BY <1>6 DEF q

LEMMA SeededPlanOrdered ==
  ASSUME NEW o \in Options, o.mode = "mock", o.seed
  PROVE  Ordered(Plan(o), o)
<1> DEFINE q == Plan(o)
<1>1. Planned(o) = {"router", "init", "sell",
                 "sellInit", "buy", "buyInit", "seedSell", "seedBuy", "truncate", "write"}
  BY DEF Planned
<1>2. \A k \in 1 .. Len(q) : k = 1 \/ k = 2 \/ k = 3 \/ k = 4 \/ k = 5
     \/ k = 6 \/ k = 7 \/ k = 8 \/ k = 9 \/ k = 10
  <2>1. Len(q) = 10
    BY SeededPlan
  <2>2. \A k \in 1 .. 10 : k = 1 \/ k = 2 \/ k = 3 \/ k = 4 \/ k = 5
       \/ k = 6 \/ k = 7 \/ k = 8 \/ k = 9 \/ k = 10
    OBVIOUS
  <2>3. QED
    BY <2>1, <2>2
<1>3. \A k \in 1 .. Len(q) : q[k] \in Planned(o)
  BY <1>1, <1>2, SeededPlan
<1>4. \A k, l \in 1 .. Len(q) : k < l => Rank[q[k]] < Rank[q[l]]
  <2>1. Rank[q[1]] = 1 /\ Rank[q[2]] = 2 /\ Rank[q[3]] = 3 /\ Rank[q[4]] = 4
       /\ Rank[q[5]] = 5 /\ Rank[q[6]] = 6 /\ Rank[q[7]] = 7 /\ Rank[q[8]] = 8 /\ Rank[q[9]] = 9 /\ Rank[q[10]] = 10
    BY SeededPlan, RankValues
  <2> HIDE DEF q
  <2>2. \A k \in 1 .. Len(q) : Rank[q[k]] = k
    BY <1>2, <2>1
  <2>3. QED
    BY <2>2
<1>5. \A s \in Planned(o) : \E k \in 1 .. Len(q) : q[k] = s
  BY <1>1, SeededPlan
<1> HIDE DEF q
<1>6. Ordered(q, o)
  BY <1>3, <1>4, <1>5 DEF Ordered
<1>7. QED
  BY <1>6 DEF q

LEMMA PlanOrdered ==
  ASSUME NEW o \in Options
  PROVE  /\ Plan(o) \in Seq(Steps) /\ Plan(o) # <<>>
         /\ Ordered(Plan(o), o)
         /\ Plan(o)[1] = "router"
<1>1. CASE o.mode = "sac"
  BY <1>1, SacPlan, SacPlanOrdered
<1>2. CASE o.mode = "none"
  BY <1>2, PlainPlan, PlainPlanOrdered
<1>3. CASE o.mode = "mock" /\ ~o.seed
  BY <1>3, MockPlan, MockPlanOrdered
<1>4. CASE o.mode = "mock" /\ o.seed
  BY <1>4, SeededPlan, SeededPlanOrdered
<1>5. QED
  BY <1>1, <1>2, <1>3, <1>4 DEF Options

\* What is left of a plan after its first step is a plan, and what comes before
\* it is that step and what came before that.
LEMMA TailOrdered ==
  ASSUME NEW o \in Options, NEW q \in Seq(Steps), q # <<>>, Tail(q) # <<>>, Ordered(q, o)
  PROVE  /\ Ordered(Tail(q), o)
         /\ \A s \in Planned(o) : Rank[s] < Rank[Tail(q)[1]] => s = q[1] \/ Rank[s] < Rank[q[1]]
<1> DEFINE r == Tail(q)
<1>1. /\ Len(q) \in Nat /\ Len(q) > 1 /\ Len(r) = Len(q) - 1
      /\ \A k \in 1 .. Len(r) : r[k] = q[k + 1]
  OBVIOUS
<1>2. /\ \A s \in Planned(o) : Rank[s] \in Nat
      /\ \A k \in 1 .. Len(q) : Rank[q[k]] \in Nat
  <2>1. \A s \in Steps : Rank[s] \in Nat
    BY RankValues
  <2>2. \A s \in Planned(o) : s \in Steps
    BY PlannedSteps
  <2>3. \A k \in 1 .. Len(q) : q[k] \in Steps
    OBVIOUS
  <2>4. QED
    BY <2>1, <2>2, <2>3
<1> HIDE DEF r
<1>3. \A k \in 1 .. Len(r) : k + 1 \in 1 .. Len(q) /\ r[k] = q[k + 1]
  BY <1>1
<1>4. \A k, l \in 1 .. Len(r) : k < l => Rank[r[k]] < Rank[r[l]]
  <2>1. TAKE k, l \in 1 .. Len(r)
  <2>2. k < l => k + 1 < l + 1
    BY <1>1
  <2>3. QED
    BY <1>3, <2>2 DEF Ordered
<1>5. \A k \in 1 .. Len(q) : k # 1 => k - 1 \in 1 .. Len(r) /\ r[k - 1] = q[k]
  BY <1>1
<1>6. ASSUME NEW s \in Planned(o), s # q[1], Rank[s] >= Rank[q[1]]
      PROVE  \E k \in 1 .. Len(r) : r[k] = s
  BY <1>5, <1>6 DEF Ordered
<1>7. r[1] = q[2] /\ Rank[q[1]] < Rank[q[2]] /\ 1 \in 1 .. Len(r) /\ 1 \in 1 .. Len(q)
  BY <1>1 DEF Ordered
<1>8. ASSUME NEW s \in Planned(o), Rank[s] >= Rank[r[1]]
      PROVE  \E k \in 1 .. Len(r) : r[k] = s
  <2>1. Rank[s] \in Nat /\ Rank[q[1]] \in Nat /\ Rank[r[1]] \in Nat
    BY <1>1, <1>2, <1>7
  <2>2. Rank[s] > Rank[q[1]]
    BY <1>7, <1>8, <2>1
  <2>3. QED
    BY <1>6, <2>1, <2>2
<1>9. ASSUME NEW s \in Planned(o), Rank[s] < Rank[r[1]], s # q[1]
      PROVE  Rank[s] < Rank[q[1]]
  <2>1. /\ Rank[s] \in Nat /\ Rank[q[1]] \in Nat
        /\ \A k \in 1 .. Len(r) : Rank[r[k]] \in Nat
    BY <1>2, <1>3, <1>7
  <2>2. ASSUME NEW k \in 1 .. Len(r), r[k] = s PROVE FALSE
    <3>1. k = 1 \/ Rank[r[1]] < Rank[r[k]]
      BY <1>1, <1>4, <1>7
    <3>2. QED
      BY <1>7, <1>9, <2>1, <2>2, <3>1
  <2>3. QED
    BY <1>6, <1>9, <2>1, <2>2
<1>10. Ordered(r, o)
  BY <1>3, <1>4, <1>8 DEF Ordered
<1>11. QED
  BY <1>9, <1>10 DEF r

-----------------------------------------------------------------------------
(* What the steps taken so far have achieved.                              *)

Configured(c, what) == c \in 1 .. Fresh /\ code[c] = what

Administered(c) == c \in Contracts /\ admin[c] = options.admin

Done(step) ==
  /\ step = "router"   => Configured(ids.router, "router")
  /\ step = "init"     => Administered(ids.router)
  /\ step = "sell"     => Configured(ids.sell, "token")
  /\ step = "sellInit" => Administered(ids.sell)
  /\ step = "buy"      => Configured(ids.buy, "token") /\ ids.buy # ids.sell
  /\ step = "buyInit"  => Administered(ids.buy)
  /\ step = "sellSac"  => ids.sell = SellSac /\ code[SellSac] = "asset"
  /\ step = "buySac"   => ids.buy = BuySac /\ code[BuySac] = "asset"

\* Where the script is, everything planned before is done.
PlanInv ==
  todo # <<>> =>
    /\ Ordered(todo, options)
    /\ ~options.dry => \A s \in Planned(options) : Rank[s] < Rank[todo[1]] => Done(s)
    /\ options.mode = "none" => ids.sell = Unset /\ ids.buy = Unset

\* What was recorded stays done; only the contracts of assets can be created
\* again.
FileInv ==
  file \in Record =>
    /\ Configured(file.router, "router") /\ admin[file.router] = file.admin
    /\ (~file.sac /\ file.sell # Unset) =>
         /\ file.sell # file.buy
         /\ \A t \in {file.sell, file.buy} : Configured(t, "token") /\ admin[t] = file.admin
    /\ file.sac => \A t \in {file.sell, file.buy} : t \in {SellSac, BuySac} /\ code[t] = "asset"

DeploymentInv == TypeOK /\ PlanInv /\ FileInv

\* What no step takes back.
ChainKept ==
  /\ \A c \in 1 .. Fresh : code[c] # "none" => code'[c] = code[c]
  /\ \A c \in {SellSac, BuySac} : code[c] = "asset" => code'[c] = "asset"
  /\ AdminKept

ChainTyped ==
  /\ code \in [Contracts -> {"none", "router", "token", "asset"}]
  /\ admin \in [Contracts -> Accounts \cup {Unset}]
  /\ funded \subseteq Contracts

\* A contract is created where there is none.
LEMMA TargetFresh ==
  ASSUME NEW step \in {"router", "sell", "buy"}, \E c \in 1 .. Fresh : code[c] = "none"
  PROVE  Target(step) \in 1 .. Fresh /\ code[Target(step)] = "none"
<1> DEFINE T == {c \in 1 .. Fresh : code[c] = "none"}
<1>1. \E m \in T : \A n \in T : m <= n
  <2>1. T \in SUBSET Nat /\ T # {}
    OBVIOUS
  <2> HIDE DEF T
  <2>2. QED
    BY <2>1, SmallestNumber
<1>2. \E c \in 1 .. Fresh : code[c] = "none" /\ \A d \in 1 .. Fresh : code[d] = "none" => c <= d
  BY <1>1
<1>3. Target(step) = CHOOSE c \in 1 .. Fresh :
        code[c] = "none" /\ \A d \in 1 .. Fresh : code[d] = "none" => c <= d
  BY DEF Target
<1>4. QED
  BY <1>2, <1>3

LEMMA InitChain ==
  ASSUME TypeOK, NEW c \in Contracts, NEW a \in Accounts, init(c, a), UNCHANGED <<code, funded>>
  PROVE  ChainKept /\ ChainTyped' /\ admin'[c] = a
BY DEF TypeOK, init, ChainKept, AdminKept, ChainTyped

LEMMA CommandsChain ==
  ASSUME TypeOK, NEW step \in OnChain, Commands(step)
  PROVE  ChainKept /\ ChainTyped'
<1>1. CASE Deploys(step) /\ step \in {"router", "sell", "buy"}
  <2>1. Target(step) \in 1 .. Fresh /\ code[Target(step)] = "none"
    BY <1>1, TargetFresh DEF Deploys
  <2>2. \A c \in {SellSac, BuySac} : c # Target(step)
    BY <2>1, DeploymentAssumption
  <2> HIDE DEF Target
  <2>3. QED
    BY <1>1, <2>1, <2>2 DEF Deploys, TypeOK, Contracts, ChainKept, AdminKept, ChainTyped
<1>2. CASE Deploys(step) /\ step \in {"sellSac", "buySac"}
  <2>1. Target(step) \in {SellSac, BuySac}
    BY <1>2 DEF Target
  <2>2. \A c \in 1 .. Fresh : c # Target(step)
    BY <2>1, DeploymentAssumption
  <2>3. QED
    BY <1>2, <2>1, <2>2 DEF Deploys, TypeOK, Contracts, ChainKept, AdminKept, ChainTyped
<1>3. CASE Initializes(step)
  <2>1. SlotOf(step) \in Slots
    BY <1>3 DEF Initializes, SlotOf, Slots
  <2>2. ids[SlotOf(step)] \in Contracts /\ options.admin \in Accounts
    BY <1>3, <2>1 DEF Initializes, TypeOK, Options
  <2>3. QED
    BY <1>3, <2>2, InitChain DEF Initializes
<1>4. CASE Mints(step)
  <2>1. SlotOf(step) \in Slots
    BY <1>4 DEF Mints, SlotOf, Slots
  <2>2. QED
    BY <1>4, <2>1 DEF Mints, TypeOK, ChainKept, AdminKept, ChainTyped
<1>5. QED
  BY <1>1, <1>2, <1>3, <1>4 DEF Commands, Deploys

LEMMA ChainStep ==
  ASSUME TypeOK, [Next]_vars
  PROVE  ChainKept /\ ChainTyped'
<1>1. CASE UNCHANGED chain
  BY <1>1 DEF chain, TypeOK, ChainKept, AdminKept, ChainTyped
<1>2. CASE CommandSucceeds
  BY <1>1, <1>2, CommandsChain DEF CommandSucceeds
<1>3. CASE CommandFails
  BY <1>1, <1>3, CommandsChain DEF CommandFails
<1>4. CASE Start \/ Truncates \/ Writes \/ Interrupted \/ UNCHANGED vars
  BY <1>1, <1>4 DEF Start, Truncates, Writes, Interrupted, vars, chain
<1>5. CASE OtherInits
  BY <1>5, InitChain DEF OtherInits, Contracts
<1>6. QED
  BY <1>2, <1>3, <1>4, <1>5 DEF Next, Script

-----------------------------------------------------------------------------
(* A step of the script.                                                   *)

\* What is done stays done, as long as its ids are.
LEMMA DoneKept ==
  ASSUME TypeOK, ChainKept, UNCHANGED options, NEW step \in Steps, Done(step),
         step \in {"router", "init"} => UNCHANGED ids.router,
         step \in {"sell", "sellInit", "sellSac"} => UNCHANGED ids.sell,
         step \in {"buyInit", "buySac"} => UNCHANGED ids.buy,
         step = "buy" => UNCHANGED ids.sell /\ UNCHANGED ids.buy
  PROVE  Done(step)'
<1>1. \A c, what : Configured(c, what) /\ what # "none" => Configured(c, what)'
  BY DEF Configured, ChainKept
<1>2. options.admin # Unset
  BY DeploymentAssumption DEF TypeOK, Options
<1>3. \A c : Administered(c) => Administered(c)'
  BY <1>2 DEF Administered, ChainKept, AdminKept
<1>4. /\ code[SellSac] = "asset" => code'[SellSac] = "asset"
      /\ code[BuySac] = "asset" => code'[BuySac] = "asset"
  BY DEF ChainKept
<1>5. QED
  BY <1>1, <1>3, <1>4 DEF Done

\* The steps before a step that creates a contract are about other contracts.
LEMMA EarlierSlots ==
  ASSUME options \in Options, NEW step \in Planned(options), NEW s \in Planned(options),
         Rank[s] < Rank[step]
  PROVE  /\ step # "router"
         /\ step \in {"sell", "sellSac"} => s \in {"router", "init"}
         /\ step \in {"buy", "buySac"} => s \in {"router", "init", "sell", "sellInit", "sellSac"}
         /\ step \in {"router", "sell", "buy", "sellSac", "buySac"} => s \in OnChain
<1>1. step \in Steps /\ s \in Steps
  BY PlannedSteps
<1>2. /\ step = "router" => Rank[step] = 1
      /\ step \in {"sell", "sellSac"} => Rank[step] = 3
      /\ step \in {"buy", "buySac"} => Rank[step] = 5
  BY RankValues
<1>3. /\ s = "sell" \/ s = "sellSac" => Rank[s] = 3
      /\ s = "sellInit" => Rank[s] = 4
      /\ s = "buy" \/ s = "buySac" => Rank[s] = 5
      /\ s = "buyInit" => Rank[s] = 6
      /\ s = "seedSell" => Rank[s] = 7
      /\ s = "seedBuy" => Rank[s] = 8
      /\ s = "truncate" => Rank[s] = 9
      /\ s = "write" => Rank[s] = 10
      /\ Rank[s] \in 1 .. 10
  BY <1>1, RankValues
<1>4. QED
  BY <1>1, <1>2, <1>3 DEF Steps, OnChain

Creates == {"router", "sell", "buy", "sellSac", "buySac"}

\* A command that is executed and succeeds achieves its step and undoes none.
LEMMA Succeeds ==
  ASSUME TypeOK, UNCHANGED options, NEW step \in OnChain, step \in Planned(options),
         Commands(step),
         ids' = IF step \in Creates THEN [ids EXCEPT ![SlotOf(step)] = Target(step)] ELSE ids,
         \A s \in Planned(options) : Rank[s] < Rank[step] => Done(s)
  PROVE  /\ ids' \in [Slots -> Contracts \cup {Unset}]
         /\ Done(step)'
         /\ \A s \in Planned(options) : Rank[s] < Rank[step] => Done(s)'
<1>0. ChainKept /\ ChainTyped'
  BY CommandsChain
<1>1. ids \in [Slots -> Contracts \cup {Unset}] /\ options \in Options
  BY DEF TypeOK
<1>2. CASE step \in {"router", "sell", "buy"}
  <2> DEFINE c == Target(step)
  <2>1. c \in 1 .. Fresh /\ code[c] = "none" /\ Deploys(step)
    BY <1>2, TargetFresh DEF Commands, Deploys, Initializes, Mints
  <2>2. SlotOf(step) \in Slots /\ SlotOf(step) = step
    BY <1>2 DEF SlotOf, Slots
  <2>3. code' = [code EXCEPT ![c] = IF step = "router" THEN "router" ELSE "token"]
    BY <1>2, <2>1 DEF Deploys
  <2> HIDE DEF c
  <2>4. ids' = [ids EXCEPT ![step] = c]
    BY <1>2, <2>2 DEF Creates, c
  <2>5. ids' \in [Slots -> Contracts \cup {Unset}]
    BY <1>1, <2>1, <2>2, <2>4 DEF Contracts
  <2>6. ids'[step] = c /\ code'[c] = IF step = "router" THEN "router" ELSE "token"
    <3>1. ids'[step] = c
      BY <1>1, <2>2, <2>4
    <3>2. c \in DOMAIN code
      BY <2>1 DEF TypeOK, Contracts
    <3>3. QED
      BY <2>3, <3>1, <3>2
  <2>7. ASSUME step = "buy" PROVE ids.sell # c /\ ids'.sell = ids.sell
    <3>1. "sell" \in Planned(options)
      BY <1>1, <2>7 DEF Planned, Options
    <3>2. Rank["sell"] < Rank[step]
      BY <2>7, RankValues
    <3>3. code[ids.sell] = "token"
      BY <3>1, <3>2 DEF Done, Configured
    <3>4. QED
      BY <1>1, <2>1, <2>4, <2>7, <3>3 DEF Slots
  <2>8. Done(step)'
    <3>1. CASE step = "router"
      BY <2>1, <2>6, <3>1 DEF Done, Configured
    <3>2. CASE step = "sell"
      BY <2>1, <2>6, <3>2 DEF Done, Configured
    <3>3. CASE step = "buy"
      BY <2>1, <2>6, <2>7, <3>3 DEF Done, Configured
    <3>4. QED
      BY <1>2, <3>1, <3>2, <3>3
  <2>9. ASSUME NEW s \in Planned(options), Rank[s] < Rank[step] PROVE Done(s)'
    <3>1. Done(s) /\ s \in Steps
      BY <1>1, <2>9, PlannedSteps
    <3>2. \/ step = "sell" /\ s \in {"router", "init"}
          \/ step = "buy" /\ s \in {"router", "init", "sell", "sellInit", "sellSac"}
      BY <1>1, <1>2, <2>9, EarlierSlots
    <3>3. /\ step = "sell" => ids'.router = ids.router
          /\ step = "buy" => ids'.router = ids.router /\ ids'.sell = ids.sell
      BY <1>1, <2>4 DEF Slots
    <3>4. QED
      BY <1>0, <3>1, <3>2, <3>3, DoneKept
  <2>10. QED
    BY <2>5, <2>8, <2>9
<1>3. CASE step \in {"sellSac", "buySac"}
  <2> DEFINE c == Target(step)
             slot == SlotOf(step)
  <2>1. /\ step = "sellSac" => c = SellSac /\ slot = "sell"
        /\ step = "buySac" => c = BuySac /\ slot = "buy"
    BY <1>3 DEF Target, SlotOf
  <2>2. Deploys(step)
    BY <1>3 DEF Commands, Initializes, Mints
  <2>3. code' = [code EXCEPT ![c] = "asset"]
    BY <1>3, <2>2 DEF Deploys
  <2>4. ids' = [ids EXCEPT ![slot] = c]
    BY <1>3 DEF Creates
  <2> HIDE DEF c, slot
  <2>5. slot \in Slots /\ c \in Contracts
    BY <1>3, <2>1 DEF Slots, Contracts
  <2>6. ids' \in [Slots -> Contracts \cup {Unset}] /\ ids'[slot] = c /\ code'[c] = "asset"
    BY <1>1, <2>3, <2>4, <2>5 DEF TypeOK
  <2>7. Done(step)'
    BY <1>3, <2>1, <2>6 DEF Done
  <2>8. ASSUME NEW s \in Planned(options), Rank[s] < Rank[step] PROVE Done(s)'
    <3>1. Done(s) /\ s \in Steps
      BY <1>1, <2>8, PlannedSteps
    <3>2. \/ step = "sellSac" /\ s \in {"router", "init"}
          \/ step = "buySac" /\ s \in {"router", "init", "sell", "sellInit", "sellSac"}
      BY <1>1, <1>3, <2>8, EarlierSlots
    <3>3. /\ step = "sellSac" => ids'.router = ids.router
          /\ step = "buySac" => ids'.router = ids.router /\ ids'.sell = ids.sell
      BY <1>1, <2>1, <2>4 DEF Slots
    <3>4. QED
      BY <1>0, <3>1, <3>2, <3>3, DoneKept
  <2>9. QED
    BY <2>6, <2>7, <2>8
<1>4. CASE step \in {"init", "sellInit", "buyInit", "seedSell", "seedBuy"}
  <2>1. ids' = ids
    BY <1>4 DEF Creates
  <2>2. Done(step)'
    <3>1. CASE step \in {"seedSell", "seedBuy"}
      BY <3>1 DEF Done
    <3>2. CASE step \in {"init", "sellInit", "buyInit"}
      <4>1. Initializes(step)
        BY <3>2 DEF Commands, Deploys, Mints
      <4>2. SlotOf(step) \in Slots
        BY <3>2 DEF SlotOf, Slots
      <4>3. ids[SlotOf(step)] \in Contracts /\ options.admin \in Accounts
        BY <1>1, <4>1, <4>2 DEF Initializes, Options
      <4>4. admin'[ids[SlotOf(step)]] = options.admin
        BY <4>1, <4>3, InitChain DEF Initializes
      <4>5. QED
        BY <2>1, <3>2, <4>3, <4>4 DEF Done, Administered, SlotOf
    <3>3. QED
      BY <1>4, <3>1, <3>2
  <2>3. ASSUME NEW s \in Planned(options), Rank[s] < Rank[step] PROVE Done(s)'
    <3>1. Done(s) /\ s \in Steps
      BY <1>1, <2>3, PlannedSteps
    <3>2. QED
      BY <1>0, <2>1, <3>1, DoneKept
  <2>4. QED
    BY <1>1, <2>1, <2>2, <2>3
<1>5. QED
  BY <1>2, <1>3, <1>4 DEF OnChain, Steps

\* Where the script is in its plan.
LEMMA HeadPlanned ==
  ASSUME TypeOK, PlanInv, todo # <<>>
  PROVE  /\ Head(todo) = todo[1] /\ Head(todo) \in Steps /\ Head(todo) \in Planned(options)
         /\ Tail(todo) \in Seq(Steps)
<1>1. todo \in Seq(Steps) /\ Len(todo) \in Nat /\ Len(todo) > 0
  BY DEF TypeOK
<1>2. 1 \in 1 .. Len(todo) /\ Head(todo) = todo[1] /\ Tail(todo) \in Seq(Steps) /\ todo[1] \in Steps
  BY <1>1
<1>3. QED
  BY <1>2 DEF PlanInv, Ordered

\* The plan goes on after a step that is done.
LEMMA PlanAdvances ==
  ASSUME TypeOK, PlanInv, todo # <<>>, UNCHANGED options, todo' = Tail(todo),
         NEW step \in Steps, step = Head(todo),
         ~options.dry => /\ Done(step)'
                         /\ \A s \in Planned(options) : Rank[s] < Rank[step] => Done(s)',
         options.mode = "none" => UNCHANGED <<ids.sell, ids.buy>>
  PROVE  PlanInv'
<1> SUFFICES ASSUME Tail(todo) # <<>> PROVE PlanInv'
  BY DEF PlanInv
<1>1. todo \in Seq(Steps) /\ options \in Options /\ Ordered(todo, options)
  BY DEF TypeOK, PlanInv
<1>2. /\ Ordered(Tail(todo), options)
      /\ \A s \in Planned(options) :
           Rank[s] < Rank[Tail(todo)[1]] => s = todo[1] \/ Rank[s] < Rank[todo[1]]
  BY <1>1, TailOrdered
<1>3. Head(todo) = todo[1]
  BY HeadPlanned
<1>4. Ordered(todo', options')
  BY <1>2
<1>5. ASSUME ~options'.dry, NEW s \in Planned(options'), Rank[s] < Rank[todo'[1]]
      PROVE  Done(s)'
  BY <1>2, <1>3, <1>5
<1>6. options'.mode = "none" => ids'.sell = Unset /\ ids'.buy = Unset
  BY DEF PlanInv
<1>7. QED
  BY <1>4, <1>5, <1>6 DEF PlanInv

\* What is recorded needs nothing but what no step takes back.
LEMMA FileKept ==
  ASSUME TypeOK, FileInv, ChainKept, UNCHANGED file
  PROVE  FileInv'
<1> SUFFICES ASSUME file \in Record PROVE FileInv'
  BY DEF FileInv
<1>1. \A c, what : Configured(c, what) /\ what # "none" => Configured(c, what)'
  BY DEF Configured, ChainKept
<1>2. \A c, what : Configured(c, what) => c \in Contracts
  BY DEF Configured, Contracts
<1>3. file.admin # Unset
  BY DeploymentAssumption DEF Record
<1>4. \A c \in Contracts : admin[c] = file.admin => admin'[c] = file.admin
  BY <1>3 DEF ChainKept, AdminKept
<1>5. \A c \in {SellSac, BuySac} : code[c] = "asset" => code'[c] = "asset"
  BY DEF ChainKept
<1>6. QED
  BY <1>1, <1>2, <1>4, <1>5 DEF FileInv

LEMMA StartStep ==
  ASSUME DeploymentInv, Start
  PROVE  TypeOK' /\ PlanInv'
<1>1. options' \in Options /\ todo' = Plan(options') /\ ids' = [s \in Slots |-> Unset]
  BY DEF Start
<1>2. /\ Plan(options') \in Seq(Steps) /\ Ordered(Plan(options'), options')
      /\ Plan(options')[1] = "router"
  BY <1>1, PlanOrdered
<1>3. \A s \in Planned(options') : ~ (Rank[s] < Rank["router"])
  <2>1. \A s \in Planned(options') : s \in Steps
    BY <1>1, PlannedSteps
  <2>2. \A s \in Steps : Rank[s] \in 1 .. 10 /\ Rank["router"] = 1
    BY RankValues
  <2>3. QED
    BY <2>1, <2>2
<1>4. runs' \in 0 .. MaxRuns
  BY DeploymentAssumption DEF Start, DeploymentInv, TypeOK
<1>5. TypeOK'
  BY <1>1, <1>2, <1>4 DEF Start, chain, DeploymentInv, TypeOK
<1>6. PlanInv'
  BY <1>1, <1>2, <1>3 DEF PlanInv, Slots
<1>7. QED
  BY <1>5, <1>6

LEMMA CommandStep ==
  ASSUME DeploymentInv, CommandSucceeds
  PROVE  TypeOK' /\ PlanInv'
<1> PICK step \in OnChain : step = Head(todo)
  BY DEF CommandSucceeds
<1>1. /\ TypeOK /\ PlanInv /\ todo # <<>> /\ step \in Steps /\ todo' = Tail(todo)
      /\ UNCHANGED <<file, options, runs>>
  BY DEF CommandSucceeds, DeploymentInv, OnChain
<1>2. step = todo[1] /\ step \in Planned(options) /\ Tail(todo) \in Seq(Steps)
  BY <1>1, HeadPlanned
<1>3. ChainTyped'
  BY <1>1, ChainStep DEF Next, Script
<1>4. CASE options.dry
  <2>1. ids' = ids
    BY <1>4 DEF CommandSucceeds
  <2>2. TypeOK'
    BY <1>1, <1>2, <1>3, <2>1 DEF TypeOK, ChainTyped
  <2>3. QED
    BY <1>1, <1>4, <2>1, <2>2, PlanAdvances
<1>5. CASE ~options.dry
  <2>1. /\ Commands(step)
        /\ ids' = IF step \in Creates THEN [ids EXCEPT ![SlotOf(step)] = Target(step)] ELSE ids
    BY <1>5 DEF CommandSucceeds, Executes, Creates
  <2>2. \A s \in Planned(options) : Rank[s] < Rank[step] => Done(s)
    BY <1>1, <1>2, <1>5 DEF PlanInv
  <2>3. /\ ids' \in [Slots -> Contracts \cup {Unset}]
        /\ Done(step)'
        /\ \A s \in Planned(options) : Rank[s] < Rank[step] => Done(s)'
    BY <1>1, <1>2, <2>1, <2>2, Succeeds
  <2>4. TypeOK'
    BY <1>1, <1>2, <1>3, <2>3 DEF TypeOK, ChainTyped
  <2>5. options.mode = "none" => UNCHANGED <<ids.sell, ids.buy>>
    <3>1. SUFFICES ASSUME options.mode = "none" PROVE UNCHANGED <<ids.sell, ids.buy>>
      OBVIOUS
    <3>2. step \in {"router", "init"}
      BY <1>1, <1>2, <3>1 DEF Planned, OnChain
    <3>3. step = "router" => SlotOf(step) = "router"
      BY DEF SlotOf
    <3>4. QED
      BY <1>1, <2>1, <3>2, <3>3 DEF Creates, TypeOK, Slots
  <2>6. QED
    BY <1>1, <2>3, <2>4, <2>5, PlanAdvances
<1>6. QED
  BY <1>4, <1>5

LEMMA TruncateStep ==
  ASSUME DeploymentInv, Truncates
  PROVE  DeploymentInv'
<1>1. /\ TypeOK /\ PlanInv /\ FileInv /\ todo # <<>> /\ Head(todo) = "truncate"
      /\ todo' = Tail(todo) /\ UNCHANGED <<chain, options, ids, runs>>
  BY DEF Truncates, DeploymentInv
<1>2. Head(todo) = todo[1] /\ Tail(todo) \in Seq(Steps)
  BY <1>1, HeadPlanned
<1>3. file' \in Record => file' = file
  BY FileAssumption DEF Truncates
<1>4. TypeOK'
  BY <1>1, <1>2 DEF Truncates, TypeOK, chain
<1>5. ASSUME NEW s, Done(s) PROVE Done(s)'
  BY <1>1, <1>5 DEF Done, Configured, Administered, chain
<1>6. Done("truncate")'
  BY DEF Done
<1>7. ~options.dry => \A s \in Planned(options) : Rank[s] < Rank[Head(todo)] => Done(s)
  BY <1>1, <1>2 DEF PlanInv
<1>8. PlanInv'
  <2>1. PICK step \in Steps : step = Head(todo)
    BY <1>1 DEF Steps
  <2>2. ~options.dry => Done(step)' /\ \A s \in Planned(options) : Rank[s] < Rank[step] => Done(s)'
    BY <1>1, <1>5, <1>6, <1>7, <2>1
  <2>3. QED
    BY <1>1, <2>1, <2>2, PlanAdvances
<1>9. FileInv'
  BY <1>1, <1>3 DEF FileInv, Configured, chain
<1>10. QED
  BY <1>4, <1>8, <1>9 DEF DeploymentInv

\* The last step records contracts that are done.
LEMMA WriteStep ==
  ASSUME DeploymentInv, Writes
  PROVE  DeploymentInv'
<1>1. /\ TypeOK /\ PlanInv /\ FileInv /\ todo # <<>> /\ Head(todo) = "write"
      /\ todo' = <<>> /\ UNCHANGED <<chain, options, ids, runs>>
  BY DEF Writes, DeploymentInv
<1>2. Head(todo) = todo[1] /\ options \in Options
  BY <1>1, HeadPlanned DEF TypeOK
<1>3. PlanInv'
  BY <1>1 DEF PlanInv
<1>4. CASE options.dry
  <2>1. file' = file
    BY <1>4 DEF Writes
  <2>2. TypeOK' /\ FileInv'
    BY <1>1, <2>1 DEF TypeOK, FileInv, Configured, chain
  <2>3. QED
    BY <1>3, <2>2 DEF DeploymentInv
<1>5. CASE ~options.dry
  <2>1. file' = [router |-> ids.router, sell |-> ids.sell, buy |-> ids.buy,
                 admin |-> options.admin, sac |-> options.mode = "sac"]
    BY <1>5 DEF Writes
  <2>2. ASSUME NEW s \in Planned(options), s # "write" PROVE Done(s)
    <3>1. s \in Steps
      BY <1>2, PlannedSteps
    <3>2. Rank[s] < Rank["write"]
      BY <2>2, <3>1, RankValues DEF Steps
    <3>3. QED
      BY <1>1, <1>2, <1>5, <3>2 DEF PlanInv
  <2>3. Configured(ids.router, "router") /\ admin[ids.router] = options.admin
    BY <2>2 DEF Planned, Done, Administered
  <2>4. options.mode = "sac" =>
          /\ ids.sell = SellSac /\ ids.buy = BuySac
          /\ code[SellSac] = "asset" /\ code[BuySac] = "asset"
    BY <2>2 DEF Planned, Done
  <2>5. options.mode = "mock" =>
          /\ ids.sell # ids.buy
          /\ \A t \in {ids.sell, ids.buy} : Configured(t, "token") /\ admin[t] = options.admin
    BY <2>2 DEF Planned, Done, Administered
  <2>6. options.mode = "none" => ids.sell = Unset
    BY <1>1 DEF PlanInv
  <2>7. options.mode \in {"sac", "mock", "none"} /\ options.admin \in Accounts
    BY <1>2 DEF Options
  <2>8. file' \in Record
    BY <1>1, <2>1, <2>3, <2>7 DEF TypeOK, Record, Configured, Contracts, Slots
  <2>9. FileInv'
    BY <1>1, <2>1, <2>3, <2>4, <2>5, <2>6, <2>7 DEF FileInv, Configured, chain
  <2>10. TypeOK'
    BY <1>1, <2>8 DEF TypeOK, chain
  <2>11. QED
    BY <1>3, <2>9, <2>10 DEF DeploymentInv
<1>6. QED
  BY <1>4, <1>5

\* A step that stops the script, or is not the script's.
LEMMA OtherStep ==
  ASSUME DeploymentInv, CommandFails \/ Interrupted \/ OtherInits \/ UNCHANGED vars
  PROVE  DeploymentInv'
<1>1. TypeOK /\ PlanInv /\ FileInv /\ ChainKept /\ ChainTyped'
  BY ChainStep DEF DeploymentInv, Next, Script
<1>2. UNCHANGED <<file, options, ids, runs>> /\ (todo' = <<>> \/ todo' = todo)
  BY DEF CommandFails, StopsAt, Interrupted, OtherInits, vars
<1>3. TypeOK'
  <2>1. todo' \in Seq(Steps)
    <3>1. todo \in Seq(Steps) /\ <<>> \in Seq(Steps)
      BY <1>1 DEF TypeOK
    <3>2. QED
      BY <1>2, <3>1
  <2>2. QED
    BY <1>1, <1>2, <2>1 DEF TypeOK, ChainTyped
<1>4. FileInv'
  BY <1>1, <1>2, FileKept
<1>5. ASSUME NEW s \in Steps, Done(s) PROVE Done(s)'
  BY <1>1, <1>2, <1>5, DoneKept
<1>6. PlanInv'
  <2>1. CASE todo' = <<>>
    BY <2>1 DEF PlanInv
  <2>2. CASE todo' = todo
    <3>1. \A s \in Planned(options) : s \in Steps
      BY <1>1, PlannedSteps DEF TypeOK
    <3>2. QED
      BY <1>1, <1>2, <1>5, <2>2, <3>1 DEF PlanInv
  <2>3. QED
    BY <1>2, <2>1, <2>2
<1>7. QED
  BY <1>3, <1>4, <1>6 DEF DeploymentInv

LEMMA DeploymentStep ==
  ASSUME DeploymentInv, [Next]_vars
  PROVE  DeploymentInv'
<1>1. TypeOK /\ FileInv /\ ChainKept
  BY ChainStep DEF DeploymentInv
<1>2. CASE Start
  <2>1. UNCHANGED file
    BY <1>2 DEF Start
  <2>2. QED
    BY <1>1, <1>2, <2>1, StartStep, FileKept DEF DeploymentInv
<1>3. CASE CommandSucceeds
  <2>1. UNCHANGED file
    BY <1>3 DEF CommandSucceeds
  <2>2. QED
    BY <1>1, <1>3, <2>1, CommandStep, FileKept DEF DeploymentInv
<1>4. CASE Truncates
  BY <1>4, TruncateStep
<1>5. CASE Writes
  BY <1>5, WriteStep
<1>6. CASE CommandFails \/ Interrupted \/ OtherInits \/ UNCHANGED vars
  BY <1>6, OtherStep
<1>7. QED
  BY <1>2, <1>3, <1>4, <1>5, <1>6 DEF Next, Script

LEMMA DeploymentInit == Init => DeploymentInv
<1> SUFFICES ASSUME Init PROVE DeploymentInv
  OBVIOUS
<1>1. TypeOK
  BY DeploymentAssumption DEF Init, TypeOK, Options, Slots, Contracts
<1>2. PlanInv /\ FileInv
  BY FileAssumption DEF Init, PlanInv, FileInv
<1>3. QED
  BY <1>1, <1>2 DEF DeploymentInv

\* At every step of the script all the steps planned before it are done, in
\* whatever mode, with whoever else initializing contracts in between, and what
\* an earlier run recorded still is (deploy.sh:89-232).
THEOREM DeploymentOnPlan == Spec => []DeploymentInv
<1>1. Init => DeploymentInv
  BY DeploymentInit
<1>2. DeploymentInv /\ [Next]_vars => DeploymentInv'
  BY DeploymentStep
<1>3. QED
  BY <1>1, <1>2, PTL DEF Spec

\* The deployment stays within its types: a file that was written names
\* contracts and an admin that exist.
THEOREM DeploymentTyped == Spec => []TypeOK
<1>1. DeploymentInv => TypeOK
  BY DEF DeploymentInv
<1>2. QED
  BY <1>1, DeploymentOnPlan, PTL

\* A deployment that was recorded is one that can be used, for any number of
\* contracts, accounts and runs (deploy.sh:172-232).
THEOREM DeploymentRecordedIsConfigured == Spec => []RecordedIsConfigured
<1>1. DeploymentInv => RecordedIsConfigured
  BY DEF DeploymentInv, FileInv, Configured, RecordedIsConfigured
<1>2. QED
  BY <1>1, DeploymentOnPlan, PTL
=============================================================================
