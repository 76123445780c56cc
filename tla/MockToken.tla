----------------------------- MODULE MockToken -----------------------------
(***************************************************************************)
(* The SEP-41 token of the test suite and of testnet deployments,          *)
(* contracts/mock_token/src/lib.rs.  A call that panics changes nothing,   *)
(* so every panic is a guard.                                              *)
(***************************************************************************)
EXTENDS TokenLedger, FiniteSets, Functions

CONSTANTS
  Addresses,
  Grants,         \* the <<owner, spender>> pairs that use allowances
  Amounts,        \* the amounts calls are made with
  Uninitialized,  \* the value of an absent Admin entry
  MaxSequence     \* bound on ledger sequence numbers

ASSUME TokenAssumption ==
  /\ IsFiniteSet(Addresses)   \* a key has 32 bytes
  /\ Grants \subseteq Addresses \X Addresses
  /\ Amounts \subseteq I128
  /\ Uninitialized \notin Addresses
  /\ MaxSequence \in Nat

VARIABLES
  admin,
  balances,     \* of each address, 0 where no entry is stored
  allowances,   \* AllowanceData of each grant, <<0, 0>> where none is stored
  sequence,     \* env.ledger().sequence()
  signer,       \* history: who authorized the last call
  issued,       \* history: minted less burned
  granted,      \* history: the amount of the last approve of each grant
  drawn         \* history: what the spender took since that approve

storage == <<admin, balances, allowances>>
history == <<signer, issued, granted, drawn>>
vars    == <<storage, sequence, history>>

AllowanceData == [amount : I128, expiration_ledger : 0 .. MaxSequence + 1]

TypeOK ==
  /\ admin \in Addresses \cup {Uninitialized}
  /\ balances \in [Addresses -> I128]
  /\ allowances \in [Grants -> AllowanceData]
  /\ sequence \in 0 .. MaxSequence
  /\ signer \in Addresses \cup {Uninitialized}
  /\ issued \in Int
  /\ granted \in [Grants -> Int]
  /\ drawn \in [Grants -> Int]

-----------------------------------------------------------------------------
\* What a spender may take now: nothing from the expiration ledger on.
allowance(g) ==
  IF allowances[g].expiration_ledger > sequence THEN allowances[g].amount ELSE 0

SpentTwice(g, amount) ==      \* mutant: the entry keeps its amount
  /\ allowance(g) >= amount
  /\ UNCHANGED allowances

spend_allowance(g, amount) ==
  /\ allowance(g) >= amount
  /\ allowances' = [allowances EXCEPT ![g].amount = allowance(g) - amount]

\* What burn and burn_from do to the balances.
burned(from, amount) ==
  /\ amount >= 0
  /\ balances[from] >= amount
  /\ balances' = [balances EXCEPT ![from] = @ - amount]
  /\ issued' = issued - amount

moved(from, to, amount) ==
  /\ CanMove(balances, from, to, amount)
  /\ balances' = Moved(balances, from, to, amount)
  /\ UNCHANGED issued

Drawn(g, amount) == drawn' = [drawn EXCEPT ![g] = @ + amount] /\ UNCHANGED granted

NoGrantUsed == UNCHANGED <<allowances, granted, drawn>>

-----------------------------------------------------------------------------
Init ==
  /\ admin = Uninitialized
  /\ balances = [a \in Addresses |-> 0]
  /\ allowances = [g \in Grants |-> [amount |-> 0, expiration_ledger |-> 0]]
  /\ sequence = 0
  /\ signer = Uninitialized
  /\ issued = 0
  /\ granted = [g \in Grants |-> 0]
  /\ drawn = [g \in Grants |-> 0]

initialize(a) ==
  /\ admin = Uninitialized
  /\ admin' = a
  /\ signer' = a
  /\ NoGrantUsed
  /\ UNCHANGED <<balances, sequence, issued>>

WrappingMint(to, amount) ==   \* mutant: no overflow check
  /\ admin # Uninitialized
  /\ amount >= 0
  /\ balances' = [balances EXCEPT ![to] = @ + amount]
  /\ signer' = admin
  /\ issued' = issued + amount
  /\ NoGrantUsed
  /\ UNCHANGED <<admin, sequence>>

mint(to, amount) ==
  /\ admin # Uninitialized
  /\ amount >= 0
  /\ balances[to] + amount \in I128
  /\ balances' = [balances EXCEPT ![to] = @ + amount]
  /\ signer' = admin
  /\ issued' = issued + amount
  /\ NoGrantUsed
  /\ UNCHANGED <<admin, sequence>>

ApproveAdds(g, amount, expiration_ledger) ==   \* mutant: on top of what is left
  /\ amount >= 0
  /\ amount > 0 => expiration_ledger >= sequence
  /\ allowances' = [allowances EXCEPT
       ![g] = [amount |-> allowance(g) + amount, expiration_ledger |-> expiration_ledger]]
  /\ signer' = g[1]
  /\ granted' = [granted EXCEPT ![g] = amount]
  /\ drawn' = [drawn EXCEPT ![g] = 0]
  /\ UNCHANGED <<admin, balances, sequence, issued>>

approve(g, amount, expiration_ledger) ==
  /\ amount >= 0
  /\ amount > 0 => expiration_ledger >= sequence
  /\ allowances' = [allowances EXCEPT
       ![g] = [amount |-> amount, expiration_ledger |-> expiration_ledger]]
  /\ signer' = g[1]
  /\ granted' = [granted EXCEPT ![g] = amount]
  /\ drawn' = [drawn EXCEPT ![g] = 0]
  /\ UNCHANGED <<admin, balances, sequence, issued>>

transfer(from, to, amount) ==
  /\ moved(from, to, amount)
  /\ signer' = from
  /\ NoGrantUsed
  /\ UNCHANGED <<admin, sequence>>

transfer_from(g, to, amount) ==
  /\ amount >= 0
  /\ spend_allowance(g, amount)
  /\ moved(g[1], to, amount)
  /\ signer' = g[2]
  /\ Drawn(g, amount)
  /\ UNCHANGED <<admin, sequence>>

burn(from, amount) ==
  /\ burned(from, amount)
  /\ signer' = from
  /\ NoGrantUsed
  /\ UNCHANGED <<admin, sequence>>

burn_from(g, amount) ==
  /\ amount >= 0
  /\ spend_allowance(g, amount)
  /\ burned(g[1], amount)
  /\ signer' = g[2]
  /\ Drawn(g, amount)
  /\ UNCHANGED <<admin, sequence>>

LedgerCloses ==
  /\ sequence < MaxSequence
  /\ sequence' = sequence + 1
  /\ UNCHANGED <<storage, history>>

Next ==
  \/ \E a \in Addresses : initialize(a)
  \/ \E to \in Addresses, n \in Amounts : mint(to, n)
  \/ \E g \in Grants, n \in Amounts, e \in 0 .. MaxSequence + 1 : approve(g, n, e)
  \/ \E from, to \in Addresses, n \in Amounts : transfer(from, to, n)
  \/ \E g \in Grants, to \in Addresses, n \in Amounts : transfer_from(g, to, n)
  \/ \E from \in Addresses, n \in Amounts : burn(from, n)
  \/ \E g \in Grants, n \in Amounts : burn_from(g, n)
  \/ LedgerCloses

Spec == Init /\ [][Next]_vars

-----------------------------------------------------------------------------
\* Tokens come from mint and leave by burn alone: no transfer, to oneself or on
\* somebody's behalf, creates or destroys any, and nobody owes.
SupplyIsIssued ==
  /\ SumFunctionOnSet(balances, Addresses) = issued
  /\ \A a \in Addresses : balances[a] >= 0

\* Between two approvals a spender takes no more, all calls together, than the
\* first one granted, and what is left to take is never more than the rest.
DrawnWithinGrant ==
  \A g \in Grants :
    /\ drawn[g] <= granted[g]
    /\ allowance(g) <= granted[g] - drawn[g]

\* A balance falls only by a call its owner authorized, or by a call of a
\* spender whose grant has not expired and has that much less left afterwards.
OnlyOwnerOrGrantTakes ==
  [][\A a \in Addresses :
       LET g     == <<a, signer'>>
           taken == balances[a] - balances'[a]
       IN  (taken > 0 /\ signer' # a) =>
             /\ g \in Grants
             /\ allowances[g].expiration_ledger > sequence
             /\ allowances'[g].amount = allowances[g].amount - taken]_vars
=============================================================================
