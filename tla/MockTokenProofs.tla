-------------------------- MODULE MockTokenProofs --------------------------
(***************************************************************************)
(* The mock token for every set of holders, grants and amounts, and every  *)
(* width.                                                                  *)
(***************************************************************************)
EXTENDS MockToken, FoldTheorems

\* A grant is a pair of addresses.
LEMMA GrantPair ==
  ASSUME NEW g \in Grants
  PROVE  g = <<g[1], g[2]>> /\ g[1] \in Addresses /\ g[2] \in Addresses
BY TokenAssumption

LEMMA Width == I128 \subseteq Int /\ \A n \in I128 : 0 .. n \subseteq I128
BY WidthAssumption DEF I128

\* What a spender may take is a stored amount or nothing.
LEMMA AllowanceTyped ==
  ASSUME TypeOK, NEW g \in Grants
  PROVE  /\ allowances[g] \in AllowanceData
         /\ allowance(g) \in I128
         /\ allowance(g) # 0 => allowances[g].expiration_ledger > sequence
<1>1. allowances[g] \in AllowanceData
  BY DEF TypeOK
<1>2. 0 \in I128
  BY WidthAssumption DEF I128
<1>3. QED
  BY <1>1, <1>2 DEF allowance, AllowanceData

\* A movement of balances, address by address.
LEMMA MovedBalances ==
  ASSUME TypeOK, NEW from \in Addresses, NEW to \in Addresses, NEW amount \in I128,
         moved(from, to, amount)
  PROVE  /\ balances' \in [Addresses -> I128]
         /\ \A a \in Addresses \ {from} : balances'[a] >= balances[a]
         /\ balances'[from] = IF from = to THEN balances[from] ELSE balances[from] - amount
<1>a. balances \in [Addresses -> I128]
  BY DEF TypeOK
<1>b. amount \in Int /\ \A a \in Addresses : balances[a] \in Int
  BY <1>a, Width
<1>c. /\ amount >= 0 /\ balances[from] >= amount
      /\ Moved(balances, from, to, amount)[to] \in I128
      /\ balances' = Moved(balances, from, to, amount)
  BY DEF moved, CanMove
<1>1. amount \in Nat /\ balances[from] \in Nat
  BY <1>b, <1>c
<1>2. \A a \in Addresses :
        balances'[a] = balances[a] + (IF a = to THEN amount ELSE 0)
                                   - (IF a = from THEN amount ELSE 0)
  BY <1>a, <1>b, <1>c DEF Moved
<1>3. ASSUME NEW a \in Addresses PROVE balances'[a] \in I128
  <2>1. CASE a = to
    BY <2>1, <1>c
  <2>2. CASE a # to /\ a = from
    <3>1. balances'[a] \in 0 .. balances[from]
      BY <2>2, <1>b, <1>c, <1>1, <1>2
    <3>2. QED
      BY <3>1, <1>a, Width
  <2>3. CASE a # to /\ a # from
    <3>1. balances[a] \in I128 /\ balances[a] \in Int
      BY <1>a, <1>b
    <3>2. balances'[a] = balances[a]
      BY <2>3, <3>1, <1>2
    <3>3. QED
      BY <3>1, <3>2
  <2>4. QED
    BY <2>1, <2>2, <2>3
<1>4. balances' \in [Addresses -> I128]
  BY <1>a, <1>c, <1>3 DEF Moved
<1>5. QED
  BY <1>b, <1>1, <1>2, <1>4

LEMMA BurnedBalances ==
  ASSUME TypeOK, NEW from \in Addresses, NEW amount \in I128, burned(from, amount)
  PROVE  /\ balances' \in [Addresses -> I128]
         /\ \A a \in Addresses \ {from} : balances'[a] = balances[a]
         /\ balances'[from] = balances[from] - amount
         /\ issued' \in Int
<1>a. balances \in [Addresses -> I128] /\ issued \in Int
  BY DEF TypeOK
<1>b. amount \in Int /\ balances[from] \in Int
  BY <1>a, Width
<1>1. /\ amount >= 0 /\ balances[from] >= amount /\ issued' = issued - amount
      /\ balances' = [balances EXCEPT ![from] = @ - amount]
  BY DEF burned
<1>2. balances[from] - amount \in I128
  <2>1. balances[from] - amount \in 0 .. balances[from]
    BY <1>1, <1>b
  <2>2. QED
    BY <2>1, <1>a, Width
<1>3. issued' \in Int
  BY <1>1, <1>a, <1>b
<1>4. QED
  BY <1>1, <1>a, <1>2, <1>3

\* What a spender leaves of its grant.
LEMMA SpentAllowance ==
  ASSUME TypeOK, NEW g \in Grants, NEW amount \in I128, amount >= 0,
         spend_allowance(g, amount), Drawn(g, amount)
  PROVE  /\ allowances' \in [Grants -> AllowanceData]
         /\ allowances'[g].amount = allowance(g) - amount
         /\ \A h \in Grants \ {g} : allowances'[h] = allowances[h]
         /\ drawn' = [drawn EXCEPT ![g] = @ + amount]
         /\ drawn' \in [Grants -> Int] /\ granted' \in [Grants -> Int]
         /\ granted' = granted
<1>1. allowance(g) \in Int /\ amount \in Nat /\ allowance(g) >= amount
  BY AllowanceTyped, Width DEF spend_allowance
<1>2. allowance(g) - amount \in I128
  <2>1. allowance(g) - amount \in 0 .. allowance(g)
    BY <1>1
  <2>2. QED
    BY <2>1, AllowanceTyped, Width
<1>3. /\ allowances \in [Grants -> AllowanceData]
      /\ allowances' = [allowances EXCEPT ![g].amount = allowance(g) - amount]
  BY DEF TypeOK, spend_allowance
<1>4. /\ allowances' \in [Grants -> AllowanceData]
      /\ allowances'[g].amount = allowance(g) - amount
      /\ \A h \in Grants \ {g} : allowances'[h] = allowances[h]
  <2> DEFINE left == [allowances[g] EXCEPT !.amount = allowance(g) - amount]
  <2>1. allowances[g] \in AllowanceData
    BY <1>3
  <2>2. left \in AllowanceData /\ left.amount = allowance(g) - amount
    <3>1. left = [amount |-> allowance(g) - amount,
                  expiration_ledger |-> allowances[g].expiration_ledger]
      BY <2>1 DEF AllowanceData
    <3>2. allowances[g].expiration_ledger \in 0 .. MaxSequence + 1
      BY <2>1 DEF AllowanceData
    <3> HIDE DEF left
    <3>3. QED
      BY <1>2, <3>1, <3>2 DEF AllowanceData
  <2>3. allowances' = [allowances EXCEPT ![g] = left]
    BY <1>3
  <2> HIDE DEF left
  <2>4. QED
    BY <1>3, <2>2, <2>3
<1>5. drawn' = [drawn EXCEPT ![g] = drawn[g] + amount] /\ granted' = granted
  BY DEF Drawn
<1>6. drawn \in [Grants -> Int] /\ granted \in [Grants -> Int] /\ drawn[g] + amount \in Int
  BY <1>1 DEF TypeOK
<1>7. drawn' \in [Grants -> Int] /\ granted' \in [Grants -> Int]
  BY <1>5, <1>6
<1>8. QED
  BY <1>4, <1>5, <1>7

-----------------------------------------------------------------------------
LEMMA StepTyped == TypeOK /\ [Next]_vars => TypeOK'
<1> SUFFICES ASSUME TypeOK, [Next]_vars PROVE TypeOK'
  OBVIOUS
<1>1. Amounts \subseteq I128 /\ I128 \subseteq Int
  BY TokenAssumption, Width
<1>2. ASSUME NEW a \in Addresses, initialize(a) PROVE TypeOK'
  BY <1>2 DEF initialize, NoGrantUsed, TypeOK
<1>3. ASSUME NEW to \in Addresses, NEW n \in Amounts, mint(to, n) PROVE TypeOK'
  <2>1. balances' \in [Addresses -> I128]
    BY <1>3 DEF mint, TypeOK
  <2>2. issued' \in Int
    BY <1>1, <1>3 DEF mint, TypeOK
  <2>3. QED
    BY <1>3, <2>1, <2>2 DEF mint, NoGrantUsed, TypeOK
<1>4. ASSUME NEW g \in Grants, NEW n \in Amounts, NEW e \in 0 .. MaxSequence + 1,
             approve(g, n, e)
      PROVE  TypeOK'
  <2>1. [amount |-> n, expiration_ledger |-> e] \in AllowanceData
    BY <1>1 DEF AllowanceData
  <2>2. allowances' \in [Grants -> AllowanceData]
    BY <1>4, <2>1 DEF approve, TypeOK
  <2>3. granted' \in [Grants -> Int] /\ drawn' \in [Grants -> Int]
    BY <1>1, <1>4 DEF approve, TypeOK
  <2>4. QED
    BY <1>4, <2>2, <2>3, GrantPair DEF approve, TypeOK
<1>5. ASSUME NEW from \in Addresses, NEW to \in Addresses, NEW n \in Amounts,
             transfer(from, to, n)
      PROVE  TypeOK'
  <2>1. balances' \in [Addresses -> I128]
    BY <1>1, <1>5, MovedBalances DEF transfer
  <2>2. QED
    BY <1>5, <2>1 DEF transfer, moved, NoGrantUsed, TypeOK
<1>6. ASSUME NEW g \in Grants, NEW to \in Addresses, NEW n \in Amounts,
             transfer_from(g, to, n)
      PROVE  TypeOK'
  <2>1. balances' \in [Addresses -> I128]
    BY <1>1, <1>6, MovedBalances, GrantPair DEF transfer_from
  <2>2. /\ allowances' \in [Grants -> AllowanceData]
        /\ drawn' \in [Grants -> Int] /\ granted' \in [Grants -> Int]
    BY <1>1, <1>6, SpentAllowance DEF transfer_from
  <2>3. QED
    BY <1>6, <2>1, <2>2, GrantPair DEF transfer_from, moved, TypeOK
<1>7. ASSUME NEW from \in Addresses, NEW n \in Amounts, burn(from, n) PROVE TypeOK'
  <2>1. balances' \in [Addresses -> I128] /\ issued' \in Int
    BY <1>1, <1>7, BurnedBalances DEF burn
  <2>2. QED
    BY <1>7, <2>1 DEF burn, NoGrantUsed, TypeOK
<1>8. ASSUME NEW g \in Grants, NEW n \in Amounts, burn_from(g, n) PROVE TypeOK'
  <2>1. balances' \in [Addresses -> I128] /\ issued' \in Int
    BY <1>1, <1>8, BurnedBalances, GrantPair DEF burn_from
  <2>2. /\ allowances' \in [Grants -> AllowanceData]
        /\ drawn' \in [Grants -> Int] /\ granted' \in [Grants -> Int]
    BY <1>1, <1>8, SpentAllowance DEF burn_from
  <2>3. QED
    BY <1>8, <2>1, <2>2, GrantPair DEF burn_from, TypeOK
<1>9. CASE LedgerCloses
  BY <1>9, TokenAssumption DEF LedgerCloses, storage, history, TypeOK
<1>10. CASE UNCHANGED vars
  BY <1>10 DEF vars, storage, history, TypeOK
<1>11. QED
  BY <1>2, <1>3, <1>4, <1>5, <1>6, <1>7, <1>8, <1>9, <1>10 DEF Next

\* Balances, allowances and histories stay within their widths and sets, so no
\* call leaves a balance that an i128 cannot hold (mock_token lib.rs:36-242).
THEOREM TokenTyped == Spec => []TypeOK
<1>1. Init => TypeOK
  <2> SUFFICES ASSUME Init PROVE TypeOK
    OBVIOUS
  <2>1. 0 \in I128 /\ 0 \in 0 .. MaxSequence + 1 /\ 0 \in 0 .. MaxSequence
    BY WidthAssumption, TokenAssumption DEF I128
  <2>2. [amount |-> 0, expiration_ledger |-> 0] \in AllowanceData
    BY <2>1 DEF AllowanceData
  <2>3. QED
    BY <2>1, <2>2 DEF Init, TypeOK
<1>2. QED
  BY <1>1, StepTyped, PTL DEF Spec

-----------------------------------------------------------------------------
(* The supply.                                                             *)

\* One entry of the balance sheet changes: the supply changes by as much.
LEMMA SupplyOfChange ==
  ASSUME NEW b \in [Addresses -> Int], NEW c \in [Addresses -> Int],
         NEW a \in Addresses, NEW d \in Int, c[a] = b[a] + d,
         \A x \in Addresses \ {a} : c[x] = b[x]
  PROVE  SumFunctionOnSet(c, Addresses) = SumFunctionOnSet(b, Addresses) + d
<1>1. \A x \in Addresses : b[x] \in Int /\ c[x] \in Int
  OBVIOUS
<1>2. SumFunctionOnSet(c, Addresses) = SumFunctionOnSet(b, Addresses) - b[a] + c[a]
  BY <1>1, SumChange, TokenAssumption
<1>3. SumFunctionOnSet(b, Addresses) \in Int
  BY <1>1, SumInt, TokenAssumption
<1>4. b[a] \in Int
  OBVIOUS
<1>5. QED
  BY <1>2, <1>3, <1>4

\* move_balance debits and then credits, to oneself as well (lib.rs:199-206).
LEMMA SupplyOfMove ==
  ASSUME NEW b \in [Addresses -> Int], NEW from \in Addresses, NEW to \in Addresses,
         NEW amount \in Int
  PROVE  SumFunctionOnSet(Moved(b, from, to, amount), Addresses)
           = SumFunctionOnSet(b, Addresses)
<1> DEFINE debited  == [b EXCEPT ![from] = @ - amount]
           credited == [debited EXCEPT ![to] = @ + amount]
<1>1. /\ debited \in [Addresses -> Int]
      /\ debited[from] = b[from] + (-amount)
      /\ \A x \in Addresses \ {from} : debited[x] = b[x]
  OBVIOUS
<1>2. credited = Moved(b, from, to, amount)
  BY DEF Moved
<1> HIDE DEF debited
<1>3. /\ credited \in [Addresses -> Int]
      /\ credited[to] = debited[to] + amount
      /\ \A x \in Addresses \ {to} : credited[x] = debited[x]
  BY <1>1
<1> HIDE DEF credited
<1>4. SumFunctionOnSet(debited, Addresses) = SumFunctionOnSet(b, Addresses) + (-amount)
  <2>1. -amount \in Int
    OBVIOUS
  <2>2. QED
    BY <1>1, <2>1, SupplyOfChange
<1>5. SumFunctionOnSet(credited, Addresses) = SumFunctionOnSet(debited, Addresses) + amount
  BY <1>1, <1>3, SupplyOfChange
<1>6. SumFunctionOnSet(b, Addresses) \in Int
  BY SumInt, TokenAssumption
<1>7. SumFunctionOnSet(credited, Addresses) = SumFunctionOnSet(b, Addresses)
  BY <1>4, <1>5, <1>6
<1>8. QED
  BY <1>2, <1>7

LEMMA StepSupply == TypeOK /\ SupplyIsIssued /\ [Next]_vars => SupplyIsIssued'
<1> SUFFICES ASSUME TypeOK, SupplyIsIssued, [Next]_vars PROVE SupplyIsIssued'
  OBVIOUS
<1>1. Amounts \subseteq I128 /\ I128 \subseteq Int
  BY TokenAssumption, Width
<1>2. balances \in [Addresses -> Int] /\ issued \in Int
  BY <1>1 DEF TypeOK
<1>3. /\ SumFunctionOnSet(balances, Addresses) = issued
      /\ \A a \in Addresses : balances[a] >= 0
  BY DEF SupplyIsIssued
<1>4. CASE UNCHANGED <<balances, issued>>
  BY <1>4 DEF SupplyIsIssued
<1>5. ASSUME NEW to \in Addresses, NEW n \in Amounts, mint(to, n)
      PROVE  SupplyIsIssued'
  <2>1. /\ n \in Int /\ n >= 0 /\ issued' = issued + n
        /\ balances' = [balances EXCEPT ![to] = @ + n]
    BY <1>1, <1>5 DEF mint
  <2>2. /\ balances' \in [Addresses -> Int] /\ balances'[to] = balances[to] + n
        /\ \A a \in Addresses \ {to} : balances'[a] = balances[a]
    BY <1>2, <2>1
  <2>3. SumFunctionOnSet(balances', Addresses) = issued'
    <3>1. n \in Int
      BY <2>1
    <3>2. SumFunctionOnSet(balances', Addresses) = SumFunctionOnSet(balances, Addresses) + n
      BY <1>2, <2>2, <3>1, SupplyOfChange
    <3>3. QED
      BY <1>3, <2>1, <3>2
  <2>4. ASSUME NEW a \in Addresses PROVE balances'[a] >= 0
    BY <1>2, <1>3, <2>1
  <2>5. QED
    BY <2>3, <2>4 DEF SupplyIsIssued
<1>6. ASSUME NEW from \in Addresses, NEW to \in Addresses, NEW n \in Amounts,
             moved(from, to, n)
      PROVE  SupplyIsIssued'
  <2>1. /\ n \in Int /\ n >= 0 /\ balances[from] >= n /\ issued' = issued
        /\ balances' = Moved(balances, from, to, n)
    BY <1>1, <1>6 DEF moved, CanMove
  <2>2. SumFunctionOnSet(balances', Addresses) = issued'
    BY <1>2, <1>3, <2>1, SupplyOfMove
  <2>3. ASSUME NEW a \in Addresses PROVE balances'[a] >= 0
    <3>1. /\ \A b \in Addresses \ {from} : balances'[b] >= balances[b]
          /\ balances'[from] = IF from = to THEN balances[from] ELSE balances[from] - n
          /\ balances' \in [Addresses -> I128]
      BY <1>1, <1>6, MovedBalances
    <3>2. balances'[a] \in Int /\ balances[a] \in Int /\ balances[a] >= 0
      BY <1>1, <1>2, <1>3, <3>1
    <3>3. QED
      BY <1>2, <2>1, <3>1, <3>2
  <2>4. QED
    BY <2>2, <2>3 DEF SupplyIsIssued
<1>7. ASSUME NEW from \in Addresses, NEW n \in Amounts, burned(from, n)
      PROVE  SupplyIsIssued'
  <2>1. /\ n \in Int /\ n >= 0 /\ balances[from] >= n /\ issued' = issued - n
        /\ balances' = [balances EXCEPT ![from] = @ + (-n)]
    BY <1>1, <1>2, <1>7 DEF burned
  <2>2. /\ balances' \in [Addresses -> Int] /\ balances'[from] = balances[from] + (-n)
        /\ \A a \in Addresses \ {from} : balances'[a] = balances[a]
    BY <1>2, <2>1
  <2>3. SumFunctionOnSet(balances', Addresses) = issued'
    <3>1. -n \in Int /\ issued' = issued + (-n)
      BY <1>2, <2>1
    <3>2. QED
      BY <1>2, <1>3, <2>2, <3>1, SupplyOfChange
  <2>4. ASSUME NEW a \in Addresses PROVE balances'[a] >= 0
    BY <1>2, <1>3, <2>1
  <2>5. QED
    BY <2>3, <2>4 DEF SupplyIsIssued
<1>8. QED
  BY <1>4, <1>5, <1>6, <1>7, GrantPair
     DEF Next, vars, storage, history, initialize, approve, transfer,
         transfer_from, burn, burn_from, LedgerCloses

\* The balances add up to what was minted less what was burned, and none is
\* negative, after any calls by anybody (lib.rs:63-153, 199-206).
THEOREM TokenSupplyIsIssued == Spec => []SupplyIsIssued
<1>1. Init => SupplyIsIssued
  <2> SUFFICES ASSUME Init PROVE SupplyIsIssued
    OBVIOUS
  <2>1. balances = [a \in Addresses |-> 0] /\ issued = 0
    BY DEF Init
  <2>2. \A a \in Addresses : balances[a] = 0
    BY <2>1
  <2>3. SumFunctionOnSet(balances, Addresses) = 0
    BY <2>2, SumZero, TokenAssumption
  <2>4. QED
    BY <2>1, <2>2, <2>3 DEF SupplyIsIssued
<1>2. QED
  BY <1>1, StepSupply, TokenTyped, PTL DEF Spec

-----------------------------------------------------------------------------
\* What is stored of a grant is never more than what is left of it; unlike
\* what can be spent of it, that does not depend on the ledger.
StoredWithinGrant ==
  \A g \in Grants : allowances[g].amount \in 0 .. (granted[g] - drawn[g])

LEMMA StepStored == TypeOK /\ StoredWithinGrant /\ [Next]_vars => StoredWithinGrant'
<1> SUFFICES ASSUME TypeOK, StoredWithinGrant, [Next]_vars PROVE StoredWithinGrant'
  OBVIOUS
<1>1. Amounts \subseteq I128 /\ I128 \subseteq Int
  BY TokenAssumption, Width
<1>2. CASE UNCHANGED <<allowances, granted, drawn>>
  BY <1>2 DEF StoredWithinGrant
<1>3. ASSUME NEW g \in Grants, NEW n \in Amounts, NEW e \in 0 .. MaxSequence + 1,
             approve(g, n, e)
      PROVE  StoredWithinGrant'
  <2>1. n \in Nat
    BY <1>1, <1>3 DEF approve
  <2>2. \A h \in Grants :
          /\ allowances'[h].amount = IF h = g THEN n ELSE allowances[h].amount
          /\ granted'[h] = IF h = g THEN n ELSE granted[h]
          /\ drawn'[h] = IF h = g THEN 0 ELSE drawn[h]
    BY <1>3 DEF approve, TypeOK
  <2>3. QED
    BY <2>1, <2>2 DEF StoredWithinGrant
<1>4. ASSUME NEW g \in Grants, NEW n \in Amounts, n >= 0,
             spend_allowance(g, n), Drawn(g, n)
      PROVE  StoredWithinGrant'
  <2>1. allowance(g) \in 0 .. (granted[g] - drawn[g]) /\ allowance(g) >= n
    <3>1. allowances[g].amount \in 0 .. (granted[g] - drawn[g])
      BY DEF StoredWithinGrant
    <3>2. granted[g] \in Int /\ drawn[g] \in Int
      BY DEF TypeOK
    <3>3. QED
      BY <1>4, <3>1, <3>2 DEF allowance, spend_allowance
  <2>2. /\ allowances'[g].amount = allowance(g) - n
        /\ drawn'[g] = drawn[g] + n
        /\ granted' = granted
        /\ \A h \in Grants \ {g} : allowances'[h] = allowances[h] /\ drawn'[h] = drawn[h]
    BY <1>1, <1>4, SpentAllowance DEF TypeOK
  <2>3. granted[g] \in Int /\ drawn[g] \in Int /\ n \in Nat
    BY <1>1, <1>4 DEF TypeOK
  <2>4. allowances'[g].amount \in 0 .. (granted'[g] - drawn'[g])
    BY <2>1, <2>2, <2>3
  <2>5. QED
    BY <2>2, <2>4 DEF StoredWithinGrant
<1>5. QED
  BY <1>2, <1>3, <1>4
     DEF Next, vars, storage, history, NoGrantUsed, initialize, mint, transfer,
         transfer_from, burn, burn_from, LedgerCloses

\* Between two approvals a spender takes no more than the first one granted,
\* whatever mix of transfer_from, burn_from and expiry (lib.rs:226-242).
THEOREM TokenDrawnWithinGrant == Spec => []DrawnWithinGrant
<1>1. Init => StoredWithinGrant
  BY DEF Init, StoredWithinGrant
<1>2. TypeOK /\ StoredWithinGrant => DrawnWithinGrant
  <2> SUFFICES ASSUME TypeOK, StoredWithinGrant, NEW g \in Grants
               PROVE  /\ drawn[g] <= granted[g]
                      /\ allowance(g) <= granted[g] - drawn[g]
    BY DEF DrawnWithinGrant
  <2>1. /\ allowances[g].amount \in 0 .. (granted[g] - drawn[g])
        /\ granted[g] \in Int /\ drawn[g] \in Int
    BY DEF StoredWithinGrant, TypeOK
  <2>2. QED
    BY <2>1 DEF allowance
<1>3. QED
  BY <1>1, <1>2, StepStored, TokenTyped, PTL DEF Spec

-----------------------------------------------------------------------------
\* A balance falls only by its owner's call or on a live grant, of which that
\* much less is left (lib.rs:113-153, 226-242).
THEOREM TokenOnlyOwnerOrGrantTakes == Spec => OnlyOwnerOrGrantTakes
<1> DEFINE Rightful(a) ==
      (balances[a] - balances'[a] > 0 /\ signer' # a) =>
        /\ <<a, signer'>> \in Grants
        /\ allowances[<<a, signer'>>].expiration_ledger > sequence
        /\ allowances'[<<a, signer'>>].amount
             = allowances[<<a, signer'>>].amount - (balances[a] - balances'[a])
<1>1. ASSUME TypeOK, Next, NEW a \in Addresses PROVE Rightful(a)
  <2>1. Amounts \subseteq I128 /\ I128 \subseteq Int /\ balances[a] \in Int
    BY <1>1, TokenAssumption, Width DEF TypeOK
  <2>2. CASE UNCHANGED balances
    BY <2>1, <2>2
  <2>3. ASSUME NEW to \in Addresses, NEW n \in Amounts, mint(to, n) PROVE Rightful(a)
    <3>1. balances'[a] >= balances[a]
      BY <1>1, <2>1, <2>3 DEF mint, TypeOK
    <3>2. balances'[a] \in Int
      BY <1>1, <2>1, <2>3 DEF mint, TypeOK
    <3>3. QED
      BY <2>1, <3>1, <3>2
  <2>4. ASSUME NEW from \in Addresses, NEW to \in Addresses, NEW n \in Amounts,
               transfer(from, to, n)
        PROVE  Rightful(a)
    <3>1. signer' = from /\ balances'[a] \in Int /\ (a # from => balances'[a] >= balances[a])
      BY <1>1, <2>1, <2>4, MovedBalances DEF transfer
    <3>2. QED
      BY <2>1, <3>1
  <2>5. ASSUME NEW from \in Addresses, NEW n \in Amounts, burn(from, n) PROVE Rightful(a)
    <3>1. signer' = from /\ (a # from => balances'[a] = balances[a])
      BY <1>1, <2>1, <2>5, BurnedBalances DEF burn
    <3>2. QED
      BY <2>1, <3>1
  <2>6. ASSUME NEW g \in Grants, NEW n \in Amounts, n >= 0,
               spend_allowance(g, n), Drawn(g, n), signer' = g[2],
               a # g[1] => balances'[a] >= balances[a],
               balances'[a] \in Int,
               a = g[1] => balances'[a] = balances[a] \/ balances'[a] = balances[a] - n
        PROVE  Rightful(a)
    <3> SUFFICES ASSUME balances[a] - balances'[a] > 0
                 PROVE  /\ <<a, signer'>> \in Grants
                        /\ allowances[<<a, signer'>>].expiration_ledger > sequence
                        /\ allowances'[<<a, signer'>>].amount
                             = allowances[<<a, signer'>>].amount - (balances[a] - balances'[a])
      OBVIOUS
    <3>1. n \in Int /\ balances'[a] \in Int
      BY <2>1, <2>6
    <3>2. a = g[1] /\ balances'[a] = balances[a] - n /\ n > 0
      BY <2>1, <2>6, <3>1
    <3>3. <<a, signer'>> = g
      BY <2>6, <3>2, GrantPair
    <3>4. allowance(g) # 0
      BY <1>1, <2>1, <2>6, <3>2, AllowanceTyped DEF spend_allowance
    <3>5. allowances[g].expiration_ledger > sequence
      BY <1>1, <3>4, AllowanceTyped
    <3>6. allowances'[g].amount = allowances[g].amount - n
      <4>1. allowances'[g].amount = allowance(g) - n
        BY <1>1, <2>1, <2>6, SpentAllowance
      <4>2. QED
        BY <3>5, <4>1 DEF allowance
    <3>7. n = balances[a] - balances'[a]
      BY <2>1, <3>1, <3>2
    <3>8. QED
      BY <2>6, <3>3, <3>5, <3>6, <3>7
  <2>7. ASSUME NEW g \in Grants, NEW to \in Addresses, NEW n \in Amounts,
               transfer_from(g, to, n)
        PROVE  Rightful(a)
    <3>1. /\ n >= 0 /\ spend_allowance(g, n) /\ Drawn(g, n) /\ signer' = g[2]
          /\ g[1] \in Addresses /\ moved(g[1], to, n)
      BY <2>7, GrantPair DEF transfer_from
    <3>m. /\ balances' \in [Addresses -> I128]
          /\ \A b \in Addresses \ {g[1]} : balances'[b] >= balances[b]
          /\ balances'[g[1]] = IF g[1] = to THEN balances[g[1]] ELSE balances[g[1]] - n
      <4>1. n \in I128
        BY <2>1
      <4>2. TypeOK /\ g[1] \in Addresses /\ to \in Addresses /\ moved(g[1], to, n)
        BY <1>1, <3>1
      <4>3. QED
        BY <4>1, <4>2, MovedBalances, Zenon
    <3>2. /\ balances'[a] \in Int
          /\ a # g[1] => balances'[a] >= balances[a]
          /\ a = g[1] => balances'[a] = balances[a] \/ balances'[a] = balances[a] - n
      BY <2>1, <3>m
    <3>3. QED
      BY <3>1, <3>2, <2>6
  <2>8. ASSUME NEW g \in Grants, NEW n \in Amounts, burn_from(g, n) PROVE Rightful(a)
    <3>1. /\ n >= 0 /\ spend_allowance(g, n) /\ Drawn(g, n) /\ signer' = g[2]
          /\ g[1] \in Addresses /\ burned(g[1], n)
      BY <2>8, GrantPair DEF burn_from
    <3>2. /\ balances'[a] \in Int
          /\ a # g[1] => balances'[a] >= balances[a]
          /\ a = g[1] => balances'[a] = balances[a] \/ balances'[a] = balances[a] - n
      <4>1. n \in I128
        BY <2>1
      <4>2. TypeOK /\ g[1] \in Addresses /\ burned(g[1], n)
        BY <1>1, <3>1
      <4>3. /\ balances' \in [Addresses -> I128]
            /\ \A b \in Addresses \ {g[1]} : balances'[b] = balances[b]
            /\ balances'[g[1]] = balances[g[1]] - n
        BY <4>1, <4>2, BurnedBalances, Zenon
      <4>4. balances'[a] \in Int
        BY <2>1, <4>3
      <4>5. CASE a = g[1]
        BY <4>3, <4>4, <4>5
      <4>6. CASE a # g[1]
        <5>1. balances'[a] = balances[a]
          BY <4>3, <4>6
        <5>2. QED
          BY <2>1, <4>4, <4>6, <5>1
      <4>7. QED
        BY <4>5, <4>6
    <3>3. QED
      BY <3>1, <3>2, <2>6
  <2>9. QED
    BY <1>1, <2>2, <2>3, <2>4, <2>5, <2>7, <2>8
       DEF Next, initialize, approve, LedgerCloses, storage
<1>2. TypeOK /\ [Next]_vars => [\A a \in Addresses : Rightful(a)]_vars
  BY <1>1
<1>3. QED
  BY <1>2, TokenTyped, PTL DEF Spec, OnlyOwnerOrGrantTakes
=============================================================================
