---------------------------- MODULE RouterProofs ----------------------------
(***************************************************************************)
(* The router's safety for every set of intents, tokens, solvers and       *)
(* amounts, with or without the host's ban on re-entry, at every nesting   *)
(* depth.                                                                  *)
(***************************************************************************)
EXTENDS RouterProperties, SlipMathProofs, FoldTheorems, SequenceTheorems

-----------------------------------------------------------------------------
(* Facts about one call and one stack.                                     *)

\* The arithmetic of a call stays in the integers.
LEMMA CallTyped ==
  ASSUME NEW c \in Calls
  PROVE  /\ c.intent \in Intents /\ c.solver \in Solvers /\ c.amount \in Amounts
         /\ c.solver \in Addresses /\ c.intent.trader \in Addresses
         /\ Hash[c.intent] \in Hashes
         /\ NonceKey(c.intent) \in Addresses \X Nonces
         /\ IsPriced(c.intent)
         /\ c.amount \in Int
BY IntentsAssumption, HashAssumption, AddressAssumption, ValueAssumption
   DEF Calls, NonceKey, IsPriced

LEMMA FeeTyped ==
  ASSUME NEW c \in Calls
  PROVE  /\ solver_fee(c.intent, c.amount) \in Int
         /\ trader_proceeds(c.intent, c.amount) \in Int
<1>1. /\ c.amount * c.intent.solver_fee_bps \in Int
      /\ BPS_DENOMINATOR \in Nat \ {0}
  BY CallTyped, BpsAssumption DEF IsPriced
<1>2. solver_fee(c.intent, c.amount) \in Int
  BY <1>1, DivisionBounds DEF solver_fee, mul_bps
<1>3. QED
  BY <1>2, CallTyped DEF trader_proceeds

\* A transfer is between two addresses and of an integer amount.
LEMMA LegTyped ==
  ASSUME NEW c \in Calls, NEW pc \in Legs
  PROVE  /\ Leg(c, pc).token \in Tokens
         /\ Leg(c, pc).from \in Addresses
         /\ Leg(c, pc).to \in Addresses
         /\ Leg(c, pc).amount \in Int
         /\ AfterLeg(c, pc) \in Legs \cup {"receipt"}
<1>1. /\ c.intent.sell_token \in Tokens /\ c.intent.buy_token \in Tokens
      /\ c.intent.sell_amount \in Int
      /\ RouterAddress \in Addresses
  BY CallTyped, IntentsAssumption, AddressAssumption
<1>2. CASE pc = "sell"
  BY <1>1, <1>2, CallTyped DEF Leg, AfterLeg, Legs
<1>3. CASE pc = "pull"
  BY <1>1, <1>3, CallTyped DEF Leg, AfterLeg, Legs
<1>4. CASE pc = "pay"
  BY <1>1, <1>4, CallTyped, FeeTyped DEF Leg, AfterLeg, Legs
<1>5. CASE pc = "fee"
  BY <1>1, <1>5, CallTyped, FeeTyped DEF Leg, AfterLeg, Legs
<1>6. QED
  BY <1>2, <1>3, <1>4, <1>5 DEF Legs

\* The innermost frame is a frame.
LEMMA TopTyped ==
  ASSUME TypeOK, stack # <<>>
  PROVE  /\ Len(stack) \in Nat \ {0} /\ Len(stack) \in 1 .. Len(stack)
         /\ Top \in Frame /\ Top.call \in Calls /\ Top.saved \in Ledger
         /\ stack[1] \in Frame /\ stack[1].saved \in Ledger
<1>1. stack \in Seq(Frame)
  BY DEF TypeOK
<1>2. Len(stack) \in Nat \ {0}
  BY <1>1, EmptySeq
<1>3. Top \in Frame /\ stack[1] \in Frame
  BY <1>1, <1>2, ElementOfSeq DEF Top
<1>4. QED
  BY <1>2, <1>3 DEF Frame

\* A sequence without its last element.
LEMMA PrefixProperties ==
  ASSUME NEW S, NEW seq \in Seq(S), seq # <<>>
  PROVE  /\ SubSeq(seq, 1, Len(seq) - 1) \in Seq(S)
         /\ Len(SubSeq(seq, 1, Len(seq) - 1)) = Len(seq) - 1
         /\ \A k \in 1 .. Len(seq) - 1 : SubSeq(seq, 1, Len(seq) - 1)[k] = seq[k]
<1>1. Len(seq) \in Nat \ {0}
  BY EmptySeq
<1>2. PICK n \in Nat : n = Len(seq) - 1
  BY <1>1
<1>3. /\ SubSeq(seq, 1, n) \in Seq(S)
      /\ Len(SubSeq(seq, 1, n)) = n
      /\ \A k \in 1 .. n : SubSeq(seq, 1, n)[k] = seq[k]
  BY <1>1, <1>2, SubSeqProperties
<1>4. QED
  BY <1>2, <1>3

\* Leaving a call removes the innermost frame and keeps the others.
LEMMA PoppedFrames ==
  ASSUME TypeOK, stack # <<>>
  PROVE  /\ Popped \in Seq(Frame)
         /\ Len(Popped) = Len(stack) - 1
         /\ \A k \in 1 .. Len(stack) - 1 : Popped[k] = stack[k]
<1>1. stack \in Seq(Frame)
  BY DEF TypeOK
<1>2. QED
  BY <1>1, PrefixProperties DEF Popped

\* Entering a call adds a frame on top.
LEMMA PushedFrames ==
  ASSUME TypeOK, NEW f \in Frame
  PROVE  /\ Append(stack, f) \in Seq(Frame)
         /\ Len(Append(stack, f)) = Len(stack) + 1
         /\ Append(stack, f)[Len(stack) + 1] = f
         /\ \A k \in 1 .. Len(stack) : Append(stack, f)[k] = stack[k]
<1>1. stack \in Seq(Frame)
  BY DEF TypeOK
<1>2. QED
  BY <1>1, AppendProperties

\* A transfer that returns moves the innermost frame on and touches no call and
\* no snapshot.
LEMMA AdvancedFrames ==
  ASSUME TypeOK, stack # <<>>, NEW p \in Legs \cup {"receipt"},
         NEW s, s = [stack EXCEPT ![Len(stack)].pc = p]
  PROVE  /\ s \in Seq(Frame)
         /\ Len(s) = Len(stack)
         /\ \A k \in 1 .. Len(stack) :
              s[k].call = stack[k].call /\ s[k].saved = stack[k].saved
<1> DEFINE f == [Top EXCEPT !.pc = p]
<1>1. /\ stack \in Seq(Frame) /\ Len(stack) \in 1 .. Len(stack)
  BY TopTyped DEF TypeOK
<1>2. f \in Frame /\ f.call = Top.call /\ f.saved = Top.saved
  BY TopTyped DEF Frame
<1>3. s = [stack EXCEPT ![Len(stack)] = f]
  BY DEF Top
<1>4. /\ s \in Seq(Frame) /\ Len(s) = Len(stack)
      /\ \A k \in 1 .. Len(stack) : s[k] = IF k = Len(stack) THEN f ELSE stack[k]
  <2> HIDE DEF f
  <2>1. QED
    BY <1>1, <1>2, <1>3, ExceptSeq
<1>5. QED
  BY <1>2, <1>4 DEF Top

-----------------------------------------------------------------------------
(* What each operation on the ledger leaves and changes.                   *)

\* What settles orders is the same in both ledgers.
SameSettlements(L, M) ==
  /\ M.status = L.status
  /\ M.nonces = L.nonces
  /\ M.receipt = L.receipt

\* Spending takes entries away and adds none.
LEMMA SpendBounds ==
  ASSUME NEW D, NEW F \in [D -> Nat], NEW used
  PROVE  /\ Spend(F, used) \in [D -> Nat]
         /\ \A e \in D : Spend(F, used)[e] <= F[e]
         /\ \A e \in D : e \in used /\ F[e] > 0 => Spend(F, used)[e] < F[e]
BY DEF Spend

\* The entries of a call are among those somebody may sign.
LEMMA EntriesTyped ==
  ASSUME NEW c \in Calls
  PROVE  Entries(c) \subseteq FillEntries
BY DEF FillEntries

LEMMA EffectsFields ==
  ASSUME ledger \in Ledger, NEW c \in Calls
  PROVE  /\ Effects(c) \in Ledger
         /\ Effects(c).status = [ledger.status EXCEPT ![Hash[c.intent]] = "Filled"]
         /\ Effects(c).nonces = ledger.nonces \cup {NonceKey(c.intent)}
         /\ Effects(c).receipt = ledger.receipt
         /\ Effects(c).fillAuths = Spend(ledger.fillAuths, Entries(c))
         /\ Effects(c).balance = ledger.balance
         /\ Effects(c).events = ledger.events
<1>1. /\ [ledger.status EXCEPT ![Hash[c.intent]] = "Filled"] \in [Hashes -> IntentStatus]
      /\ ledger.nonces \cup {NonceKey(c.intent)} \in SUBSET (Addresses \X Nonces)
      /\ Spend(ledger.fillAuths, Entries(c)) \in [FillEntries -> Nat]
  BY CallTyped, SpendBounds DEF Ledger, IntentStatus
<1>2. QED
  BY <1>1 DEF Ledger, Effects, get_intent_hash

LEMMA CancelFields ==
  ASSUME ledger \in Ledger, NEW i \in Intents
  PROVE  /\ CancelEffects(i) \in Ledger
         /\ CancelEffects(i).status = [ledger.status EXCEPT ![Hash[i]] = "Cancelled"]
         /\ CancelEffects(i).nonces = ledger.nonces \cup {NonceKey(i)}
         /\ CancelEffects(i).receipt = ledger.receipt
         /\ CancelEffects(i).fillAuths = ledger.fillAuths
         /\ CancelEffects(i).balance = ledger.balance
         /\ CancelEffects(i).events = Append(ledger.events, Event("IntentCancelled", i))
<1>1. /\ Hash[i] \in Hashes
      /\ NonceKey(i) \in Addresses \X Nonces
  BY IntentsAssumption, HashAssumption DEF NonceKey
<1>2. /\ [ledger.status EXCEPT ![Hash[i]] = "Cancelled"] \in [Hashes -> IntentStatus]
      /\ ledger.nonces \cup {NonceKey(i)} \in SUBSET (Addresses \X Nonces)
      /\ Spend(ledger.cancelAuths, {i}) \in [Intents -> Nat]
      /\ Append(ledger.events, Event("IntentCancelled", i)) \in Seq(Events)
  BY <1>1, AppendProperties, SpendBounds DEF Ledger, IntentStatus, Events, Event, get_intent_hash
<1>3. QED
  BY <1>2 DEF Ledger, CancelEffects, get_intent_hash

LEMMA ReceiptFields ==
  ASSUME TypeOK, execute_intent_returns
  PROVE  /\ Top.call \in Calls
         /\ ledger' \in Ledger
         /\ ledger'.status = ledger.status
         /\ ledger'.nonces = ledger.nonces
         /\ ledger'.receipt =
              [ledger.receipt EXCEPT ![Hash[Top.call.intent]] = ReceiptOf(Top.call)]
         /\ ledger'.fillAuths = ledger.fillAuths
         /\ ledger'.balance = ledger.balance
         /\ ledger'.events = Append(ledger.events, Event("IntentFilled", Top.call.intent))
<1> DEFINE c == Top.call
<1>1. c \in Calls /\ Hash[c.intent] \in Hashes
  BY TopTyped, CallTyped DEF execute_intent_returns
<1>2. ReceiptOf(c) \in FillReceipt /\ Event("IntentFilled", c.intent) \in Events
  BY <1>1, CallTyped DEF ReceiptOf, FillReceipt, Event, Events, get_intent_hash, TypeOK
<1> HIDE DEF c
<1>3. /\ [ledger.receipt EXCEPT ![Hash[c.intent]] = ReceiptOf(c)]
           \in [Hashes -> FillReceipt \cup {NoReceipt}]
      /\ Append(ledger.events, Event("IntentFilled", c.intent)) \in Seq(Events)
  BY <1>1, <1>2, AppendProperties DEF TypeOK, Ledger
<1>4. ledger' = [ledger EXCEPT
         !.receipt = [ledger.receipt EXCEPT ![Hash[c.intent]] = ReceiptOf(c)],
         !.events = Append(ledger.events, Event("IntentFilled", c.intent))]
  BY DEF execute_intent_returns, get_intent_hash, c
<1>5. QED
  BY <1>1, <1>3, <1>4 DEF TypeOK, Ledger, c

\* A transfer touches only balances.
LEMMA TransferFields ==
  ASSUME TypeOK, TransferReturns
  PROVE  /\ ledger' \in Ledger
         /\ SameSettlements(ledger, ledger')
         /\ ledger'.fillAuths = ledger.fillAuths
         /\ ledger'.events = ledger.events
<1> DEFINE leg == Leg(Top.call, Top.pc)
<1>1. leg.token \in Tokens /\ leg.from \in Addresses /\ leg.to \in Addresses /\ leg.amount \in Int
  BY TopTyped, LegTyped DEF TransferReturns, InTransfer
<1>2. CASE UNCHANGED ledger
  BY <1>2 DEF TypeOK, SameSettlements
<1>3. CASE /\ leg.token \in HonestTokens
           /\ ledger' = [ledger EXCEPT
                !.balance[leg.token] = Moved(@, leg.from, leg.to, leg.amount)]
  <2> HIDE DEF leg
  <2>1. ledger.balance[leg.token] \in [Addresses -> Int]
    BY <1>3 DEF TypeOK, Ledger
  <2>2. Moved(ledger.balance[leg.token], leg.from, leg.to, leg.amount) \in [Addresses -> Int]
    BY <2>1, <1>1 DEF Moved
  <2>3. [ledger.balance EXCEPT ![leg.token] =
           Moved(ledger.balance[leg.token], leg.from, leg.to, leg.amount)]
          \in [HonestTokens -> [Addresses -> Int]]
    BY <1>3, <2>2 DEF TypeOK, Ledger
  <2>4. ledger' = [ledger EXCEPT !.balance =
           [ledger.balance EXCEPT ![leg.token] =
              Moved(ledger.balance[leg.token], leg.from, leg.to, leg.amount)]]
    BY <1>3 DEF TypeOK, Ledger
  <2>5. QED
    BY <2>3, <2>4 DEF TypeOK, Ledger, SameSettlements
<1>4. QED
  BY <1>2, <1>3 DEF TransferReturns

\* Signing and expiry touch only entries in circulation.
LEMMA EntryFields ==
  ASSUME TypeOK, SignFill \/ SignCancel \/ EntryExpires
  PROVE  /\ ledger' \in Ledger
         /\ SameSettlements(ledger, ledger')
         /\ ledger'.balance = ledger.balance
         /\ ledger'.events = ledger.events
<1>1. /\ ledger \in Ledger
      /\ ledger.fillAuths \in [FillEntries -> Nat]
      /\ ledger.cancelAuths \in [Intents -> Nat]
  BY DEF TypeOK, Ledger
<1>2. CASE \E F \in [FillEntries -> Nat] : ledger' = [ledger EXCEPT !.fillAuths = F]
  BY <1>1, <1>2 DEF Ledger, SameSettlements
<1>3. CASE \E C \in [Intents -> Nat] : ledger' = [ledger EXCEPT !.cancelAuths = C]
  BY <1>1, <1>3 DEF Ledger, SameSettlements
<1>4. CASE \E e \in FillEntries, n \in Nat :
             ledger' = [ledger EXCEPT !.fillAuths = [ledger.fillAuths EXCEPT ![e] = n]]
  <2>1. PICK e \in FillEntries, n \in Nat :
          ledger' = [ledger EXCEPT !.fillAuths = [ledger.fillAuths EXCEPT ![e] = n]]
    BY <1>4
  <2>2. [ledger.fillAuths EXCEPT ![e] = n] \in [FillEntries -> Nat]
    BY <1>1
  <2>3. QED
    BY <1>2, <2>1, <2>2
<1>5. CASE \E i \in Intents, n \in Nat :
             ledger' = [ledger EXCEPT !.cancelAuths = [ledger.cancelAuths EXCEPT ![i] = n]]
  <2>1. PICK i \in Intents, n \in Nat :
          ledger' = [ledger EXCEPT !.cancelAuths = [ledger.cancelAuths EXCEPT ![i] = n]]
    BY <1>5
  <2>2. [ledger.cancelAuths EXCEPT ![i] = n] \in [Intents -> Nat]
    BY <1>1
  <2>3. QED
    BY <1>3, <2>1, <2>2
<1>6. CASE SignFill
  <2>1. PICK e \in FillEntries : ledger' = [ledger EXCEPT !.fillAuths[e] = @ + 1]
    BY <1>6 DEF SignFill
  <2>2. /\ ledger' = [ledger EXCEPT
             !.fillAuths = [ledger.fillAuths EXCEPT ![e] = ledger.fillAuths[e] + 1]]
        /\ ledger.fillAuths[e] + 1 \in Nat
    BY <1>1, <2>1
  <2>3. QED
    BY <1>4, <2>2
<1>7. CASE SignCancel
  <2>1. PICK i \in Intents : ledger' = [ledger EXCEPT !.cancelAuths[i] = @ + 1]
    BY <1>7 DEF SignCancel
  <2>2. /\ ledger' = [ledger EXCEPT
             !.cancelAuths = [ledger.cancelAuths EXCEPT ![i] = ledger.cancelAuths[i] + 1]]
        /\ ledger.cancelAuths[i] + 1 \in Nat
    BY <1>1, <2>1
  <2>3. QED
    BY <1>5, <2>2
<1>8. CASE EntryExpires
  <2>1. CASE \E e \in FillEntries :
               /\ ledger.fillAuths[e] > 0
               /\ ledger' = [ledger EXCEPT !.fillAuths[e] = @ - 1]
    <3>1. PICK e \in FillEntries :
            /\ ledger.fillAuths[e] > 0
            /\ ledger' = [ledger EXCEPT !.fillAuths[e] = @ - 1]
      BY <2>1
    <3>2. /\ ledger' = [ledger EXCEPT
               !.fillAuths = [ledger.fillAuths EXCEPT ![e] = ledger.fillAuths[e] - 1]]
          /\ ledger.fillAuths[e] - 1 \in Nat
      BY <1>1, <3>1
    <3>3. QED
      BY <1>4, <3>2
  <2>2. CASE \E i \in Intents :
               /\ ledger.cancelAuths[i] > 0
               /\ ledger' = [ledger EXCEPT !.cancelAuths[i] = @ - 1]
    <3>1. PICK i \in Intents :
            /\ ledger.cancelAuths[i] > 0
            /\ ledger' = [ledger EXCEPT !.cancelAuths[i] = @ - 1]
      BY <2>2
    <3>2. /\ ledger' = [ledger EXCEPT
               !.cancelAuths = [ledger.cancelAuths EXCEPT ![i] = ledger.cancelAuths[i] - 1]]
          /\ ledger.cancelAuths[i] - 1 \in Nat
      BY <1>1, <3>1
    <3>3. QED
      BY <1>5, <3>2
  <2>3. QED
    BY <1>8, <2>1, <2>2 DEF EntryExpires
<1>9. QED
  BY <1>6, <1>7, <1>8

-----------------------------------------------------------------------------
(* Types.                                                                  *)

LEMMA InitTyped == Init => TypeOK
<1> SUFFICES ASSUME Init PROVE TypeOK
  OBVIOUS
<1>1. /\ [h \in Hashes |-> "Active"] \in [Hashes -> IntentStatus]
      /\ [h \in Hashes |-> NoReceipt] \in [Hashes -> FillReceipt \cup {NoReceipt}]
      /\ <<>> \in Seq(Events) /\ <<>> \in Seq(Frame)
      /\ [e \in FillEntries |-> 0] \in [FillEntries -> Nat]
      /\ [i \in Intents |-> 0] \in [Intents -> Nat]
  BY EmptySeq DEF IntentStatus
<1>2. ledger \in Ledger
  BY <1>1, ValueAssumption DEF Init, Ledger
<1>3. QED
  BY <1>1, <1>2, BoundAssumption DEF Init, TypeOK

\* A frame pushed by execute_intent.
LEMMA EnteredFrame ==
  ASSUME TypeOK, NEW c \in Calls
  PROVE  [call |-> c, pc |-> "sell", saved |-> ledger] \in Frame
BY DEF TypeOK, Frame, Legs

LEMMA StepTyped == TypeOK /\ [Next]_vars => TypeOK'
<1> SUFFICES ASSUME TypeOK, [Next]_vars PROVE TypeOK'
  OBVIOUS
<1>1. CASE SignFill \/ SignCancel \/ EntryExpires
  <2>1. UNCHANGED <<stack, now>>
    BY <1>1 DEF SignFill, SignCancel, EntryExpires
  <2>2. QED
    BY <1>1, <2>1, EntryFields DEF TypeOK
<1>2. CASE LedgerCloses
  BY <1>2, BoundAssumption DEF LedgerCloses, TypeOK
<1>3. CASE \E c \in Calls : execute_intent(c)
  BY <1>3, EnteredFrame, EffectsFields, PushedFrames DEF execute_intent, TypeOK
<1>4. CASE TransferReturns
  <2>1. AfterLeg(Top.call, Top.pc) \in Legs \cup {"receipt"}
    BY <1>4, TopTyped, LegTyped DEF TransferReturns, InTransfer
  <2>2. stack' = [stack EXCEPT ![Len(stack)].pc = AfterLeg(Top.call, Top.pc)]
    BY <1>4 DEF TransferReturns, Top
  <2>3. stack' \in Seq(Frame)
    BY <1>4, <2>1, <2>2, AdvancedFrames DEF TransferReturns, InTransfer
  <2>4. QED
    BY <1>4, <2>3, TransferFields DEF TransferReturns, TypeOK
<1>5. CASE TransferFails
  BY <1>5, TopTyped, PoppedFrames DEF TransferFails, InTransfer, TypeOK
<1>6. CASE TransactionAborts
  BY <1>6, TopTyped, EmptySeq DEF TransactionAborts, TypeOK
<1>7. CASE execute_intent_returns
  BY <1>7, ReceiptFields, PoppedFrames DEF execute_intent_returns, TypeOK
<1>8. CASE \E i \in Intents : cancel_intent(i)
  BY <1>8, CancelFields DEF cancel_intent, TypeOK
<1>9. CASE UNCHANGED vars
  BY <1>9 DEF vars, TypeOK
<1>10. QED
  BY <1>1, <1>2, <1>3, <1>4, <1>5, <1>6, <1>7, <1>8, <1>9 DEF Next

\* The stored entries, the frames of the calls in progress and the clock keep
\* their types.
THEOREM RouterTyped == Spec => []TypeOK
<1>1. QED
  BY InitTyped, StepTyped, PTL DEF Spec

-----------------------------------------------------------------------------
(* The inductive invariant.                                                *)

\* A settled intent has spent its nonce, no nonce settles two intents, and
\* every receipt is within its trader's terms.
Coherent(L) ==
  /\ OneSettlementPerNonce(L)
  /\ \A i \in Intents : L.status[Hash[i]] # "Active" => NonceKey(i) \in L.nonces
  /\ WithinTerms(L)

\* The first n calls of s are the ones in progress on ledger L: each has spent
\* its nonce there, and an intent is Filled exactly if it has a receipt or one
\* of them is settling it.
InProgress(L, s, n) ==
  /\ \A k \in 1 .. n : NonceKey(s[k].call.intent) \in L.nonces
  /\ \A h \in Hashes :
       /\ L.status[h] = "Filled" <=>
            L.receipt[h] # NoReceipt \/ \E k \in 1 .. n : Hash[s[k].call.intent] = h
       /\ L.receipt[h] # NoReceipt => L.receipt[h].intent_hash = h

\* A call in progress still satisfies what it was let in for, and the ledger
\* it would fall back to is the one it found: its nonce unspent, the calls
\* below it in progress.
FrameInv(s, k, time) ==
  /\ s[k].call.solver # s[k].call.intent.trader
  /\ AcceptsTerms(s[k].call.intent, s[k].call.amount, time)
  /\ NonceKey(s[k].call.intent) \notin s[k].saved.nonces
  /\ Coherent(s[k].saved)
  /\ InProgress(s[k].saved, s, k - 1)

IInv ==
  /\ Coherent(ledger)
  /\ InProgress(ledger, stack, Len(stack))
  /\ \A k \in 1 .. Len(stack) : FrameInv(stack, k, now)

\* Only the settlements of a ledger matter.
LEMMA SameCoherent ==
  ASSUME NEW L, NEW M, SameSettlements(L, M), Coherent(L)
  PROVE  Coherent(M)
BY DEF SameSettlements, Coherent, OneSettlementPerNonce, WithinTerms

LEMMA SameInProgress ==
  ASSUME NEW L, NEW M, SameSettlements(L, M), NEW s, NEW n, InProgress(L, s, n)
  PROVE  InProgress(M, s, n)
BY DEF SameSettlements, InProgress

\* Only the calls and the snapshots of the frames matter.
LEMMA SameFrames ==
  ASSUME NEW s, NEW t, NEW n \in Nat, NEW time,
         \A k \in 1 .. n : t[k].call = s[k].call /\ t[k].saved = s[k].saved
  PROVE  /\ \A L : InProgress(L, s, n) => InProgress(L, t, n)
         /\ (\A k \in 1 .. n : FrameInv(s, k, time)) => \A k \in 1 .. n : FrameInv(t, k, time)
<1>1. ASSUME NEW L, InProgress(L, s, n) PROVE InProgress(L, t, n)
  BY <1>1 DEF InProgress
<1>2. ASSUME NEW k \in 1 .. n, FrameInv(s, k, time) PROVE FrameInv(t, k, time)
  <2>1. /\ k - 1 \in Nat
        /\ \A j \in 1 .. k - 1 : t[j].call = s[j].call
        /\ t[k].call = s[k].call /\ t[k].saved = s[k].saved
    BY <1>2
  <2>2. ASSUME NEW L, InProgress(L, s, k - 1) PROVE InProgress(L, t, k - 1)
    BY <2>1, <2>2 DEF InProgress
  <2>3. QED
    BY <1>2, <2>1, <2>2 DEF FrameInv
<1>3. QED
  BY <1>1, <1>2

\* Settling an open intent keeps the ledger coherent: whoever shares its nonce
\* is untouched, because the nonce was unspent.
LEMMA SettlingCoherent ==
  ASSUME ledger \in Ledger, Coherent(ledger), NEW i \in Intents, IsOpen(i),
         NEW M, NEW v,
         M.status = [ledger.status EXCEPT ![Hash[i]] = v],
         M.nonces = ledger.nonces \cup {NonceKey(i)},
         M.receipt = ledger.receipt
  PROVE  Coherent(M)
<1>1. /\ ledger.status \in [Hashes -> IntentStatus]
      /\ \A j \in Intents : Hash[j] \in Hashes
      /\ \A j \in Intents : Hash[j] = Hash[i] => j = i
  BY HashAssumption DEF Ledger
<1>2. \A j \in Intents : j # i => M.status[Hash[j]] = ledger.status[Hash[j]]
  BY <1>1
<1>3. \A j \in Intents : NonceKey(j) = NonceKey(i) => ledger.status[Hash[j]] = "Active"
  BY DEF Coherent, IsOpen
<1>4. OneSettlementPerNonce(M)
  BY <1>2, <1>3 DEF Coherent, OneSettlementPerNonce
<1>5. \A j \in Intents : M.status[Hash[j]] # "Active" => NonceKey(j) \in M.nonces
  BY <1>2 DEF Coherent
<1>6. WithinTerms(M)
  BY DEF Coherent, WithinTerms
<1>7. QED
  BY <1>4, <1>5, <1>6 DEF Coherent

LEMMA InitInv == Init => IInv
<1> SUFFICES ASSUME Init PROVE IInv
  OBVIOUS
<1>1. /\ \A h \in Hashes : ledger.status[h] = "Active" /\ ledger.receipt[h] = NoReceipt
      /\ Len(stack) = 0
      /\ \A i \in Intents : Hash[i] \in Hashes
  BY HashAssumption, EmptySeq DEF Init
<1>2. Coherent(ledger)
  BY <1>1 DEF Coherent, OneSettlementPerNonce, WithinTerms
<1>3. InProgress(ledger, stack, Len(stack))
  BY <1>1 DEF InProgress
<1>4. QED
  BY <1>1, <1>2, <1>3 DEF IInv

\* execute_intent: the new frame remembers the ledger as it was, and the new
\* ledger has the intent settled.
LEMMA EnterInv ==
  ASSUME TypeOK, IInv, NEW c \in Calls, execute_intent(c)
  PROVE  IInv'
<1> DEFINE n == Len(stack)
           i == c.intent
<1>1. n \in Nat /\ ledger \in Ledger /\ ledger.status \in [Hashes -> IntentStatus]
  BY LenProperties DEF TypeOK, Ledger
<1>2. i \in Intents /\ Hash[i] \in Hashes /\ IsOpen(i)
  BY CallTyped DEF execute_intent
<1>3. /\ Len(stack') = n + 1
      /\ stack'[n + 1].call = c /\ stack'[n + 1].saved = ledger
      /\ \A k \in 1 .. n : stack'[k] = stack[k]
  BY EnteredFrame, PushedFrames DEF execute_intent
<1>4. /\ ledger'.status = [ledger.status EXCEPT ![Hash[i]] = "Filled"]
      /\ ledger'.nonces = ledger.nonces \cup {NonceKey(i)}
      /\ ledger'.receipt = ledger.receipt
  BY <1>1, EffectsFields DEF execute_intent
<1>5. Coherent(ledger')
  BY <1>1, <1>2, <1>4, SettlingCoherent DEF IInv
<1> HIDE DEF n, i
<1>6. /\ InProgress(ledger, stack', n)
      /\ \A k \in 1 .. n : FrameInv(stack', k, now)
  BY <1>1, <1>3, SameFrames DEF IInv, n
<1>7. InProgress(ledger', stack', n + 1)
  <2>1. \A k \in 1 .. n + 1 : k \in 1 .. n \/ k = n + 1
    BY <1>1
  <2>2. n + 1 \in 1 .. n + 1 /\ \A k \in 1 .. n : k \in 1 .. n + 1
    BY <1>1
  <2>3. \A k \in 1 .. n + 1 : NonceKey(stack'[k].call.intent) \in ledger'.nonces
    BY <2>1, <1>3, <1>4, <1>6 DEF InProgress, i
  <2>4. ASSUME NEW h \in Hashes
        PROVE  /\ ledger'.status[h] = "Filled" <=>
                    \/ ledger'.receipt[h] # NoReceipt
                    \/ \E k \in 1 .. n + 1 : Hash[stack'[k].call.intent] = h
               /\ ledger'.receipt[h] # NoReceipt => ledger'.receipt[h].intent_hash = h
    <3>1. CASE h = Hash[i]
      BY <3>1, <2>2, <1>1, <1>3, <1>4, <1>6 DEF InProgress, i
    <3>2. CASE h # Hash[i]
      BY <3>2, <2>1, <2>2, <1>1, <1>3, <1>4, <1>6 DEF InProgress, i
    <3>3. QED
      BY <3>1, <3>2
  <2>5. QED
    BY <2>3, <2>4 DEF InProgress
<1>8. FrameInv(stack', n + 1, now)
  <2>1. PICK m \in Nat : m = n + 1 /\ m - 1 = n
    BY <1>1
  <2>2. c.solver # i.trader /\ AcceptsTerms(i, c.amount, now) /\ NonceKey(i) \notin ledger.nonces
    BY <1>2 DEF execute_intent, Authorized, IsOpen, i
  <2>3. stack'[m].call = c /\ stack'[m].saved = ledger
    BY <2>1, <1>3
  <2>4. InProgress(ledger, stack', m - 1) /\ Coherent(ledger)
    BY <2>1, <1>6 DEF IInv
  <2>5. FrameInv(stack', m, now)
    BY <2>2, <2>3, <2>4, Zenon DEF FrameInv, i
  <2>6. QED
    BY <2>1, <2>5, Zenon
<1>9. \A k \in 1 .. n + 1 : FrameInv(stack', k, now)
  <2>1. \A k \in 1 .. n + 1 : k \in 1 .. n \/ k = n + 1
    BY <1>1
  <2>2. QED
    BY <2>1, <1>6, <1>8
<1>10. now' = now
  BY DEF execute_intent
<1>11. QED
  BY <1>3, <1>5, <1>7, <1>9, <1>10 DEF IInv

\* A step that settles nothing and neither enters nor leaves a call.
LEMMA QuietInv ==
  ASSUME TypeOK, IInv, SameSettlements(ledger, ledger'), now' = now,
         Len(stack') = Len(stack),
         \A k \in 1 .. Len(stack) :
           stack'[k].call = stack[k].call /\ stack'[k].saved = stack[k].saved
  PROVE  IInv'
<1>1. Len(stack) \in Nat
  BY LenProperties DEF TypeOK
<1>2. Coherent(ledger') /\ InProgress(ledger', stack, Len(stack))
  BY SameCoherent, SameInProgress DEF IInv
<1>3. /\ InProgress(ledger', stack', Len(stack))
      /\ \A k \in 1 .. Len(stack) : FrameInv(stack', k, now)
  BY <1>1, <1>2, SameFrames DEF IInv
<1>4. QED
  BY <1>2, <1>3 DEF IInv

\* The calls below the innermost one, whatever ledger they are left with.
LEMMA PoppedInv ==
  ASSUME TypeOK, IInv, stack # <<>>, stack' = Popped, now' = now,
         Coherent(ledger'), InProgress(ledger', stack, Len(stack) - 1)
  PROVE  IInv'
<1>1. PICK n \in Nat : n = Len(stack) - 1
  BY TopTyped
<1>2. Len(stack') = n /\ \A k \in 1 .. n : stack'[k] = stack[k]
  BY <1>1, PoppedFrames
<1>3. \A k \in 1 .. n : FrameInv(stack, k, now)
  BY <1>1, TopTyped DEF IInv
<1>4. /\ InProgress(ledger', stack', n)
      /\ \A k \in 1 .. n : FrameInv(stack', k, now)
  BY <1>1, <1>2, <1>3, SameFrames
<1>5. QED
  BY <1>2, <1>4 DEF IInv

LEMMA TopFrameInv ==
  ASSUME TypeOK, IInv, stack # <<>>
  PROVE  /\ FrameInv(stack, Len(stack), now)
         /\ FrameInv(stack, 1, now)
<1>1. Len(stack) \in 1 .. Len(stack) /\ 1 \in 1 .. Len(stack)
  BY TopTyped
<1>2. QED
  BY <1>1 DEF IInv

LEMMA FailInv ==
  ASSUME TypeOK, IInv, TransferFails
  PROVE  IInv'
<1>1. /\ stack # <<>> /\ stack' = Popped /\ now' = now
      /\ ledger' = stack[Len(stack)].saved
  BY DEF TransferFails, InTransfer, Top
<1>2. /\ Coherent(stack[Len(stack)].saved)
      /\ InProgress(stack[Len(stack)].saved, stack, Len(stack) - 1)
  BY <1>1, TopFrameInv, Zenon DEF FrameInv
<1>3. QED
  BY <1>1, <1>2, PoppedInv

LEMMA AbortInv ==
  ASSUME TypeOK, IInv, TransactionAborts
  PROVE  IInv'
<1>1. /\ stack # <<>> /\ stack' = <<>> /\ now' = now
      /\ ledger' = stack[1].saved
      /\ Len(stack') = 0
  BY EmptySeq DEF TransactionAborts
<1>2. Coherent(stack[1].saved) /\ InProgress(stack[1].saved, stack, 1 - 1)
  BY <1>1, TopFrameInv, Zenon DEF FrameInv
<1>3. Coherent(ledger') /\ InProgress(ledger', stack, 0)
  BY <1>1, <1>2
<1>4. InProgress(ledger', stack', 0)
  BY <1>3 DEF InProgress
<1>5. \A k \in 1 .. Len(stack') : FrameInv(stack', k, now)
  BY <1>1
<1>6. QED
  BY <1>1, <1>3, <1>4, <1>5 DEF IInv

\* The receipt is written for the innermost call, whose terms were checked when
\* it began; time has stood still since.
LEMMA ReturnInv ==
  ASSUME TypeOK, IInv, execute_intent_returns
  PROVE  IInv'
<1> DEFINE c == Top.call
           i == c.intent
<1>1. PICK n \in Nat : n = Len(stack) - 1 /\ n + 1 = Len(stack)
  BY TopTyped DEF execute_intent_returns
<1>2. /\ stack # <<>> /\ stack' = Popped /\ now' = now
      /\ c = stack[Len(stack)].call
      /\ c \in Calls /\ i \in Intents /\ Hash[i] \in Hashes
  BY ReceiptFields, CallTyped DEF execute_intent_returns, Top
<1>3. /\ ledger'.status = ledger.status
      /\ ledger'.nonces = ledger.nonces
      /\ ledger'.receipt = [ledger.receipt EXCEPT ![Hash[i]] = ReceiptOf(c)]
      /\ ledger.receipt \in [Hashes -> FillReceipt \cup {NoReceipt}]
  BY ReceiptFields DEF TypeOK, Ledger
<1>4. c.solver # i.trader /\ AcceptsTerms(i, c.amount, now)
  BY <1>2, TopFrameInv DEF FrameInv
<1>5. /\ \A j \in Intents : Hash[j] \in Hashes
      /\ \A j \in Intents : Hash[j] = Hash[i] => j = i
  BY <1>2, HashAssumption
<1>6. ReceiptOf(c) \in FillReceipt /\ ReceiptOf(c) # NoReceipt
  BY <1>2, CallTyped, NoReceiptAssumption
     DEF ReceiptOf, FillReceipt, get_intent_hash, TypeOK
<1>7. WithinTerms(ledger')
  <2>1. shortfall(i, c.amount) * BPS_DENOMINATOR < (i.max_slippage_bps + 1) * i.min_buy_amount
    BY <1>2, <1>4, CallTyped, ToleranceHolds
  <2>2. /\ now <= i.deadline /\ c.amount >= i.min_buy_amount
    BY <1>2, <1>4, CallTyped
       DEF AcceptsTerms, IntentExpired, InsufficientOutput, IsPriced, TypeOK
  <2>3. /\ ledger'.receipt[Hash[i]].solver = c.solver
        /\ ledger'.receipt[Hash[i]].bought_amount = c.amount
        /\ ledger'.receipt[Hash[i]].timestamp = now
    BY <1>2, <1>3 DEF ReceiptOf
  <2>4. \A j \in Intents : j # i => ledger'.receipt[Hash[j]] = ledger.receipt[Hash[j]]
    BY <1>3, <1>5
  <2>5. WithinTerms(ledger)
    BY DEF IInv, Coherent
  <2> HIDE DEF c, i
  <2>6. QED
    BY <2>1, <2>2, <2>3, <2>4, <2>5, <1>4 DEF WithinTerms
<1>8. Coherent(ledger')
  BY <1>3, <1>7 DEF IInv, Coherent, OneSettlementPerNonce
<1> HIDE DEF c, i
<1>9. InProgress(ledger', stack, n)
  <2>1. /\ InProgress(ledger, stack, n + 1)
        /\ \A k \in 1 .. n + 1 : k \in 1 .. n \/ k = n + 1
        /\ \A k \in 1 .. n : k \in 1 .. n + 1
        /\ n + 1 \in 1 .. n + 1
        /\ stack[n + 1].call.intent = i
    <3>1. InProgress(ledger, stack, n + 1)
      BY <1>1 DEF IInv
    <3>2. stack[n + 1].call.intent = i
      BY <1>1, <1>2, Zenon DEF i
    <3>3. QED
      BY <3>1, <3>2, <1>1
  <2>2. ASSUME NEW h \in Hashes
        PROVE  /\ ledger'.status[h] = "Filled" <=>
                    \/ ledger'.receipt[h] # NoReceipt
                    \/ \E k \in 1 .. n : Hash[stack[k].call.intent] = h
               /\ ledger'.receipt[h] # NoReceipt => ledger'.receipt[h].intent_hash = h
    <3>1. CASE h = Hash[i]
      <4>1. ledger'.receipt[h] = ReceiptOf(c) /\ ReceiptOf(c).intent_hash = h
        BY <3>1, <1>2, <1>3 DEF ReceiptOf, get_intent_hash, i
      <4>2. ledger.status[h] = "Filled"
        BY <3>1, <2>1 DEF InProgress
      <4>3. QED
        BY <4>1, <4>2, <1>3, <1>6
    <3>2. CASE h # Hash[i]
      <4>1. ledger'.receipt[h] = ledger.receipt[h]
        BY <3>2, <1>3
      <4>2. QED
        BY <3>2, <4>1, <2>1, <1>3 DEF InProgress
    <3>3. QED
      BY <3>1, <3>2
  <2>3. QED
    BY <2>1, <2>2, <1>3 DEF InProgress
<1>10. QED
  BY <1>1, <1>2, <1>8, <1>9, PoppedInv

LEMMA CancelInv ==
  ASSUME TypeOK, IInv, NEW i \in Intents, cancel_intent(i)
  PROVE  IInv'
<1>1. /\ ledger \in Ledger /\ ledger.status \in [Hashes -> IntentStatus]
      /\ IsOpen(i) /\ Hash[i] \in Hashes
      /\ stack' = stack /\ now' = now
  BY HashAssumption DEF cancel_intent, TypeOK, Ledger
<1>2. /\ ledger'.status = [ledger.status EXCEPT ![Hash[i]] = "Cancelled"]
      /\ ledger'.nonces = ledger.nonces \cup {NonceKey(i)}
      /\ ledger'.receipt = ledger.receipt
  BY <1>1, CancelFields DEF cancel_intent
<1>3. Coherent(ledger')
  BY <1>1, <1>2, SettlingCoherent DEF IInv
<1>4. \A h \in Hashes : ledger'.status[h] = "Filled" <=> ledger.status[h] = "Filled"
  BY <1>1, <1>2 DEF IsOpen, get_intent_hash
<1>5. InProgress(ledger', stack, Len(stack))
  BY <1>2, <1>4 DEF IInv, InProgress
<1>6. QED
  BY <1>1, <1>3, <1>5 DEF IInv

LEMMA StepInv == TypeOK /\ IInv /\ [Next]_vars => IInv'
<1> SUFFICES ASSUME TypeOK, IInv, [Next]_vars PROVE IInv'
  OBVIOUS
<1>1. CASE SignFill \/ SignCancel \/ EntryExpires
  <2>1. UNCHANGED <<stack, now>>
    BY <1>1 DEF SignFill, SignCancel, EntryExpires
  <2>2. QED
    BY <1>1, <2>1, EntryFields, QuietInv
<1>2. CASE LedgerCloses
  <2>1. stack = <<>> /\ stack' = stack /\ ledger' = ledger /\ Len(stack) = 0
    BY <1>2, EmptySeq DEF LedgerCloses
  <2>2. QED
    BY <2>1 DEF IInv
<1>3. CASE \E c \in Calls : execute_intent(c)
  BY <1>3, EnterInv
<1>4. CASE TransferReturns
  <2>1. AfterLeg(Top.call, Top.pc) \in Legs \cup {"receipt"}
    BY <1>4, TopTyped, LegTyped DEF TransferReturns, InTransfer
  <2>2. /\ stack # <<>> /\ now' = now
        /\ stack' = [stack EXCEPT ![Len(stack)].pc = AfterLeg(Top.call, Top.pc)]
    BY <1>4 DEF TransferReturns, InTransfer, Top
  <2>3. QED
    BY <1>4, <2>1, <2>2, AdvancedFrames, TransferFields, QuietInv
<1>5. CASE TransferFails
  BY <1>5, FailInv
<1>6. CASE TransactionAborts
  BY <1>6, AbortInv
<1>7. CASE execute_intent_returns
  BY <1>7, ReturnInv
<1>8. CASE \E i \in Intents : cancel_intent(i)
  BY <1>8, CancelInv
<1>9. CASE UNCHANGED vars
  BY <1>9, QuietInv DEF vars, SameSettlements
<1>10. QED
  BY <1>1, <1>2, <1>3, <1>4, <1>5, <1>6, <1>7, <1>8, <1>9 DEF Next

THEOREM RouterInvariant == Spec => [](TypeOK /\ IInv)
<1>1. Init => TypeOK /\ IInv
  BY InitTyped, InitInv
<1>2. TypeOK /\ IInv /\ [Next]_vars => (TypeOK /\ IInv)'
  BY StepTyped, StepInv
<1>3. QED
  BY <1>1, <1>2, PTL DEF Spec

-----------------------------------------------------------------------------
(* What a transaction has done so far.                                     *)

\* The call a receipt records.
CallOf(i, r) == [solver |-> r.solver, intent |-> i, amount |-> r.bought_amount]

\* One ledger has fewer signed entries than another, or no more.
Fewer(base, L, e) ==
  /\ base.fillAuths[e] \in Nat /\ L.fillAuths[e] \in Nat
  /\ L.fillAuths[e] < base.fillAuths[e]

NoMore(base, L, e) ==
  /\ base.fillAuths[e] \in Nat /\ L.fillAuths[e] \in Nat
  /\ L.fillAuths[e] <= base.fillAuths[e]

\* Of both entries of a call, fewer are left than there were.
Spent(base, L, c) ==
  /\ Entries(c) \subseteq FillEntries
  /\ \A e \in Entries(c) : Fewer(base, L, e)

\* A receipt written at `time' is of a fill acceptable then, and its two entries
\* are spent.
FreshReceipt(base, L, i, time) ==
  LET r == L.receipt[Hash[i]] IN
  /\ r.timestamp = time
  /\ r.solver # i.trader
  /\ AcceptsTerms(i, r.bought_amount, time)
  /\ Spent(base, L, CallOf(i, r))

\* How L differs from the ledger `base' the transaction began on, while the
\* first n calls of s are in progress: nothing was signed, what was settled is
\* as it was, every new receipt is fresh, and every call in progress has spent
\* its entries.
Since(base, L, s, n, time) ==
  /\ \A e \in FillEntries : NoMore(base, L, e)
  /\ \A h \in Hashes :
       base.status[h] # "Active" =>
         L.status[h] = base.status[h] /\ L.receipt[h] = base.receipt[h]
  /\ \A i \in Intents :
       L.receipt[Hash[i]] # base.receipt[Hash[i]] => FreshReceipt(base, L, i, time)
  /\ \A k \in 1 .. n : Spent(base, L, s[k].call)

SinceInv ==
  stack # <<>> =>
    /\ Since(stack[1].saved, ledger, stack, Len(stack), now)
    /\ \A k \in 1 .. Len(stack) :
         Since(stack[1].saved, stack[k].saved, stack, k - 1, now)

\* Only the calls of the frames, and the settlements and entries of the ledger,
\* matter.
LEMMA SinceFrames ==
  ASSUME NEW base, NEW L, NEW s, NEW t, NEW n, NEW time,
         \A k \in 1 .. n : t[k].call = s[k].call,
         Since(base, L, s, n, time)
  PROVE  Since(base, L, t, n, time)
BY DEF Since

LEMMA SinceLedger ==
  ASSUME NEW base, NEW L, NEW M, NEW s, NEW n, NEW time,
         SameSettlements(L, M), M.fillAuths = L.fillAuths,
         Since(base, L, s, n, time)
  PROVE  Since(base, M, s, n, time)
BY DEF Since, SameSettlements, FreshReceipt, Spent, Fewer, NoMore

\* A transaction that has done nothing.
LEMMA SinceBegin ==
  ASSUME NEW L \in Ledger, NEW s, NEW time
  PROVE  Since(L, L, s, 0, time)
<1>1. \A e \in FillEntries : NoMore(L, L, e)
  BY DEF NoMore, Ledger
<1>2. QED
  BY <1>1 DEF Since

\* execute_intent spends the two entries of its call, and settles an order that
\* was open, so also open when the transaction began.
LEMMA EnterSince ==
  ASSUME TypeOK, NEW c \in Calls, execute_intent(c), NEW base,
         Since(base, ledger, stack, Len(stack), now)
  PROVE  Since(base, ledger', stack', Len(stack'), now)
<1> DEFINE n == Len(stack)
<1>1. n \in Nat /\ ledger \in Ledger /\ ledger.status \in [Hashes -> IntentStatus]
  BY LenProperties DEF TypeOK, Ledger
<1>2. /\ Len(stack') = n + 1
      /\ stack'[n + 1].call = c
      /\ \A k \in 1 .. n : stack'[k] = stack[k]
  BY EnteredFrame, PushedFrames DEF execute_intent
<1>3. /\ ledger'.status = [ledger.status EXCEPT ![Hash[c.intent]] = "Filled"]
      /\ ledger'.receipt = ledger.receipt
      /\ ledger'.fillAuths = Spend(ledger.fillAuths, Entries(c))
  BY <1>1, EffectsFields DEF execute_intent
<1>4. /\ ledger.status[Hash[c.intent]] = "Active"
      /\ \A e \in Entries(c) : e \in FillEntries /\ ledger.fillAuths[e] > 0
  BY EntriesTyped DEF execute_intent, IsOpen, Authorized, get_intent_hash
<1>4a. \A e \in FillEntries :
         /\ ledger.fillAuths[e] \in Nat /\ ledger'.fillAuths[e] \in Nat
         /\ ledger'.fillAuths[e] <= ledger.fillAuths[e]
         /\ e \in Entries(c) => ledger'.fillAuths[e] < ledger.fillAuths[e]
  <2>1. ledger.fillAuths \in [FillEntries -> Nat]
    BY <1>1 DEF Ledger
  <2>2. QED
    BY <2>1, <1>3, <1>4, SpendBounds
<1>4b. \A e \in FillEntries : NoMore(base, ledger, e)
  BY DEF Since
<1> HIDE DEF n
<1>5. \A d : Spent(base, ledger, d) => Spent(base, ledger', d)
  BY <1>4a DEF Spent, Fewer
<1>6. Spent(base, ledger', c)
  BY <1>4, <1>4a, <1>4b DEF Spent, Fewer, NoMore
<1>7. \A k \in 1 .. n + 1 : Spent(base, ledger', stack'[k].call)
  <2>1. \A k \in 1 .. n + 1 : k \in 1 .. n \/ k = n + 1
    BY <1>1
  <2>2. \A k \in 1 .. n : Spent(base, ledger, stack[k].call)
    BY DEF Since, n
  <2>3. QED
    BY <2>1, <2>2, <1>2, <1>5, <1>6
<1>8. ASSUME NEW h \in Hashes, base.status[h] # "Active"
      PROVE  ledger'.status[h] = base.status[h] /\ ledger'.receipt[h] = base.receipt[h]
  BY <1>8, <1>1, <1>3, <1>4 DEF Since
<1>9. ASSUME NEW i \in Intents, ledger'.receipt[Hash[i]] # base.receipt[Hash[i]]
      PROVE  FreshReceipt(base, ledger', i, now)
  <2>1. FreshReceipt(base, ledger, i, now)
    BY <1>9, <1>3 DEF Since
  <2>2. QED
    BY <2>1, <1>3, <1>5 DEF FreshReceipt
<1>10. \A e \in FillEntries : NoMore(base, ledger', e)
  BY <1>4a, <1>4b DEF NoMore
<1>11. QED
  BY <1>2, <1>7, <1>8, <1>9, <1>10 DEF Since

\* cancel_intent settles an order that was open and spends no fill entry.
LEMMA CancelSince ==
  ASSUME TypeOK, NEW i \in Intents, cancel_intent(i), NEW base, NEW n,
         Since(base, ledger, stack, n, now)
  PROVE  Since(base, ledger', stack, n, now)
<1>1. /\ ledger \in Ledger /\ ledger.status \in [Hashes -> IntentStatus]
      /\ ledger.status[Hash[i]] = "Active"
  BY DEF cancel_intent, IsOpen, get_intent_hash, TypeOK, Ledger
<1>2. /\ ledger'.status = [ledger.status EXCEPT ![Hash[i]] = "Cancelled"]
      /\ ledger'.receipt = ledger.receipt
      /\ ledger'.fillAuths = ledger.fillAuths
  BY <1>1, CancelFields DEF cancel_intent
<1>3. \A h \in Hashes :
        base.status[h] # "Active" =>
          ledger'.status[h] = base.status[h] /\ ledger'.receipt[h] = base.receipt[h]
  BY <1>1, <1>2 DEF Since
<1>4. QED
  BY <1>2, <1>3 DEF Since, FreshReceipt, Spent, Fewer, NoMore

\* The receipt written when the innermost call returns is fresh.
LEMMA ReturnSince ==
  ASSUME TypeOK, IInv, SinceInv, execute_intent_returns
  PROVE  Since(stack[1].saved, ledger', stack, Len(stack) - 1, now)
<1> DEFINE base == stack[1].saved
           n == Len(stack)
           c == stack[n].call
           i == c.intent
<1>1. /\ stack # <<>> /\ n \in Nat \ {0} /\ n \in 1 .. n
      /\ c \in Calls /\ i \in Intents /\ Hash[i] \in Hashes /\ c = Top.call
      /\ stack[n].saved \in Ledger
  BY TopTyped, CallTyped, ReceiptFields DEF execute_intent_returns, Top
<1>2. /\ ledger'.status = ledger.status
      /\ ledger'.receipt = [ledger.receipt EXCEPT ![Hash[i]] = ReceiptOf(c)]
      /\ ledger'.fillAuths = ledger.fillAuths
      /\ ledger.receipt \in [Hashes -> FillReceipt \cup {NoReceipt}]
  BY <1>1, ReceiptFields DEF TypeOK, Ledger
<1>3. /\ c.solver # i.trader /\ AcceptsTerms(i, c.amount, now)
      /\ NonceKey(i) \notin stack[n].saved.nonces /\ Coherent(stack[n].saved)
  BY <1>1, TopFrameInv DEF FrameInv
<1> HIDE DEF n
<1>4. Since(base, ledger, stack, n, now) /\ Since(base, stack[n].saved, stack, n - 1, now)
  BY <1>1 DEF SinceInv, n
<1>5. Spent(base, ledger', c)
  BY <1>1, <1>2, <1>4 DEF Since, Spent, Fewer
<1>6. base.status[Hash[i]] = "Active"
  <2>1. stack[n].saved.status[Hash[i]] = "Active"
    BY <1>1, <1>3 DEF Coherent
  <2>2. QED
    BY <2>1, <1>1, <1>4 DEF Since
<1>7. /\ ReceiptOf(c).solver = c.solver /\ ReceiptOf(c).bought_amount = c.amount
      /\ ReceiptOf(c).timestamp = now
      /\ CallOf(i, ReceiptOf(c)) = c
  <2>1. c = [solver |-> c.solver, intent |-> c.intent, amount |-> c.amount]
    BY <1>1 DEF Calls
  <2>2. QED
    BY <2>1 DEF ReceiptOf, CallOf
<1> HIDE DEF base, c, i
<1>8. FreshReceipt(base, ledger', i, now)
  BY <1>1, <1>2, <1>3, <1>5, <1>7 DEF FreshReceipt
<1>9. ASSUME NEW h \in Hashes, base.status[h] # "Active"
      PROVE  ledger'.status[h] = base.status[h] /\ ledger'.receipt[h] = base.receipt[h]
  BY <1>9, <1>2, <1>4, <1>6 DEF Since
<1>10. ASSUME NEW j \in Intents, ledger'.receipt[Hash[j]] # base.receipt[Hash[j]]
       PROVE  FreshReceipt(base, ledger', j, now)
  <2>1. CASE j = i
    BY <2>1, <1>8
  <2>2. CASE j # i
    <3>1. Hash[j] # Hash[i] /\ Hash[j] \in Hashes
      BY <2>2, <1>1, HashAssumption
    <3>2. ledger'.receipt[Hash[j]] = ledger.receipt[Hash[j]]
      BY <3>1, <1>2
    <3>3. FreshReceipt(base, ledger, j, now)
      BY <3>2, <1>10, <1>4 DEF Since
    <3>4. QED
      BY <3>2, <3>3, <1>2 DEF FreshReceipt, Spent, Fewer
  <2>3. QED
    BY <2>1, <2>2
<1>11. /\ \A e \in FillEntries : NoMore(base, ledger', e)
       /\ \A k \in 1 .. n - 1 : Spent(base, ledger', stack[k].call)
  <2>1. \A k \in 1 .. n - 1 : k \in 1 .. n
    BY <1>1
  <2>2. QED
    BY <2>1, <1>2, <1>4 DEF Since, Spent, Fewer, NoMore
<1>12. Since(base, ledger', stack, n - 1, now)
  BY <1>9, <1>10, <1>11 DEF Since
<1>13. QED
  BY <1>12 DEF base, n

\* A step that neither settles, spends, enters nor leaves.
LEMMA QuietSince ==
  ASSUME TypeOK, SinceInv, now' = now,
         stack # <<>> => /\ SameSettlements(ledger, ledger')
                         /\ ledger'.fillAuths = ledger.fillAuths,
         Len(stack') = Len(stack), stack' \in Seq(Frame),
         \A k \in 1 .. Len(stack) :
           stack'[k].call = stack[k].call /\ stack'[k].saved = stack[k].saved
  PROVE  SinceInv'
<1> SUFFICES ASSUME stack' # <<>>
             PROVE  /\ Since(stack'[1].saved, ledger', stack', Len(stack'), now')
                    /\ \A k \in 1 .. Len(stack') :
                         Since(stack'[1].saved, stack'[k].saved, stack', k - 1, now')
  BY DEF SinceInv
<1>1. stack # <<>> /\ Len(stack) \in Nat \ {0} /\ 1 \in 1 .. Len(stack)
  BY EmptySeq, LenProperties DEF TypeOK
<1>2. Since(stack[1].saved, ledger', stack, Len(stack), now)
  BY <1>1, SinceLedger DEF SinceInv
<1>3. ASSUME NEW k \in 1 .. Len(stack)
      PROVE  Since(stack[1].saved, stack[k].saved, stack', k - 1, now)
  <2>1. \A j \in 1 .. k - 1 : stack'[j].call = stack[j].call
    BY <1>1
  <2>2. QED
    BY <2>1, <1>1, SinceFrames DEF SinceInv
<1>4. Since(stack[1].saved, ledger', stack', Len(stack), now)
  BY <1>2, SinceFrames
<1>5. QED
  BY <1>1, <1>3, <1>4

\* Leaving the innermost call for the ledger `ledger''.
LEMMA PoppedSince ==
  ASSUME TypeOK, SinceInv, stack # <<>>, stack' = Popped, now' = now,
         Since(stack[1].saved, ledger', stack, Len(stack) - 1, now)
  PROVE  SinceInv'
<1>1. PICK n \in Nat : n = Len(stack) - 1
  BY TopTyped
<1>2. Len(stack') = n /\ \A k \in 1 .. n : stack'[k] = stack[k] /\ k \in 1 .. Len(stack)
  BY <1>1, PoppedFrames, TopTyped
<1>3. CASE n = 0
  BY <1>3, <1>2, PoppedFrames, EmptySeq DEF SinceInv
<1>4. CASE n # 0
  <2>1. stack'[1] = stack[1]
    BY <1>1, <1>2, <1>4
  <2>2. Since(stack[1].saved, ledger', stack', n, now)
    BY <1>1, <1>2, SinceFrames
  <2>3. ASSUME NEW k \in 1 .. n
        PROVE  Since(stack[1].saved, stack'[k].saved, stack', k - 1, now)
    <3>1. \A j \in 1 .. k - 1 : stack'[j].call = stack[j].call
      BY <1>1, <1>2
    <3>2. Since(stack[1].saved, stack[k].saved, stack, k - 1, now)
      BY <1>2 DEF SinceInv
    <3>3. QED
      BY <3>1, <3>2, <1>2, SinceFrames
  <2>4. QED
    BY <2>1, <2>2, <2>3, <1>2 DEF SinceInv
<1>5. QED
  BY <1>3, <1>4

LEMMA StepSince == TypeOK /\ IInv /\ SinceInv /\ [Next]_vars => SinceInv'
<1> SUFFICES ASSUME TypeOK, IInv, SinceInv, [Next]_vars PROVE SinceInv'
  OBVIOUS
<1>1. stack \in Seq(Frame) /\ ledger \in Ledger /\ Len(stack) \in Nat
  BY LenProperties DEF TypeOK
<1>2. CASE stack' = stack /\ stack = <<>>
  BY <1>2 DEF SinceInv
<1>3. CASE \E c \in Calls : execute_intent(c)
  <2>1. PICK c \in Calls : execute_intent(c)
    BY <1>3
  <2> DEFINE base == IF stack = <<>> THEN ledger ELSE stack[1].saved
             n == Len(stack)
  <2>2. /\ Len(stack') = n + 1 /\ now' = now
        /\ stack'[n + 1].saved = ledger
        /\ \A k \in 1 .. n : stack'[k] = stack[k]
    BY <2>1, EnteredFrame, PushedFrames DEF execute_intent
  <2>3. stack'[1].saved = base
    <3>1. CASE stack = <<>>
      BY <3>1, <2>2, EmptySeq
    <3>2. CASE stack # <<>>
      BY <3>2, <2>2, TopTyped
    <3>3. QED
      BY <3>1, <3>2
  <2>4. Since(base, ledger, stack, n, now)
    <3>1. CASE stack = <<>>
      BY <3>1, <1>1, SinceBegin, EmptySeq
    <3>2. CASE stack # <<>>
      BY <3>2 DEF SinceInv
    <3>3. QED
      BY <3>1, <3>2
  <2>5. \A k \in 1 .. n : Since(base, stack[k].saved, stack, k - 1, now)
    <3>1. CASE stack = <<>>
      BY <3>1, EmptySeq
    <3>2. CASE stack # <<>>
      BY <3>2 DEF SinceInv
    <3>3. QED
      BY <3>1, <3>2
  <2> HIDE DEF base
  <2>6. Since(base, ledger', stack', n + 1, now)
    BY <2>1, <2>2, <2>4, EnterSince
  <2>7. ASSUME NEW k \in 1 .. n + 1
        PROVE  Since(base, stack'[k].saved, stack', k - 1, now)
    <3>1. CASE k = n + 1
      <4>1. k - 1 = n /\ stack'[k].saved = ledger
        BY <3>1, <1>1, <2>2
      <4>2. \A j \in 1 .. n : stack'[j].call = stack[j].call
        BY <2>2
      <4>3. Since(base, ledger, stack', n, now)
        BY <4>2, <2>4, SinceFrames
      <4>4. QED
        BY <4>1, <4>3
    <3>2. CASE k \in 1 .. n
      <4>1. \A j \in 1 .. k - 1 : stack'[j].call = stack[j].call
        BY <3>2, <1>1, <2>2
      <4>2. Since(base, stack[k].saved, stack', k - 1, now)
        BY <4>1, <3>2, <2>5, SinceFrames
      <4>3. QED
        BY <4>2, <3>2, <2>2
    <3>3. QED
      BY <3>1, <3>2, <1>1
  <2>8. QED
    BY <2>2, <2>3, <2>6, <2>7 DEF SinceInv
<1>4. CASE TransferReturns
  <2>1. AfterLeg(Top.call, Top.pc) \in Legs \cup {"receipt"}
    BY <1>4, TopTyped, LegTyped DEF TransferReturns, InTransfer
  <2>2. /\ stack # <<>> /\ now' = now
        /\ stack' = [stack EXCEPT ![Len(stack)].pc = AfterLeg(Top.call, Top.pc)]
    BY <1>4 DEF TransferReturns, InTransfer, Top
  <2>3. QED
    BY <1>4, <2>1, <2>2, AdvancedFrames, TransferFields, QuietSince
<1>5. CASE TransferFails
  <2>1. /\ stack # <<>> /\ stack' = Popped /\ now' = now
        /\ ledger' = stack[Len(stack)].saved
    BY <1>5 DEF TransferFails, InTransfer, Top
  <2>2. Since(stack[1].saved, ledger', stack, Len(stack) - 1, now)
    BY <2>1, TopTyped DEF SinceInv
  <2>3. QED
    BY <2>1, <2>2, PoppedSince
<1>6. CASE TransactionAborts
  BY <1>6 DEF TransactionAborts, SinceInv
<1>7. CASE execute_intent_returns
  <2>1. stack # <<>> /\ stack' = Popped /\ now' = now
    BY <1>7 DEF execute_intent_returns
  <2>2. QED
    BY <2>1, <1>7, ReturnSince, PoppedSince
<1>8. CASE stack # <<>> /\ \E i \in Intents : cancel_intent(i)
  <2>1. PICK i \in Intents : cancel_intent(i)
    BY <1>8
  <2>2. stack' = stack /\ now' = now
    BY <2>1 DEF cancel_intent
  <2>3. Since(stack[1].saved, ledger', stack, Len(stack), now)
    BY <1>8, <2>1, CancelSince DEF SinceInv
  <2>4. QED
    BY <1>8, <2>2, <2>3 DEF SinceInv
<1>9. CASE UNCHANGED vars
  BY <1>9 DEF vars, SinceInv
<1>10. QED
  BY <1>2, <1>3, <1>4, <1>5, <1>6, <1>7, <1>8, <1>9
     DEF Next, SignFill, SignCancel, EntryExpires, LedgerCloses, cancel_intent

THEOREM RouterTransaction == Spec => []SinceInv
<1>1. Init => SinceInv
  BY DEF Init, SinceInv
<1>2. QED
  BY <1>1, StepSince, RouterInvariant, PTL DEF Spec

-----------------------------------------------------------------------------
(* What follows from it.                                                   *)

\* The replay guard: whatever the tokens do, and whether or not the host lets
\* them call back, one (trader, nonce) settles at most one intent.
THEOREM RouterReplayGuard == Spec => []NonceSettlesOnce
<1>1. IInv => NonceSettlesOnce
  BY DEF IInv, Coherent, NonceSettlesOnce
<1>2. QED
  BY <1>1, RouterInvariant, PTL

\* No receipt is ever outside its trader's terms.
THEOREM RouterReceiptsWithinTerms == Spec => []ReceiptsWithinTerms
<1>1. IInv => ReceiptsWithinTerms
  BY DEF IInv, Coherent, ReceiptsWithinTerms
<1>2. QED
  BY <1>1, RouterInvariant, PTL

\* Checks-effects-interactions alone keeps two executions in progress from
\* sharing an order or a nonce: the later one found the nonce unspent in a
\* ledger where the earlier one had spent it.
THEOREM RouterNoDoubleFill == Spec => []NoDoubleFillInFlight
<1>1. TypeOK /\ IInv => NoDoubleFillInFlight
  <2> SUFFICES ASSUME TypeOK, IInv,
                      NEW k \in 1 .. Len(stack), NEW l \in 1 .. Len(stack), k # l
               PROVE  NonceKey(stack[k].call.intent) # NonceKey(stack[l].call.intent)
    BY DEF NoDoubleFillInFlight
  <2>1. Len(stack) \in Nat
    BY LenProperties DEF TypeOK
  <2>2. ASSUME NEW j \in 1 .. Len(stack), NEW m \in 1 .. Len(stack), j < m
        PROVE  NonceKey(stack[j].call.intent) # NonceKey(stack[m].call.intent)
    <3>1. FrameInv(stack, m, now)
      BY <2>2 DEF IInv
    <3>2. j \in 1 .. m - 1
      BY <2>1, <2>2
    <3>3. /\ NonceKey(stack[m].call.intent) \notin stack[m].saved.nonces
          /\ NonceKey(stack[j].call.intent) \in stack[m].saved.nonces
      BY <3>1, <3>2, Zenon DEF FrameInv, InProgress
    <3>4. QED
      BY <3>3
  <2>3. k < l \/ l < k
    BY <2>1
  <2>4. QED
    BY <2>2, <2>3
<1>2. QED
  BY <1>1, RouterInvariant, PTL

\* Between transactions Filled means exactly that a receipt exists.
THEOREM RouterReceiptsMatchStatus == Spec => []ReceiptsMatchStatus
<1>1. IInv => ReceiptsMatchStatus
  <2> SUFFICES ASSUME IInv, stack = <<>>, NEW h \in Hashes
               PROVE  /\ ledger.status[h] = "Filled" <=> ledger.receipt[h] # NoReceipt
                      /\ ledger.receipt[h] # NoReceipt => ledger.receipt[h].intent_hash = h
    BY DEF ReceiptsMatchStatus
  <2>1. Len(stack) = 0
    BY EmptySeq
  <2>2. InProgress(ledger, stack, 0)
    BY <2>1 DEF IInv
  <2>3. QED
    BY <2>2 DEF InProgress
<1>2. QED
  BY <1>1, RouterInvariant, PTL
-----------------------------------------------------------------------------
(* Seen from outside the running transaction.                              *)

\* What is committed is coherent, with every filled order receipted.
LEMMA CommittedFacts ==
  ASSUME TypeOK, IInv
  PROVE  Committed \in Ledger /\ Coherent(Committed) /\ InProgress(Committed, stack, 0)
<1>1. CASE stack = <<>>
  <2>1. Len(stack) = 0
    BY <1>1, EmptySeq
  <2>2. QED
    BY <1>1, <2>1 DEF Committed, TypeOK, IInv
<1>2. CASE stack # <<>>
  <2>1. Coherent(stack[1].saved) /\ InProgress(stack[1].saved, stack, 1 - 1)
    BY <1>2, TopFrameInv, Zenon DEF FrameInv
  <2>2. QED
    BY <1>2, <2>1, TopTyped DEF Committed
<1>3. QED
  BY <1>1, <1>2

\* A step commits nothing, or a transaction, from its beginning to its end.
LEMMA CommitStep ==
  ASSUME TypeOK, IInv, SinceInv, Next
  PROVE  \/ SameSettlements(Committed, Committed')
         \/ Since(Committed, Committed', stack, 0, now) /\ now' = now
<1> DEFINE n == Len(stack)
<1>1. stack \in Seq(Frame) /\ ledger \in Ledger /\ n \in Nat
  BY LenProperties DEF TypeOK
<1>2. CASE stack = <<>> /\ stack' = <<>> /\ SameSettlements(ledger, ledger')
  BY <1>2 DEF Committed
<1>3. CASE stack # <<>> /\ stack' # <<>> /\ stack'[1].saved = stack[1].saved
  BY <1>3 DEF Committed, SameSettlements
<1>4. CASE SignFill \/ SignCancel \/ EntryExpires
  BY <1>2, <1>4, EntryFields DEF SignFill, SignCancel, EntryExpires
<1>5. CASE LedgerCloses
  BY <1>2, <1>5 DEF LedgerCloses, SameSettlements
<1>6. CASE \E c \in Calls : execute_intent(c)
  <2>1. PICK c \in Calls : execute_intent(c)
    BY <1>6
  <2>2. /\ stack' \in Seq(Frame) /\ Len(stack') = n + 1
        /\ stack'[n + 1].saved = ledger
        /\ \A k \in 1 .. n : stack'[k] = stack[k]
    BY <2>1, EnteredFrame, PushedFrames DEF execute_intent
  <2>3. stack' # <<>>
    BY <1>1, <2>2, EmptySeq
  <2>4. CASE stack = <<>>
    <3>1. stack'[1].saved = ledger
      BY <2>2, <2>4, EmptySeq
    <3>2. QED
      BY <2>3, <2>4, <3>1 DEF Committed, SameSettlements
  <2>5. CASE stack # <<>>
    BY <2>5, <2>2, <2>3, <1>3, TopTyped
  <2>6. QED
    BY <2>4, <2>5
<1>7. CASE TransferReturns
  <2>1. AfterLeg(Top.call, Top.pc) \in Legs \cup {"receipt"}
    BY <1>7, TopTyped, LegTyped DEF TransferReturns, InTransfer
  <2>2. /\ stack # <<>>
        /\ stack' = [stack EXCEPT ![Len(stack)].pc = AfterLeg(Top.call, Top.pc)]
    BY <1>7 DEF TransferReturns, InTransfer, Top
  <2>3. /\ stack' \in Seq(Frame) /\ Len(stack') = n
        /\ stack'[1].saved = stack[1].saved
    <3>1. /\ stack' \in Seq(Frame) /\ Len(stack') = n
          /\ \A k \in 1 .. n : stack'[k].saved = stack[k].saved
      BY <2>1, <2>2, AdvancedFrames
    <3>2. 1 \in 1 .. n
      BY <2>2, TopTyped
    <3>3. QED
      BY <3>1, <3>2
  <2>4. stack' # <<>>
    BY <2>2, <2>3, TopTyped, EmptySeq
  <2>5. QED
    BY <1>3, <2>2, <2>3, <2>4
<1>8. ASSUME stack # <<>>, stack' = Popped, n # 1
      PROVE  stack' # <<>> /\ stack'[1].saved = stack[1].saved
  <2>1. n - 1 \in Nat \ {0} /\ 1 \in 1 .. n - 1
    <3>1. n \in Nat \ {0}
      BY <1>8, TopTyped
    <3> HIDE DEF n
    <3>2. QED
      BY <1>8, <3>1
  <2>2. Len(stack') = n - 1 /\ stack' \in Seq(Frame) /\ stack'[1] = stack[1]
    BY <1>8, <2>1, PoppedFrames
  <2>3. QED
    BY <2>1, <2>2, EmptySeq
<1>9. ASSUME stack # <<>>, stack' = Popped, n = 1
      PROVE  Committed = stack[1].saved /\ Committed' = ledger'
  <2>1. stack' \in Seq(Frame) /\ Len(stack') = 0
    BY <1>9, PoppedFrames
  <2>2. stack' = <<>>
    BY <2>1, EmptySeq
  <2>3. QED
    BY <1>9, <2>2 DEF Committed
<1>10. CASE TransferFails
  <2>1. stack # <<>> /\ stack' = Popped /\ ledger' = stack[n].saved
    BY <1>10 DEF TransferFails, InTransfer, Top
  <2>2. CASE n = 1
    BY <2>1, <2>2, <1>9 DEF SameSettlements
  <2>3. CASE n # 1
    BY <2>1, <2>3, <1>3, <1>8
  <2>4. QED
    BY <2>2, <2>3
<1>11. CASE TransactionAborts
  BY <1>11 DEF TransactionAborts, Committed, SameSettlements
<1>12. CASE execute_intent_returns
  <2>1. stack # <<>> /\ stack' = Popped /\ now' = now
    BY <1>12 DEF execute_intent_returns
  <2>2. CASE n = 1
    <3>1. Since(stack[1].saved, ledger', stack, 0, now)
      BY <1>12, <2>2, ReturnSince
    <3>2. QED
      BY <2>1, <2>2, <3>1, <1>9
  <2>3. CASE n # 1
    BY <2>1, <2>3, <1>3, <1>8
  <2>4. QED
    BY <2>2, <2>3
<1>13. CASE \E i \in Intents : cancel_intent(i)
  <2>1. PICK i \in Intents : cancel_intent(i)
    BY <1>13
  <2>2. stack' = stack /\ now' = now
    BY <2>1 DEF cancel_intent
  <2>3. CASE stack = <<>>
    <3>1. Since(ledger, ledger', stack, 0, now)
      BY <2>1, <1>1, CancelSince, SinceBegin
    <3>2. QED
      BY <2>2, <2>3, <3>1 DEF Committed
  <2>4. CASE stack # <<>>
    BY <2>2, <2>4, <1>3
  <2>5. QED
    BY <2>3, <2>4
<1>14. QED
  BY <1>4, <1>5, <1>6, <1>7, <1>10, <1>11, <1>12, <1>13 DEF Next

\* A fill that becomes visible left a fresh receipt.
LEMMA CommittedFill ==
  ASSUME TypeOK, IInv, SinceInv, Next, TypeOK', IInv',
         NEW i \in Intents,
         Committed.status[Hash[i]] # "Filled", Committed'.status[Hash[i]] = "Filled"
  PROVE  /\ now' = now
         /\ Committed'.receipt[Hash[i]] \in FillReceipt
         /\ FreshReceipt(Committed, Committed', i, now)
<1>1. Hash[i] \in Hashes
  BY HashAssumption
<1>2. Since(Committed, Committed', stack, 0, now) /\ now' = now
  BY CommitStep DEF SameSettlements
<1>3. Committed.receipt[Hash[i]] = NoReceipt
  BY <1>1, CommittedFacts DEF InProgress
<1>4. Committed' \in Ledger /\ InProgress(Committed', stack', 0)
  <2>1. (TypeOK /\ IInv => Committed \in Ledger /\ InProgress(Committed, stack, 0))'
    BY CommittedFacts, PTL
  <2>2. QED
    BY <2>1
<1>5. Committed'.receipt[Hash[i]] # NoReceipt
  BY <1>1, <1>4 DEF InProgress
<1>6. Committed'.receipt[Hash[i]] \in FillReceipt
  BY <1>1, <1>4, <1>5 DEF Ledger
<1>7. QED
  BY <1>2, <1>3, <1>5, <1>6 DEF Since

LEMMA StepSpends ==
  ASSUME TypeOK, IInv, SinceInv, Next, TypeOK', IInv', NEW i \in Intents,
         Committed.status[Hash[i]] # "Filled", Committed'.status[Hash[i]] = "Filled"
  PROVE  LET c == CallOf(i, Committed'.receipt[Hash[i]])
         IN  Spent(Committed, Committed', c) /\ Cardinality(Entries(c)) = 2
<1> DEFINE r == Committed'.receipt[Hash[i]]
           c == CallOf(i, r)
<1>1. r.solver # i.trader /\ Spent(Committed, Committed', c)
  BY CommittedFill DEF FreshReceipt
<1>2. c.solver = r.solver /\ c.intent = i
  BY DEF CallOf
<1> HIDE DEF r, c
<1>3. <<c.solver, c>> # <<c.intent.trader, c>>
  BY <1>1, <1>2
<1>4. Cardinality(Entries(c)) = 2
  <2> DEFINE x == <<c.solver, c>>
             y == <<c.intent.trader, c>>
  <2>1. Entries(c) = {x} \cup {y}
    BY DEF Entries
  <2> HIDE DEF x, y
  <2>2. IsFiniteSet({x}) /\ Cardinality({x}) = 1
    BY FS_Singleton
  <2>3. y \notin {x}
    BY <1>3 DEF x, y
  <2>4. QED
    BY <2>1, <2>2, <2>3, FS_AddElement
<1>5. QED
  BY <1>1, <1>4 DEF c, r

\* Nobody's tokens move without their signature on exactly that call.
THEOREM RouterSpendsBothSignatures == Spec => FillSpendsBothSignatures
<1>1. /\ TypeOK /\ IInv /\ SinceInv /\ [Next]_vars /\ TypeOK' /\ IInv'
      => [\A i \in Intents :
           (/\ Committed.status[Hash[i]] # "Filled"
            /\ Committed'.status[Hash[i]] = "Filled") =>
             LET r == Committed'.receipt[Hash[i]]
                 c == [solver |-> r.solver, intent |-> i, amount |-> r.bought_amount]
             IN  /\ \A e \in Entries(c) :
                      Committed'.fillAuths[e] < Committed.fillAuths[e]
                 /\ Cardinality(Entries(c)) = 2]_vars
  BY StepSpends DEF CallOf, Spent, Fewer
<1>2. QED
  BY <1>1, RouterInvariant, RouterTransaction, PTL DEF Spec, FillSpendsBothSignatures

\* What is committed after a step is coherent too.
LEMMA CommittedFactsNext ==
  ASSUME TypeOK', IInv'
  PROVE  Committed' \in Ledger /\ Coherent(Committed') /\ InProgress(Committed', stack', 0)
<1>1. (TypeOK /\ IInv =>
         Committed \in Ledger /\ Coherent(Committed) /\ InProgress(Committed, stack, 0))'
  BY CommittedFacts, PTL
<1>2. QED
  BY <1>1

\* What a committed ledger says of an order is one of its outcomes.
OutcomeIn(L, i) ==
  IF L.status[Hash[i]] = "Filled"
    THEN Lifecycle!FilledBy([solver |-> L.receipt[Hash[i]].solver,
                             amount |-> L.receipt[Hash[i]].bought_amount,
                             time   |-> L.receipt[Hash[i]].timestamp])
    ELSE [status |-> L.status[Hash[i]]]

LEMMA OutcomeCommitted ==
  ASSUME NEW i \in Intents
  PROVE  /\ OutcomeOf(i) = OutcomeIn(Committed, i)
         /\ OutcomeOf(i)' = OutcomeIn(Committed', i)
BY DEF OutcomeOf, OutcomeIn, Lifecycle!FilledBy, get_intent_hash

LEMMA OutcomeTyped ==
  ASSUME NEW L \in Ledger, NEW s, InProgress(L, s, 0), NEW i \in Intents
  PROVE  /\ OutcomeIn(L, i) \in Lifecycle!Outcomes
         /\ OutcomeIn(L, i) = Lifecycle!Open <=> L.status[Hash[i]] = "Active"
         /\ L.status[Hash[i]] = "Cancelled" => OutcomeIn(L, i) = Lifecycle!Withdrawn
<1>1. /\ Hash[i] \in Hashes
      /\ L.status[Hash[i]] \in IntentStatus
      /\ L.receipt[Hash[i]] \in FillReceipt \cup {NoReceipt}
  BY HashAssumption DEF Ledger
<1>2. CASE L.status[Hash[i]] = "Filled"
  <2>1. L.receipt[Hash[i]] \in FillReceipt
    BY <1>1, <1>2 DEF InProgress
  <2> DEFINE f == [solver |-> L.receipt[Hash[i]].solver,
                   amount |-> L.receipt[Hash[i]].bought_amount,
                   time   |-> L.receipt[Hash[i]].timestamp]
  <2>2. f \in OrderFills
    BY <2>1 DEF FillReceipt, OrderFills
  <2>3. OutcomeIn(L, i) = Lifecycle!FilledBy(f)
    BY <1>2 DEF OutcomeIn
  <2> HIDE DEF f
  <2>4. Lifecycle!FilledBy(f) \in Lifecycle!Outcomes
    BY <2>2 DEF Lifecycle!Outcomes
  <2>5. Lifecycle!FilledBy(f) # Lifecycle!Open
    BY DEF Lifecycle!FilledBy, Lifecycle!Open
  <2>6. QED
    BY <1>2, <2>3, <2>4, <2>5
<1>3. CASE L.status[Hash[i]] # "Filled"
  BY <1>1, <1>3
     DEF OutcomeIn, IntentStatus, Lifecycle!Outcomes, Lifecycle!Open, Lifecycle!Withdrawn
<1>4. QED
  BY <1>2, <1>3

\* A committed transaction settles all its orders at once: each was open, and so
\* was every order on its nonce; no two of them share one; each fill is
\* acceptable at the time it is made.
LEMMA CommitSettles ==
  ASSUME TypeOK, IInv, SinceInv, Next, TypeOK', IInv',
         Since(Committed, Committed', stack, 0, now), now' = now
  PROVE  Lifecycle!Settle
<1> DEFINE C == Committed
           D == Committed'
<1>1. /\ C \in Ledger /\ D \in Ledger /\ Coherent(C) /\ Coherent(D)
      /\ InProgress(C, stack, 0) /\ InProgress(D, stack', 0)
  BY CommittedFacts, CommittedFactsNext
<1>2. \A i \in Intents :
        Hash[i] \in Hashes /\ C.status[Hash[i]] \in IntentStatus /\ D.status[Hash[i]] \in IntentStatus
  BY <1>1, HashAssumption DEF Ledger
<1>3. \A i \in Intents :
        /\ OutcomeOf(i) = OutcomeIn(C, i)
        /\ OutcomeOf(i)' = OutcomeIn(D, i)
  BY OutcomeCommitted
<1>4. \A i \in Intents :
        C.status[Hash[i]] # "Active" =>
          D.status[Hash[i]] = C.status[Hash[i]] /\ D.receipt[Hash[i]] = C.receipt[Hash[i]]
  BY <1>2 DEF Since
<1>5. \A i \in Intents :
        (C.status[Hash[i]] # "Filled" /\ D.status[Hash[i]] = "Filled") =>
          D.receipt[Hash[i]] \in FillReceipt /\ FreshReceipt(C, D, i, now)
  BY CommittedFill
<1> HIDE DEF C, D
<1>6. \A i \in Intents :
        /\ OutcomeIn(C, i) = Lifecycle!Open <=> C.status[Hash[i]] = "Active"
        /\ OutcomeIn(D, i) = Lifecycle!Open <=> D.status[Hash[i]] = "Active"
        /\ OutcomeIn(D, i) \in Lifecycle!Outcomes
        /\ D.status[Hash[i]] = "Cancelled" => OutcomeIn(D, i) = Lifecycle!Withdrawn
  BY <1>1, OutcomeTyped
<1>7. ASSUME NEW i \in Intents, OutcomeOf(i)' # OutcomeOf(i)
      PROVE  C.status[Hash[i]] = "Active" /\ D.status[Hash[i]] # "Active"
  <2>1. C.status[Hash[i]] = "Active"
    BY <1>7, <1>3, <1>4 DEF OutcomeIn
  <2>2. QED
    BY <2>1, <1>7, <1>3, <1>6
<1>8. ASSUME NEW i \in Intents, NEW j \in Intents, OutcomeOf(i)' # OutcomeOf(i),
             NonceKey(j) = NonceKey(i)
      PROVE  /\ OutcomeOf(j) = Lifecycle!Open
             /\ OutcomeOf(j)' # OutcomeOf(j) => j = i
  <2>1. C.status[Hash[i]] = "Active" /\ D.status[Hash[i]] # "Active"
    BY <1>7, <1>8
  <2>2. CASE j = i
    BY <2>1, <2>2, <1>3, <1>6
  <2>3. CASE j # i
    <3>1. D.status[Hash[j]] = "Active"
      BY <2>1, <2>3, <1>1, <1>8 DEF Coherent, OneSettlementPerNonce
    <3>2. C.status[Hash[j]] = "Active"
      BY <3>1, <1>4
    <3>3. QED
      BY <3>1, <3>2, <1>3, <1>6
  <2>4. QED
    BY <2>2, <2>3
<1>9. ASSUME NEW i \in Intents, OutcomeOf(i)' # OutcomeOf(i)
      PROVE  \/ OutcomeOf(i)' = Lifecycle!Withdrawn
             \/ \E f \in OrderFills :
                  OutcomeOf(i)' = Lifecycle!FilledBy(f) /\ AcceptableFill(i, f, now)
  <2>1. C.status[Hash[i]] = "Active" /\ D.status[Hash[i]] # "Active"
    BY <1>7, <1>9
  <2>2. CASE D.status[Hash[i]] = "Cancelled"
    BY <2>2, <1>3, <1>6
  <2>3. CASE D.status[Hash[i]] = "Filled"
    <3> DEFINE r == D.receipt[Hash[i]]
               f == [solver |-> r.solver, amount |-> r.bought_amount, time |-> r.timestamp]
    <3>1. r \in FillReceipt /\ FreshReceipt(C, D, i, now)
      BY <2>1, <2>3, <1>5
    <3>2. f \in OrderFills
      BY <3>1 DEF FillReceipt, OrderFills
    <3>3. AcceptableFill(i, f, now)
      BY <3>1 DEF FreshReceipt, AcceptableFill
    <3>4. OutcomeOf(i)' = Lifecycle!FilledBy(f)
      BY <2>3, <1>3 DEF OutcomeIn
    <3> HIDE DEF f
    <3>5. QED
      BY <3>2, <3>3, <3>4
  <2>4. QED
    BY <2>1, <2>2, <2>3, <1>2 DEF IntentStatus
<1>10. [i \in Intents |-> OutcomeOf(i)]' \in [Intents -> Lifecycle!Outcomes]
  BY <1>3, <1>6
<1>11. QED
  BY <1>8, <1>9, <1>10 DEF Lifecycle!Settle, Lifecycle!Settled

\* The router implements the abstract order book, whatever the tokens do and
\* whether or not the host lets them call back.
THEOREM RouterImplementsLifecycle == Spec => ImplementsLifecycle
<1>1. Init => Lifecycle!Init
  <2> SUFFICES ASSUME Init PROVE Lifecycle!Init
    OBVIOUS
  <2>1. \A i \in Intents : Committed.status[Hash[i]] = "Active"
    BY HashAssumption DEF Init, Committed
  <2>2. \A i \in Intents : OutcomeOf(i) = Lifecycle!Open
    BY <2>1, OutcomeCommitted DEF OutcomeIn, Lifecycle!Open
  <2>3. QED
    BY <2>2 DEF Init, Lifecycle!Init
<1>2. /\ TypeOK /\ IInv /\ SinceInv /\ [Next]_vars /\ TypeOK' /\ IInv'
      => [Lifecycle!Next]_<<[i \in Intents |-> OutcomeOf(i)], now>>
  <2> SUFFICES ASSUME TypeOK, IInv, SinceInv, [Next]_vars, TypeOK', IInv'
               PROVE  \/ Lifecycle!Next
                      \/ UNCHANGED <<[i \in Intents |-> OutcomeOf(i)], now>>
    OBVIOUS
  <2>1. CASE UNCHANGED vars
    BY <2>1 DEF vars, OutcomeOf, Committed
  <2>2. ASSUME SameSettlements(Committed, Committed')
        PROVE  UNCHANGED [i \in Intents |-> OutcomeOf(i)]
    BY <2>2, OutcomeCommitted DEF SameSettlements, OutcomeIn
  <2>3. CASE LedgerCloses
    <3>1. now' = now + 1 /\ SameSettlements(Committed, Committed')
      BY <2>3 DEF LedgerCloses, Committed, SameSettlements
    <3>2. QED
      BY <3>1, <2>2 DEF Lifecycle!Next, Lifecycle!Tick
  <2>4. CASE Next /\ ~LedgerCloses
    <3>1. now' = now
      BY <2>4 DEF Next, SignFill, SignCancel, EntryExpires, execute_intent, TransferReturns,
                  TransferFails, TransactionAborts, execute_intent_returns, cancel_intent
    <3>2. CASE SameSettlements(Committed, Committed')
      BY <3>1, <3>2, <2>2
    <3>3. CASE Since(Committed, Committed', stack, 0, now)
      BY <3>1, <3>3, <2>4, CommitSettles DEF Lifecycle!Next
    <3>4. QED
      BY <2>4, <3>2, <3>3, CommitStep
  <2>5. QED
    BY <2>1, <2>3, <2>4
<1>3. QED
  BY <1>1, <1>2, RouterInvariant, RouterTransaction, PTL
     DEF Spec, Lifecycle!Spec, ImplementsLifecycle

-----------------------------------------------------------------------------
(* The books: receipts, events and balances.                               *)

Published(L, name, h) ==
  {k \in 1 .. Len(L.events) : L.events[k] = [name |-> name, intent_hash |-> h]}

\* No event is published twice; a receipt and a cancellation each have one.
EventsAgree(L) ==
  /\ \A k, l \in 1 .. Len(L.events) : L.events[k] = L.events[l] => k = l
  /\ \A h \in Hashes :
       /\ L.receipt[h] # NoReceipt <=> Published(L, "IntentFilled", h) # {}
       /\ L.status[h] = "Cancelled" <=> Published(L, "IntentCancelled", h) # {}

\* What a transfer adds to the balance of `a' in `t'.
LegFlow(leg, t, a) ==
  IF t # leg.token THEN 0
  ELSE (IF a = leg.to THEN leg.amount ELSE 0) - (IF a = leg.from THEN leg.amount ELSE 0)

\* What the transfers before `pc' have added; a fee that is skipped is 0.
Progress(c, pc, t, a) ==
  LET done(leg) == LegFlow(Leg(c, leg), t, a) IN
  CASE pc = "sell"    -> 0
    [] pc = "pull"    -> done("sell")
    [] pc = "pay"     -> done("sell") + done("pull")
    [] pc = "fee"     -> done("sell") + done("pull") + done("pay")
    [] pc = "receipt" -> done("sell") + done("pull") + done("pay") + done("fee")

\* What an account holds beyond what the receipts explain.
Excess(L, t, a) == L.balance[t][a] - InitialBalance[t][a] - NetFlows(L, t, a)

\* While n calls are in progress, that is what the innermost has moved so far,
\* on top of what was unexplained when it began.
InMotion(s, n, t, a) ==
  IF n = 0 THEN 0 ELSE Excess(s[n].saved, t, a) + Progress(s[n].call, s[n].pc, t, a)

\* The books of a ledger on which the first n calls of s are in progress.
Audited(L, s, n) ==
  /\ EventsAgree(L)
  /\ IsFiniteSet(FilledIn(L))
  /\ \A k \in 1 .. n : L.receipt[Hash[s[k].call.intent]] = NoReceipt
  /\ \A t \in HonestTokens, a \in Addresses : Excess(L, t, a) = InMotion(s, n, t, a)

BooksInv ==
  /\ Audited(ledger, stack, Len(stack))
  /\ \A k \in 1 .. Len(stack) : Audited(stack[k].saved, stack, k - 1)

LEMMA AuditedFrames ==
  ASSUME NEW L, NEW s, NEW t, NEW n \in Nat, \A k \in 1 .. n : t[k] = s[k],
         Audited(L, s, n)
  PROVE  Audited(L, t, n)
<1>1. n # 0 => n \in 1 .. n
  OBVIOUS
<1>2. \A u, a : InMotion(t, n, u, a) = InMotion(s, n, u, a)
  BY <1>1 DEF InMotion
<1>3. QED
  BY <1>2 DEF Audited

\* Only receipts, balances, events and cancellations are in the books.
SameBooks(L, M) ==
  /\ M.receipt = L.receipt
  /\ M.balance = L.balance
  /\ M.events = L.events
  /\ \A h \in Hashes : M.status[h] = "Cancelled" <=> L.status[h] = "Cancelled"

LEMMA SameNetFlows ==
  ASSUME NEW L, NEW M, M.receipt = L.receipt
  PROVE  /\ FilledIn(M) = FilledIn(L)
         /\ \A t, a : NetFlows(M, t, a) = NetFlows(L, t, a)
<1>1. FilledIn(M) = FilledIn(L)
  BY DEF FilledIn
<1>2. \A t, a, i : NetFlow(M, t, a, i) = NetFlow(L, t, a, i)
  BY DEF NetFlow
<1>3. QED
  BY <1>1, <1>2 DEF NetFlows

LEMMA AuditedLedger ==
  ASSUME NEW L, NEW M, SameBooks(L, M), NEW s, NEW n, Audited(L, s, n)
  PROVE  Audited(M, s, n)
<1>1. FilledIn(M) = FilledIn(L) /\ \A t, a : Excess(M, t, a) = Excess(L, t, a)
  BY SameNetFlows DEF SameBooks, Excess
<1>2. EventsAgree(M)
  BY DEF Audited, EventsAgree, SameBooks, Published
<1>3. QED
  BY <1>1, <1>2 DEF Audited, SameBooks

\* Flows and balances are integers.
LEMMA NetFlowTyped ==
  ASSUME NEW L \in Ledger, NEW t, NEW a, NEW i \in FilledIn(L)
  PROVE  NetFlow(L, t, a, i) \in Int
<1> DEFINE r == L.receipt[Hash[i]]
<1>1. i \in Intents /\ r \in FillReceipt
  BY HashAssumption DEF FilledIn, Ledger
<1>2. CallOf(i, r) \in Calls
  BY <1>1 DEF CallOf, Calls, FillReceipt
<1>3. trader_proceeds(i, r.bought_amount) \in Int
  <2>1. CallOf(i, r).intent = i /\ CallOf(i, r).amount = r.bought_amount
    BY DEF CallOf
  <2>2. QED
    BY <1>2, <2>1, FeeTyped
<1>4. i.sell_amount \in Int
  BY <1>1, IntentsAssumption
<1>5. QED
  BY <1>3, <1>4 DEF NetFlow

LEMMA ExcessTyped ==
  ASSUME NEW L \in Ledger, IsFiniteSet(FilledIn(L)),
         NEW t \in HonestTokens, NEW a \in Addresses
  PROVE  /\ NetFlows(L, t, a) \in Int
         /\ L.balance[t][a] \in Int /\ InitialBalance[t][a] \in Int
         /\ Excess(L, t, a) \in Int
<1> DEFINE f == [i \in FilledIn(L) |-> NetFlow(L, t, a, i)]
<1>1. \A i \in FilledIn(L) : f[i] \in Int
  BY NetFlowTyped
<1>2. NetFlows(L, t, a) = SumFunctionOnSet(f, FilledIn(L))
  BY DEF NetFlows
<1> HIDE DEF f
<1>3. NetFlows(L, t, a) \in Int
  BY <1>1, <1>2, SumInt
<1>4. L.balance[t][a] \in Int /\ InitialBalance[t][a] \in Int
  BY ValueAssumption DEF Ledger
<1>5. QED
  BY <1>3, <1>4 DEF Excess

LEMMA LegFlowTyped ==
  ASSUME NEW c \in Calls, NEW pc \in Legs, NEW t, NEW a
  PROVE  LegFlow(Leg(c, pc), t, a) \in Int
BY LegTyped DEF LegFlow

LEMMA ProgressTyped ==
  ASSUME NEW c \in Calls, NEW pc \in Legs \cup {"receipt"}, NEW t, NEW a
  PROVE  Progress(c, pc, t, a) \in Int
<1>1. /\ LegFlow(Leg(c, "sell"), t, a) \in Int /\ LegFlow(Leg(c, "pull"), t, a) \in Int
      /\ LegFlow(Leg(c, "pay"), t, a) \in Int /\ LegFlow(Leg(c, "fee"), t, a) \in Int
  BY LegFlowTyped DEF Legs
<1>2. QED
  BY <1>1 DEF Progress, Legs

\* Each transfer adds its flow, and the skipped fee is one of nothing.
LEMMA ProgressAdvances ==
  ASSUME NEW c \in Calls, NEW time, AcceptsTerms(c.intent, c.amount, time),
         NEW pc \in Legs, NEW t, NEW a
  PROVE  Progress(c, AfterLeg(c, pc), t, a)
           = Progress(c, pc, t, a) + LegFlow(Leg(c, pc), t, a)
<1> DEFINE flow(leg) == LegFlow(Leg(c, leg), t, a)
<1>1. /\ flow("sell") \in Int /\ flow("pull") \in Int
      /\ flow("pay") \in Int /\ flow("fee") \in Int
  BY LegFlowTyped DEF Legs
<1>2. ~(solver_fee(c.intent, c.amount) > 0) => flow("fee") = 0
  <2>1. solver_fee(c.intent, c.amount) \in Nat
    <3>1. c.amount \in Nat /\ IsPriced(c.intent) /\ ~InvalidSlippageBps(c.intent)
      BY CallTyped DEF AcceptsTerms, InvalidAmount, InsufficientOutput, IsPriced
    <3>2. solver_fee(c.intent, c.amount) \in 0 .. c.amount
      BY <3>1, FeeBounds
    <3>3. QED
      BY <3>1, <3>2
  <2>2. Leg(c, "fee").amount = solver_fee(c.intent, c.amount)
    BY DEF Leg
  <2>3. ~(solver_fee(c.intent, c.amount) > 0) => Leg(c, "fee").amount = 0
    BY <2>1, <2>2
  <2>4. QED
    BY <2>3 DEF LegFlow
<1> HIDE DEF flow
<1>3. /\ Progress(c, "sell", t, a) = 0
      /\ Progress(c, "pull", t, a) = flow("sell")
      /\ Progress(c, "pay", t, a) = flow("sell") + flow("pull")
      /\ Progress(c, "fee", t, a) = flow("sell") + flow("pull") + flow("pay")
      /\ Progress(c, "receipt", t, a) = flow("sell") + flow("pull") + flow("pay") + flow("fee")
  BY DEF Progress, flow
<1>4. Progress(c, AfterLeg(c, pc), t, a) = Progress(c, pc, t, a) + flow(pc)
  <2>1. CASE pc = "sell"
    BY <2>1, <1>1, <1>3 DEF AfterLeg
  <2>2. CASE pc = "pull"
    BY <2>2, <1>1, <1>3 DEF AfterLeg
  <2>3. CASE pc = "pay"
    BY <2>3, <1>1, <1>2, <1>3 DEF AfterLeg
  <2>4. CASE pc = "fee"
    BY <2>4, <1>1, <1>3 DEF AfterLeg
  <2>5. QED
    BY <2>1, <2>2, <2>3, <2>4 DEF Legs
<1>5. QED
  BY <1>4 DEF flow

\* All transfers together are the flow of the receipt: nothing stays at the
\* router.
LEMMA ProgressComplete ==
  ASSUME NEW c \in Calls, c.solver # c.intent.trader,
         NEW L, L.receipt[Hash[c.intent]].solver = c.solver,
         L.receipt[Hash[c.intent]].bought_amount = c.amount,
         NEW t, NEW a
  PROVE  Progress(c, "receipt", t, a) = NetFlow(L, t, a, c.intent)
<1> DEFINE i == c.intent
           proceeds == trader_proceeds(i, c.amount)
           fee == solver_fee(i, c.amount)
           Sold   == IF t = i.sell_token THEN i.sell_amount ELSE 0
           Bought == IF t = i.buy_token THEN proceeds ELSE 0
<1>1. /\ i.sell_amount \in Int /\ c.amount \in Int /\ fee \in Int
      /\ proceeds \in Int /\ proceeds = c.amount - fee
  BY CallTyped, FeeTyped, IntentsAssumption DEF trader_proceeds
<1>2. c.solver # RouterAddress /\ i.trader # RouterAddress
  BY CallTyped, AddressAssumption
<1>3. NetFlow(L, t, a, i) = IF a = i.trader THEN Bought - Sold
                            ELSE IF a = c.solver THEN Sold - Bought ELSE 0
  BY DEF NetFlow
<1>4. /\ LegFlow(Leg(c, "sell"), t, a)
           = (IF a = c.solver THEN Sold ELSE 0) - (IF a = i.trader THEN Sold ELSE 0)
      /\ LegFlow(Leg(c, "pull"), t, a)
           = IF t # i.buy_token THEN 0
             ELSE (IF a = RouterAddress THEN c.amount ELSE 0) - (IF a = c.solver THEN c.amount ELSE 0)
      /\ LegFlow(Leg(c, "pay"), t, a)
           = IF t # i.buy_token THEN 0
             ELSE (IF a = i.trader THEN proceeds ELSE 0) - (IF a = RouterAddress THEN proceeds ELSE 0)
      /\ LegFlow(Leg(c, "fee"), t, a)
           = IF t # i.buy_token THEN 0
             ELSE (IF a = c.solver THEN fee ELSE 0) - (IF a = RouterAddress THEN fee ELSE 0)
  BY DEF Leg, LegFlow
<1>5. Progress(c, "receipt", t, a)
        = LegFlow(Leg(c, "sell"), t, a) + LegFlow(Leg(c, "pull"), t, a)
          + LegFlow(Leg(c, "pay"), t, a) + LegFlow(Leg(c, "fee"), t, a)
  BY DEF Progress
<1> HIDE DEF i, proceeds, fee
<1>6. QED
  BY <1>1, <1>2, <1>3, <1>4, <1>5 DEF i

LEMMA InitBooks == Init => BooksInv
<1> SUFFICES ASSUME Init PROVE BooksInv
  OBVIOUS
<1>1. /\ \A h \in Hashes : ledger.status[h] = "Active" /\ ledger.receipt[h] = NoReceipt
      /\ ledger.events = <<>> /\ Len(ledger.events) = 0 /\ Len(stack) = 0
      /\ ledger.balance = InitialBalance
  BY EmptySeq DEF Init
<1>2. EventsAgree(ledger)
  BY <1>1 DEF EventsAgree, Published
<1>3. FilledIn(ledger) = {}
  BY <1>1, HashAssumption DEF FilledIn
<1>4. IsFiniteSet(FilledIn(ledger))
  BY <1>3, FS_EmptySet
<1>5. ASSUME NEW t \in HonestTokens, NEW a \in Addresses
      PROVE  Excess(ledger, t, a) = 0
  <2>1. NetFlows(ledger, t, a) = 0
    BY <1>3, SumEmpty DEF NetFlows
  <2>2. InitialBalance[t][a] \in Int
    BY ValueAssumption
  <2>3. QED
    BY <2>1, <2>2, <1>1 DEF Excess
<1>6. QED
  BY <1>1, <1>2, <1>4, <1>5 DEF BooksInv, Audited, InMotion

\* The books at the top of the stack.
LEMMA TopBooks ==
  ASSUME TypeOK, IInv, BooksInv, stack # <<>>
  PROVE  /\ Audited(stack[Len(stack)].saved, stack, Len(stack) - 1)
         /\ Audited(stack[1].saved, stack, 0)
         /\ \A t \in HonestTokens, a \in Addresses :
              /\ Excess(ledger, t, a) \in Int
              /\ Excess(Top.saved, t, a) \in Int
              /\ Excess(ledger, t, a)
                   = Excess(Top.saved, t, a) + Progress(Top.call, Top.pc, t, a)
<1>1. /\ Len(stack) \in 1 .. Len(stack) /\ 1 \in 1 .. Len(stack) /\ 1 - 1 = 0
      /\ Len(stack) \in Nat \ {0}
      /\ Top.saved \in Ledger /\ ledger \in Ledger
  BY TopTyped DEF TypeOK
<1>2. Audited(stack[Len(stack)].saved, stack, Len(stack) - 1)
  BY <1>1 DEF BooksInv
<1>3. Audited(stack[1].saved, stack, 0)
  <2>1. Audited(stack[1].saved, stack, 1 - 1)
    BY <1>1 DEF BooksInv
  <2>2. QED
    BY <2>1
<1>4. ASSUME NEW t \in HonestTokens, NEW a \in Addresses
      PROVE  /\ Excess(ledger, t, a) \in Int
             /\ Excess(Top.saved, t, a) \in Int
             /\ Excess(ledger, t, a)
                  = Excess(Top.saved, t, a) + Progress(Top.call, Top.pc, t, a)
  <2>1. IsFiniteSet(FilledIn(ledger)) /\ IsFiniteSet(FilledIn(Top.saved))
    BY <1>2 DEF Audited, BooksInv, Top
  <2>2. Excess(ledger, t, a) = InMotion(stack, Len(stack), t, a)
    BY DEF BooksInv, Audited
  <2>3. QED
    BY <1>1, <2>1, <2>2, ExcessTyped DEF InMotion, Top
<1>5. QED
  BY <1>2, <1>3, <1>4

\* execute_intent: nothing is paid and nothing is published yet.
LEMMA EnterBooks ==
  ASSUME TypeOK, IInv, BooksInv, NEW c \in Calls, execute_intent(c)
  PROVE  BooksInv'
<1> DEFINE n == Len(stack)
           i == c.intent
<1>1. /\ n \in Nat /\ ledger \in Ledger /\ ledger.status \in [Hashes -> IntentStatus]
      /\ Hash[i] \in Hashes
  BY LenProperties, CallTyped DEF TypeOK, Ledger
<1>2. /\ Len(stack') = n + 1
      /\ stack'[n + 1].call = c /\ stack'[n + 1].pc = "sell" /\ stack'[n + 1].saved = ledger
      /\ \A k \in 1 .. n : stack'[k] = stack[k]
  BY EnteredFrame, PushedFrames DEF execute_intent
<1>3. ledger.status[Hash[i]] = "Active"
  BY DEF execute_intent, IsOpen, get_intent_hash
<1>4. /\ SameBooks(ledger, ledger')
      /\ ledger' \in Ledger
  BY <1>1, <1>3, EffectsFields DEF execute_intent, SameBooks
<1>5. ledger'.receipt[Hash[i]] = NoReceipt
  BY <1>1, <1>3, <1>4 DEF IInv, InProgress, SameBooks
<1> HIDE DEF n, i
<1>6. Audited(ledger, stack', n) /\ Audited(ledger', stack', n)
  <2>1. Audited(ledger, stack', n)
    BY <1>1, <1>2, AuditedFrames DEF BooksInv, n
  <2>2. QED
    BY <2>1, <1>4, AuditedLedger
<1>7. \A k \in 1 .. n + 1 : k \in 1 .. n \/ k = n + 1
  BY <1>1
<1>8. Audited(ledger', stack', n + 1)
  <2>1. \A k \in 1 .. n + 1 : ledger'.receipt[Hash[stack'[k].call.intent]] = NoReceipt
    BY <1>2, <1>5, <1>6, <1>7 DEF Audited, i
  <2>2. ASSUME NEW t \in HonestTokens, NEW a \in Addresses
        PROVE  Excess(ledger', t, a) = InMotion(stack', n + 1, t, a)
    <3>1. Excess(ledger', t, a) = Excess(ledger, t, a)
      BY <1>4, SameNetFlows DEF SameBooks, Excess
    <3>2. Excess(ledger, t, a) \in Int
      BY <1>1, <1>6, ExcessTyped DEF Audited
    <3>3. InMotion(stack', n + 1, t, a) = Excess(ledger, t, a) + Progress(c, "sell", t, a)
      BY <1>1, <1>2 DEF InMotion
    <3>4. Progress(c, "sell", t, a) = 0
      BY DEF Progress
    <3>5. QED
      BY <3>1, <3>2, <3>3, <3>4
  <2>3. QED
    BY <2>1, <2>2, <1>6 DEF Audited
<1>9. ASSUME NEW k \in 1 .. n + 1 PROVE Audited(stack'[k].saved, stack', k - 1)
  <2>1. CASE k \in 1 .. n
    <3>1. k - 1 \in Nat /\ \A j \in 1 .. k - 1 : stack'[j] = stack[j]
      BY <2>1, <1>1, <1>2
    <3>2. Audited(stack[k].saved, stack, k - 1)
      BY <2>1 DEF BooksInv, n
    <3>3. Audited(stack[k].saved, stack', k - 1)
      BY <3>1, <3>2, AuditedFrames
    <3>4. QED
      BY <3>3, <2>1, <1>2
  <2>2. CASE k = n + 1
    <3>1. k - 1 = n
      BY <2>2, <1>1
    <3>2. QED
      BY <3>1, <2>2, <1>2, <1>6
  <2>3. QED
    BY <2>1, <2>2, <1>7
<1>10. QED
  BY <1>2, <1>8, <1>9 DEF BooksInv

\* A transfer that returns has moved its flow, or was of a token that is not
\* followed.
LEMMA TransferMoves ==
  ASSUME TypeOK, TransferReturns, NEW t \in HonestTokens, NEW a \in Addresses
  PROVE  ledger'.balance[t][a] = ledger.balance[t][a] + LegFlow(Leg(Top.call, Top.pc), t, a)
<1> DEFINE leg == Leg(Top.call, Top.pc)
           b == ledger.balance[leg.token]
<1>1. /\ leg.token \in Tokens /\ leg.from \in Addresses /\ leg.to \in Addresses
      /\ leg.amount \in Int
  BY TopTyped, LegTyped DEF TransferReturns, InTransfer
<1>2. ledger.balance \in [HonestTokens -> [Addresses -> Int]] /\ ledger \in Ledger
  BY DEF TypeOK, Ledger
<1>3. CASE leg.token \in HostileTokens /\ UNCHANGED ledger
  <2>1. t # leg.token
    BY <1>3, ValueAssumption
  <2>2. ledger.balance[t][a] \in Int
    BY <1>2
  <2> HIDE DEF leg
  <2>3. LegFlow(leg, t, a) = 0
    BY <2>1 DEF LegFlow
  <2>4. QED
    BY <2>2, <2>3, <1>3 DEF leg
<1>4. CASE /\ leg.token \in HonestTokens
           /\ ledger' = [ledger EXCEPT
                !.balance[leg.token] = Moved(@, leg.from, leg.to, leg.amount)]
  <2> HIDE DEF leg
  <2>1. /\ ledger'.balance[leg.token] = Moved(b, leg.from, leg.to, leg.amount)
        /\ t # leg.token => ledger'.balance[t] = ledger.balance[t]
        /\ b \in [Addresses -> Int]
    BY <1>2, <1>4 DEF Ledger
  <2>2. ledger.balance[t][a] \in Int
    BY <1>2
  <2>3. CASE t # leg.token
    BY <2>1, <2>2, <2>3 DEF LegFlow, leg
  <2>4. CASE t = leg.token
    <3> HIDE DEF b
    <3>1. Moved(b, leg.from, leg.to, leg.amount)[a]
            = b[a] + ((IF a = leg.to THEN leg.amount ELSE 0)
                      - (IF a = leg.from THEN leg.amount ELSE 0))
      BY <1>1, <2>1 DEF Moved
    <3>2. QED
      BY <2>1, <2>4, <3>1 DEF LegFlow, leg, b
  <2>5. QED
    BY <2>3, <2>4
<1>5. QED
  BY <1>3, <1>4 DEF TransferReturns

LEMMA TransferBooks ==
  ASSUME TypeOK, IInv, BooksInv, TransferReturns
  PROVE  BooksInv'
<1> DEFINE n == Len(stack)
           c == Top.call
           p == AfterLeg(c, Top.pc)
<1>1. /\ stack # <<>> /\ n \in Nat \ {0} /\ n \in 1 .. n /\ stack \in Seq(Frame)
      /\ c \in Calls /\ Top.pc \in Legs /\ p \in Legs \cup {"receipt"}
      /\ Top \in Frame
      /\ stack' = [stack EXCEPT ![n].pc = p]
  BY TopTyped, LegTyped DEF TransferReturns, InTransfer, Top, TypeOK
<1>2. /\ Len(stack') = n /\ stack'[n].pc = p
      /\ stack'[n].call = c /\ stack'[n].saved = Top.saved
      /\ \A k \in 1 .. n : stack'[k].call = stack[k].call /\ stack'[k].saved = stack[k].saved
      /\ \A k \in 1 .. n : k # n => stack'[k] = stack[k]
  <2>1. /\ Len(stack') = n
        /\ \A k \in 1 .. n : stack'[k].call = stack[k].call /\ stack'[k].saved = stack[k].saved
    BY <1>1, AdvancedFrames
  <2>2. stack'[n].pc = p /\ \A k \in 1 .. n : k # n => stack'[k] = stack[k]
    <3>1. [Top EXCEPT !.pc = p].pc = p
      BY <1>1 DEF Frame
    <3>2. stack' = [stack EXCEPT ![n] = [Top EXCEPT !.pc = p]]
      BY <1>1 DEF Top
    <3> HIDE DEF p, n, c
    <3>3. DOMAIN stack = 1 .. n
      BY <1>1, LenProperties DEF n
    <3>4. QED
      BY <1>1, <3>1, <3>2, <3>3
  <2>3. QED
    BY <1>1, <2>1, <2>2 DEF Top
<1>3. /\ ledger \in Ledger /\ ledger' \in Ledger
      /\ ledger'.receipt = ledger.receipt /\ ledger'.status = ledger.status
      /\ ledger'.events = ledger.events
  BY TransferFields DEF TypeOK, SameSettlements
<1>4. AcceptsTerms(c.intent, c.amount, now)
  BY <1>1, TopFrameInv DEF FrameInv, Top
<1>5. ASSUME NEW t \in HonestTokens, NEW a \in Addresses
      PROVE  Excess(ledger', t, a) = InMotion(stack', n, t, a)
  <2> DEFINE flow == LegFlow(Leg(c, Top.pc), t, a)
  <2>1. ledger'.balance[t][a] = ledger.balance[t][a] + flow
    BY TransferMoves
  <2>2. NetFlows(ledger', t, a) = NetFlows(ledger, t, a)
    BY <1>3, SameNetFlows
  <2>3. /\ NetFlows(ledger, t, a) \in Int /\ ledger.balance[t][a] \in Int
        /\ InitialBalance[t][a] \in Int
    BY <1>3, ExcessTyped DEF BooksInv, Audited
  <2>4. flow \in Int /\ Progress(c, Top.pc, t, a) \in Int
    BY <1>1, LegFlowTyped, ProgressTyped
  <2>5. /\ Excess(Top.saved, t, a) \in Int
        /\ Excess(ledger, t, a) = Excess(Top.saved, t, a) + Progress(c, Top.pc, t, a)
    BY <1>1, TopBooks
  <2>6. Progress(c, p, t, a) = Progress(c, Top.pc, t, a) + flow
    BY <1>1, <1>4, ProgressAdvances
  <2>7. InMotion(stack', n, t, a) = Excess(Top.saved, t, a) + Progress(c, p, t, a)
    BY <1>1, <1>2 DEF InMotion
  <2> HIDE DEF flow, p, c, n
  <2>8. Excess(ledger', t, a) = Excess(ledger, t, a) + flow
    BY <2>1, <2>2, <2>3, <2>4 DEF Excess
  <2>9. QED
    BY <2>4, <2>5, <2>6, <2>7, <2>8
<1>6. Audited(ledger', stack', n)
  <2>1. EventsAgree(ledger')
    BY <1>3 DEF BooksInv, Audited, EventsAgree, Published
  <2>2. IsFiniteSet(FilledIn(ledger'))
    BY <1>3, SameNetFlows DEF BooksInv, Audited
  <2>3. \A k \in 1 .. n : ledger'.receipt[Hash[stack'[k].call.intent]] = NoReceipt
    BY <1>2, <1>3 DEF BooksInv, Audited
  <2>4. QED
    BY <2>1, <2>2, <2>3, <1>5 DEF Audited
<1>7. ASSUME NEW k \in 1 .. n PROVE Audited(stack'[k].saved, stack', k - 1)
  <2>1. k - 1 \in Nat /\ \A j \in 1 .. k - 1 : stack'[j] = stack[j]
    <3>1. \A j \in 1 .. k - 1 : j \in 1 .. n /\ j # n
      BY <1>1
    <3>2. QED
      BY <3>1, <1>2
  <2>2. Audited(stack[k].saved, stack, k - 1)
    BY DEF BooksInv
  <2>3. QED
    BY <2>1, <2>2, <1>2, AuditedFrames
<1>8. QED
  BY <1>2, <1>6, <1>7 DEF BooksInv

\* The events of a ledger after one more, of an order that had none of the kind.
LEMMA OneMoreEvent ==
  ASSUME NEW L \in Ledger, EventsAgree(L), NEW i \in Intents,
         NEW name \in {"IntentFilled", "IntentCancelled"}, NEW h, h = Hash[i],
         Published(L, name, h) = {},
         NEW M, M.events = Append(L.events, Event(name, i))
  PROVE  /\ \A k, l \in 1 .. Len(M.events) : M.events[k] = M.events[l] => k = l
         /\ Published(M, name, h) # {}
         /\ \A m, g : <<m, g>> # <<name, h>> =>
              (Published(M, m, g) # {} <=> Published(L, m, g) # {})
<1> DEFINE n == Len(L.events)
           e == Event(name, i)
<1>a. e = [name |-> name, intent_hash |-> h] /\ e \in Events
  BY HashAssumption DEF Event, Events, get_intent_hash
<1> HIDE DEF e
<1>1. /\ L.events \in Seq(Events) /\ n \in Nat
      /\ Len(M.events) = n + 1 /\ M.events[n + 1] = e
      /\ \A k \in 1 .. n : M.events[k] = L.events[k]
  <2>1. L.events \in Seq(Events)
    BY DEF Ledger
  <2>2. M.events = Append(L.events, e)
    BY DEF e
  <2>3. QED
    BY <1>a, <2>1, <2>2, AppendProperties, LenProperties
<1> HIDE DEF n
<1>2. \A k \in 1 .. n : L.events[k] # e
  BY <1>a DEF Published, n
<1>3. /\ \A k \in 1 .. n + 1 : k \in 1 .. n \/ k = n + 1
      /\ \A k \in 1 .. n : k \in 1 .. n + 1
      /\ n + 1 \in 1 .. n + 1
  BY <1>1
<1>4. \A k, l \in 1 .. Len(M.events) : M.events[k] = M.events[l] => k = l
  BY <1>1, <1>2, <1>3 DEF EventsAgree, n
<1>5. Published(M, name, h) # {}
  BY <1>a, <1>1, <1>3 DEF Published
<1>6. ASSUME NEW m, NEW g, <<m, g>> # <<name, h>>
      PROVE  Published(M, m, g) # {} <=> Published(L, m, g) # {}
  <2>1. [name |-> m, intent_hash |-> g] # e
    BY <1>a, <1>6
  <2>2. \A k \in 1 .. n + 1 :
          M.events[k] = [name |-> m, intent_hash |-> g] <=>
            k \in 1 .. n /\ L.events[k] = [name |-> m, intent_hash |-> g]
    <3> DEFINE d == [name |-> m, intent_hash |-> g]
    <3> HIDE DEF d
    <3>1. d # e
      BY <2>1 DEF d
    <3>2. n + 1 \notin 1 .. n
      BY <1>1
    <3>3. \A k \in 1 .. n + 1 : M.events[k] = d <=> k \in 1 .. n /\ L.events[k] = d
      BY <3>1, <3>2, <1>1, <1>3
    <3>4. QED
      BY <3>3 DEF d
  <2>3. QED
    BY <2>2, <1>1, <1>3 DEF Published, n
<1>7. QED
  BY <1>4, <1>5, <1>6

\* The receipt and the event of the innermost call account for what it moved.
LEMMA ReturnBooks ==
  ASSUME TypeOK, IInv, BooksInv, NoDoubleFillInFlight, execute_intent_returns
  PROVE  Audited(ledger', stack, Len(stack) - 1)
<1> DEFINE c == Top.call
           i == c.intent
           h == Hash[i]
           n == Len(stack)
<1>1. /\ stack # <<>> /\ n \in Nat \ {0} /\ n \in 1 .. n
      /\ c = stack[n].call /\ c \in Calls /\ i \in Intents /\ h \in Hashes
      /\ Top.pc = "receipt" /\ ledger \in Ledger /\ Top.saved \in Ledger
  BY TopTyped, CallTyped, ReceiptFields DEF execute_intent_returns, Top, TypeOK
<1>2. /\ ledger' \in Ledger
      /\ ledger'.status = ledger.status
      /\ ledger'.receipt = [ledger.receipt EXCEPT ![h] = ReceiptOf(c)]
      /\ ledger.receipt \in [Hashes -> FillReceipt \cup {NoReceipt}]
      /\ ledger'.balance = ledger.balance
      /\ ledger'.events = Append(ledger.events, Event("IntentFilled", i))
  BY ReceiptFields DEF TypeOK, Ledger
<1>3. /\ ReceiptOf(c) # NoReceipt
      /\ ReceiptOf(c).solver = c.solver /\ ReceiptOf(c).bought_amount = c.amount
  <2>1. ReceiptOf(c) \in FillReceipt
    BY <1>1, CallTyped DEF ReceiptOf, FillReceipt, get_intent_hash, TypeOK
  <2>2. QED
    BY <2>1, NoReceiptAssumption DEF ReceiptOf
<1>4. ledger.receipt[h] = NoReceipt
  BY <1>1 DEF BooksInv, Audited
<1>5. c.solver # i.trader
  BY <1>1, TopFrameInv DEF FrameInv
<1>6. \A k \in 1 .. n - 1 : k \in 1 .. n /\ k # n
  BY <1>1
<1> HIDE DEF c, i, h
<1>7. \A j \in Intents : Hash[j] \in Hashes /\ (j # i => Hash[j] # h)
  BY <1>1, HashAssumption DEF h
<1>8. EventsAgree(ledger')
  <2>1. EventsAgree(ledger)
    BY DEF BooksInv, Audited
  <2>2. /\ ledger \in Ledger /\ i \in Intents /\ h = Hash[i]
        /\ ledger'.events = Append(ledger.events, Event("IntentFilled", i))
    BY <1>1, <1>2 DEF h
  <2>3. Published(ledger, "IntentFilled", h) = {}
    BY <1>1, <1>4, <2>1 DEF EventsAgree
  <2>4. /\ \A k, l \in 1 .. Len(ledger'.events) : ledger'.events[k] = ledger'.events[l] => k = l
        /\ Published(ledger', "IntentFilled", h) # {}
        /\ \A m, g : <<m, g>> # <<"IntentFilled", h>> =>
             (Published(ledger', m, g) # {} <=> Published(ledger, m, g) # {})
    BY <2>1, <2>2, <2>3, OneMoreEvent
  <2>5. ASSUME NEW g \in Hashes
        PROVE  /\ ledger'.receipt[g] # NoReceipt <=> Published(ledger', "IntentFilled", g) # {}
               /\ ledger'.status[g] = "Cancelled" <=> Published(ledger', "IntentCancelled", g) # {}
    <3>1. ledger'.status[g] = "Cancelled" <=> Published(ledger', "IntentCancelled", g) # {}
      BY <2>1, <2>4, <1>2 DEF EventsAgree
    <3>2. CASE g = h
      BY <3>1, <3>2, <2>4, <1>1, <1>2, <1>3
    <3>3. CASE g # h
      <4>1. ledger'.receipt[g] = ledger.receipt[g]
        BY <3>3, <1>2
      <4>2. QED
        BY <3>1, <3>3, <4>1, <2>1, <2>4 DEF EventsAgree
    <3>4. QED
      BY <3>2, <3>3
  <2>6. QED
    BY <2>4, <2>5 DEF EventsAgree
<1>9. /\ i \notin FilledIn(ledger) /\ FilledIn(ledger') = FilledIn(ledger) \cup {i}
      /\ IsFiniteSet(FilledIn(ledger)) /\ IsFiniteSet(FilledIn(ledger'))
  <2>1. i \notin FilledIn(ledger)
    BY <1>4 DEF FilledIn, h
  <2>2. ASSUME NEW j \in Intents
        PROVE  ledger'.receipt[Hash[j]] # NoReceipt <=> ledger.receipt[Hash[j]] # NoReceipt \/ j = i
    <3>1. CASE j = i
      BY <3>1, <1>1, <1>2, <1>3 DEF h
    <3>2. CASE j # i
      BY <3>2, <1>2, <1>7
    <3>3. QED
      BY <3>1, <3>2
  <2>3. FilledIn(ledger') = FilledIn(ledger) \cup {i}
    BY <2>2, <1>1 DEF FilledIn
  <2>4. IsFiniteSet(FilledIn(ledger))
    BY DEF BooksInv, Audited
  <2>5. QED
    BY <2>1, <2>3, <2>4, FS_AddElement
<1>10. \A k \in 1 .. n - 1 : ledger'.receipt[Hash[stack[k].call.intent]] = NoReceipt
  <2> SUFFICES ASSUME NEW k \in 1 .. n - 1
               PROVE  ledger'.receipt[Hash[stack[k].call.intent]] = NoReceipt
    OBVIOUS
  <2>1. NonceKey(stack[k].call.intent) # NonceKey(stack[n].call.intent)
    BY <1>1, <1>6 DEF NoDoubleFillInFlight
  <2>2. stack[k].call.intent \in Intents /\ stack[k].call.intent # i
    <3>1. stack[k] \in Frame
      <4>1. stack \in Seq(Frame)
        BY DEF TypeOK
      <4>2. QED
        BY <4>1, <1>6, ElementOfSeq
    <3>2. stack[k].call \in Calls
      BY <3>1 DEF Frame
    <3>3. QED
      BY <3>2, <2>1, <1>1, CallTyped DEF i
  <2>3. ledger.receipt[Hash[stack[k].call.intent]] = NoReceipt
    BY <1>6 DEF BooksInv, Audited
  <2>4. QED
    BY <2>2, <2>3, <1>2, <1>7
<1>11. ASSUME NEW t \in HonestTokens, NEW a \in Addresses
       PROVE  Excess(ledger', t, a) = InMotion(stack, n - 1, t, a)
  <2> DEFINE f == [j \in FilledIn(ledger) |-> NetFlow(ledger, t, a, j)]
             g == [j \in FilledIn(ledger') |-> NetFlow(ledger', t, a, j)]
  <2>1. NetFlow(ledger', t, a, i) = Progress(c, "receipt", t, a)
    <3>1. ledger'.receipt[Hash[c.intent]] = ReceiptOf(c)
      BY <1>1, <1>2 DEF h, i
    <3>2. QED
      BY <3>1, <1>1, <1>3, <1>5, ProgressComplete DEF i
  <2>2. ASSUME NEW j \in FilledIn(ledger)
        PROVE  NetFlow(ledger', t, a, j) = NetFlow(ledger, t, a, j) /\ NetFlow(ledger, t, a, j) \in Int
    <3>1. j \in Intents /\ j # i
      BY <1>9 DEF FilledIn
    <3>2. ledger'.receipt[Hash[j]] = ledger.receipt[Hash[j]]
      BY <3>1, <1>2, <1>7
    <3>3. NetFlow(ledger', t, a, j) = NetFlow(ledger, t, a, j)
      BY <3>2 DEF NetFlow
    <3>4. NetFlow(ledger, t, a, j) \in Int
      BY <1>1, NetFlowTyped
    <3>5. QED
      BY <3>3, <3>4
  <2>3. Progress(c, "receipt", t, a) \in Int
    BY <1>1, ProgressTyped
  <2>4. /\ \A j \in FilledIn(ledger) : f[j] \in Int /\ g[j] = f[j]
        /\ g[i] = Progress(c, "receipt", t, a)
        /\ NetFlows(ledger, t, a) = SumFunctionOnSet(f, FilledIn(ledger))
        /\ NetFlows(ledger', t, a) = SumFunctionOnSet(g, FilledIn(ledger) \cup {i})
    BY <2>1, <2>2, <1>9 DEF NetFlows
  <2> HIDE DEF f, g
  <2>5. SumFunctionOnSet(g, FilledIn(ledger) \cup {i})
          = SumFunctionOnSet(f, FilledIn(ledger)) + g[i]
    BY <2>3, <2>4, <1>9, SumAdd
  <2>6. NetFlows(ledger', t, a) = NetFlows(ledger, t, a) + Progress(c, "receipt", t, a)
    BY <2>4, <2>5
  <2>7. /\ NetFlows(ledger, t, a) \in Int /\ ledger.balance[t][a] \in Int
        /\ InitialBalance[t][a] \in Int
    BY <1>1, <1>9, ExcessTyped
  <2>8. /\ Excess(Top.saved, t, a) \in Int
        /\ Excess(ledger, t, a) = Excess(Top.saved, t, a) + Progress(c, "receipt", t, a)
    BY <1>1, TopBooks DEF c
  <2>9. Excess(ledger', t, a) = Excess(ledger, t, a) - Progress(c, "receipt", t, a)
    BY <2>3, <2>6, <2>7, <1>2 DEF Excess
  <2>10. Excess(ledger', t, a) = Excess(Top.saved, t, a)
    BY <2>3, <2>8, <2>9
  <2>11. Excess(Top.saved, t, a) = InMotion(stack, n - 1, t, a)
    BY <1>1, TopBooks DEF Audited, Top
  <2>12. QED
    BY <2>10, <2>11
<1>12. QED
  BY <1>8, <1>9, <1>10, <1>11 DEF Audited

\* A cancellation publishes its event, and touches no receipt and no balance.
LEMMA CancelBooks ==
  ASSUME TypeOK, IInv, BooksInv, NEW i \in Intents, cancel_intent(i)
  PROVE  BooksInv'
<1> DEFINE h == Hash[i]
<1>1. /\ ledger \in Ledger /\ ledger.status \in [Hashes -> IntentStatus]
      /\ ledger.status[h] = "Active" /\ h \in Hashes
      /\ stack' = stack
  BY HashAssumption DEF cancel_intent, IsOpen, get_intent_hash, TypeOK, Ledger
<1>2. /\ ledger' \in Ledger
      /\ ledger'.status = [ledger.status EXCEPT ![h] = "Cancelled"]
      /\ ledger'.receipt = ledger.receipt
      /\ ledger'.balance = ledger.balance
      /\ ledger'.events = Append(ledger.events, Event("IntentCancelled", i))
  BY <1>1, CancelFields DEF cancel_intent
<1> HIDE DEF h
<1>3. Audited(ledger, stack, Len(stack))
  BY DEF BooksInv
<1>4. EventsAgree(ledger')
  <2>1. EventsAgree(ledger)
    BY <1>3 DEF Audited
  <2>2. /\ ledger \in Ledger /\ i \in Intents /\ h = Hash[i]
        /\ ledger'.events = Append(ledger.events, Event("IntentCancelled", i))
    BY <1>1, <1>2 DEF h
  <2>3. Published(ledger, "IntentCancelled", h) = {}
    BY <1>1, <2>1 DEF EventsAgree
  <2>4. /\ \A k, l \in 1 .. Len(ledger'.events) : ledger'.events[k] = ledger'.events[l] => k = l
        /\ Published(ledger', "IntentCancelled", h) # {}
        /\ \A m, g : <<m, g>> # <<"IntentCancelled", h>> =>
             (Published(ledger', m, g) # {} <=> Published(ledger, m, g) # {})
    BY <2>1, <2>2, <2>3, OneMoreEvent
  <2>5. ASSUME NEW g \in Hashes
        PROVE  /\ ledger'.receipt[g] # NoReceipt <=> Published(ledger', "IntentFilled", g) # {}
               /\ ledger'.status[g] = "Cancelled" <=> Published(ledger', "IntentCancelled", g) # {}
    <3>1. ledger'.receipt[g] # NoReceipt <=> Published(ledger', "IntentFilled", g) # {}
      BY <2>1, <2>4, <1>2 DEF EventsAgree
    <3>2. CASE g = h
      BY <3>1, <3>2, <2>4, <1>1, <1>2
    <3>3. CASE g # h
      <4>1. ledger'.status[g] = ledger.status[g]
        BY <3>3, <1>1, <1>2
      <4>2. QED
        BY <3>1, <3>3, <4>1, <2>1, <2>4 DEF EventsAgree
    <3>4. QED
      BY <3>2, <3>3
  <2>6. QED
    BY <2>4, <2>5 DEF EventsAgree
<1>5. /\ FilledIn(ledger') = FilledIn(ledger)
      /\ \A t, a : Excess(ledger', t, a) = Excess(ledger, t, a)
  BY <1>2, SameNetFlows DEF Excess
<1>6. Audited(ledger', stack, Len(stack))
  BY <1>2, <1>3, <1>4, <1>5 DEF Audited
<1>7. QED
  BY <1>1, <1>6 DEF BooksInv

\* Leaving the innermost call for the ledger `ledger''.
LEMMA PoppedBooks ==
  ASSUME TypeOK, BooksInv, stack # <<>>, stack' = Popped,
         Audited(ledger', stack, Len(stack) - 1)
  PROVE  BooksInv'
<1>1. PICK n \in Nat : n = Len(stack) - 1
  BY TopTyped
<1>2. Len(stack') = n /\ \A k \in 1 .. n : stack'[k] = stack[k] /\ k \in 1 .. Len(stack)
  BY <1>1, PoppedFrames, TopTyped
<1>3. Audited(ledger', stack', n)
  BY <1>1, <1>2, AuditedFrames
<1>4. ASSUME NEW k \in 1 .. n PROVE Audited(stack'[k].saved, stack', k - 1)
  <2>1. k - 1 \in Nat /\ \A j \in 1 .. k - 1 : stack'[j] = stack[j]
    BY <1>2
  <2>2. Audited(stack[k].saved, stack, k - 1)
    BY <1>2 DEF BooksInv
  <2>3. QED
    BY <2>1, <2>2, <1>2, AuditedFrames
<1>5. QED
  BY <1>2, <1>3, <1>4 DEF BooksInv

LEMMA StepBooks ==
  TypeOK /\ IInv /\ NoDoubleFillInFlight /\ BooksInv /\ [Next]_vars => BooksInv'
<1> SUFFICES ASSUME TypeOK, IInv, NoDoubleFillInFlight, BooksInv, [Next]_vars
             PROVE  BooksInv'
  OBVIOUS
<1>1. CASE stack' = stack /\ SameBooks(ledger, ledger')
  BY <1>1, AuditedLedger DEF BooksInv
<1>2. CASE SignFill \/ SignCancel \/ EntryExpires
  <2>1. stack' = stack
    BY <1>2 DEF SignFill, SignCancel, EntryExpires
  <2>2. QED
    BY <1>1, <1>2, <2>1, EntryFields DEF SameSettlements, SameBooks
<1>3. CASE LedgerCloses \/ UNCHANGED vars
  BY <1>1, <1>3 DEF LedgerCloses, vars, SameBooks
<1>4. CASE \E c \in Calls : execute_intent(c)
  BY <1>4, EnterBooks
<1>5. CASE TransferReturns
  BY <1>5, TransferBooks
<1>6. CASE TransferFails
  <2>1. /\ stack # <<>> /\ stack' = Popped /\ ledger' = stack[Len(stack)].saved
    BY <1>6 DEF TransferFails, InTransfer, Top
  <2>2. QED
    BY <2>1, TopBooks, PoppedBooks
<1>7. CASE TransactionAborts
  <2>1. /\ stack # <<>> /\ stack' = <<>> /\ Len(stack') = 0 /\ ledger' = stack[1].saved
    BY <1>7, EmptySeq DEF TransactionAborts
  <2>2. Audited(ledger', stack, 0)
    BY <2>1, TopBooks
  <2>3. Audited(ledger', stack', 0)
    BY <2>2, AuditedFrames
  <2>4. QED
    BY <2>1, <2>3 DEF BooksInv
<1>8. CASE execute_intent_returns
  <2>1. stack # <<>> /\ stack' = Popped
    BY <1>8 DEF execute_intent_returns
  <2>2. QED
    BY <1>8, <2>1, ReturnBooks, PoppedBooks
<1>9. CASE \E i \in Intents : cancel_intent(i)
  BY <1>9, CancelBooks
<1>10. QED
  BY <1>2, <1>3, <1>4, <1>5, <1>6, <1>7, <1>8, <1>9 DEF Next

\* At every moment the books are right on the ledger and on every ledger a
\* failing call would fall back to.
THEOREM RouterBooks == Spec => []BooksInv
<1>1. QED
  BY InitBooks, StepBooks, RouterInvariant, RouterNoDoubleFill, PTL DEF Spec

\* Between transactions every honest balance is the initial one plus the flows
\* of the receipts, whatever failed, was undone or called back in between.
THEOREM RouterBalancesFollowReceipts == Spec => []BalancesFollowReceipts
<1>1. TypeOK /\ BooksInv => BalancesFollowReceipts
  <2> SUFFICES ASSUME TypeOK, BooksInv, stack = <<>>,
                      NEW t \in HonestTokens, NEW a \in Addresses
               PROVE  ledger.balance[t][a] = InitialBalance[t][a] + NetFlows(ledger, t, a)
    BY DEF BalancesFollowReceipts
  <2>1. Audited(ledger, stack, 0)
    <3>1. Len(stack) = 0
      BY EmptySeq
    <3>2. QED
      BY <3>1 DEF BooksInv
  <2>2. Excess(ledger, t, a) = 0 /\ IsFiniteSet(FilledIn(ledger))
    BY <2>1 DEF Audited, InMotion
  <2>3. /\ NetFlows(ledger, t, a) \in Int /\ ledger.balance[t][a] \in Int
        /\ InitialBalance[t][a] \in Int
    BY <2>2, ExcessTyped DEF TypeOK
  <2>4. QED
    BY <2>2, <2>3 DEF Excess
<1>2. QED
  BY <1>1, RouterBooks, RouterInvariant, PTL

\* Between transactions each settled intent has one event, of its kind.
THEOREM RouterEventsMatchStatus == Spec => []EventsMatchStatus
<1>1. TypeOK /\ BooksInv /\ ReceiptsMatchStatus => EventsMatchStatus
  <2> SUFFICES ASSUME TypeOK, BooksInv, ReceiptsMatchStatus, stack = <<>>, NEW h \in Hashes
               PROVE  /\ Cardinality(Published(ledger, "IntentFilled", h))
                           = IF ledger.status[h] = "Filled" THEN 1 ELSE 0
                      /\ Cardinality(Published(ledger, "IntentCancelled", h))
                           = IF ledger.status[h] = "Cancelled" THEN 1 ELSE 0
    BY DEF EventsMatchStatus, Published
  <2>1. EventsAgree(ledger)
    BY DEF BooksInv, Audited
  <2>2. ASSUME NEW name
        PROVE  Cardinality(Published(ledger, name, h))
                 = IF Published(ledger, name, h) = {} THEN 0 ELSE 1
    <3>1. CASE Published(ledger, name, h) = {}
      BY <3>1, FS_EmptySet
    <3>2. CASE Published(ledger, name, h) # {}
      <4>1. PICK k : k \in Published(ledger, name, h)
        BY <3>2
      <4>2. Published(ledger, name, h) = {k}
        BY <4>1, <2>1 DEF EventsAgree, Published
      <4>3. QED
        BY <4>2, FS_Singleton
    <3>3. QED
      BY <3>1, <3>2
  <2>3. ledger.status[h] = "Filled" <=> ledger.receipt[h] # NoReceipt
    BY DEF ReceiptsMatchStatus
  <2>4. QED
    BY <2>1, <2>2, <2>3 DEF EventsAgree
<1>2. QED
  BY <1>1, RouterBooks, RouterInvariant, RouterReceiptsMatchStatus, PTL
=============================================================================
