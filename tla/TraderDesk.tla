---------------------------- MODULE TraderDesk ----------------------------
(***************************************************************************)
(* An intent's way from the trader's program to the router's storage, and  *)
(* back as the status the SDK client reads.                                *)
(*                                                                         *)
(* The program builds intents (IntentBuilder), signs some and publishes    *)
(* them as JSON; solvers fill what they read from the feed, at exactly     *)
(* min_buy_amount, and the trader cancels.  A transaction is one step here *)
(* (the module Router takes it apart): what matters is the entries it      *)
(* reads and writes, how long they live (Storage), and that a ledger may   *)
(* archive them meanwhile.  One ledger closes per unit of ledger time.     *)
(***************************************************************************)
EXTENDS IntentBuilder, Storage

CONSTANT
  MaxKeys    \* bound on nonce keys spent; different keys share no entry

ASSUME DeskAssumption == MaxKeys \in Nat

VARIABLES
  feed,      \* what was published: the JSON and the hash that was signed
  settled,   \* history: what execute_intent and cancel_intent settled
  told       \* history: the final statuses the client was told

chain == <<entries, ledger, settled>>
vars  == <<program, feed, chain, told>>

Statuses == {"Active", "Filled", "Cancelled"}

TypeOK ==
  /\ BuilderTypeOK
  /\ \A p \in feed : \A f \in Fields : p.json[f].form \in {"string", "number"}
  /\ ledger \in 0 .. MaxLedger
  /\ \A k \in DOMAIN entries : entries[k].until \in Int
  /\ \A s \in settled : s.status \in Statuses \ {"Active"} /\ s.at \in 0 .. ledger
  /\ \A t \in told : t.status \in Statuses

Init ==
  /\ BuilderInit
  /\ StorageInit
  /\ feed = {} /\ settled = {} /\ told = {}

\* The trader's program; it stops building once it has published.
Builds ==
  /\ feed = {}
  /\ BuilderStep
  /\ UNCHANGED <<feed, chain, told>>

\* The program signs and publishes some of what it built, and ends; what it
\* built is looked at no more.  Hashing throws for an intent that cannot be
\* encoded.
Publish ==
  /\ feed = {}
  /\ \E chosen \in SUBSET built \ {{}} :
       /\ \A b \in chosen : Encodable(b.intent)
       /\ feed' = {[json |-> serializeIntent(b.intent), signed |-> hashIntent(b.intent)] :
                     b \in chosen}
  /\ builder' = NewBuilder /\ torn' = FALSE /\ given' = FALSE /\ built' = {} /\ ms' = 0
  /\ UNCHANGED <<chain, told>>

-----------------------------------------------------------------------------
(* The router.  An intent is named by its encoding, which is its hash.     *)

\* lib.rs:129-134, 185-190
IsOpen(i) ==
  /\ "Active" \in get_intent_status(i)
  /\ FALSE \in is_nonce_used(i.trader, i.nonce)

WithinKeys(i) ==
  Cardinality({s.key : s \in settled} \cup {<<i.trader, i.nonce>>}) <= MaxKeys

Settles(i, status) ==
  settled' = settled \cup
    {[key |-> <<i.trader, i.nonce>>, hash |-> i, status |-> status, at |-> ledger]}

\* Both functions commit the status and the nonce together.
Spent(i, status) ==
  set_nonce_used(set_intent_status(entries, i, status), i.trader, i.nonce)

FillReceipt(i) == [bought_amount |-> i.min_buy_amount, timestamp |-> ledger]

\* A solver fills what it read; the trader's signature covers one encoding.
execute_intent(p) ==
  LET i == hashIntent(deserializeIntent(p.json)) IN
  /\ i = p.signed
  /\ AcceptsTerms(i, i.min_buy_amount, ledger)
  /\ IsOpen(i) /\ WithinKeys(i)
  /\ entries' = set_fill_receipt(Spent(i, "Filled"), i, FillReceipt(i))
  /\ Settles(i, "Filled")
  /\ UNCHANGED <<program, feed, ledger, told>>

cancel_intent(i) ==
  /\ IsOpen(i) /\ WithinKeys(i)
  /\ entries' = Spent(i, "Cancelled")
  /\ Settles(i, "Cancelled")
  /\ UNCHANGED <<program, feed, ledger, told>>

-----------------------------------------------------------------------------
(* The client's reads.                                                     *)

\* The simulated get_intent_status of the intent's local hash.
simulateRead(i) == Simulates(IntentStatusKey(i), "Active")

\* Active is not remembered: it may always change.
getIntentStatus(i) ==
  /\ simulateRead(i) # "Active"
  /\ told' = told \cup {[hash |-> i, status |-> simulateRead(i)]}
  /\ UNCHANGED <<program, feed, chain>>

Receipt(i) == get_fill_receipt(i) /\ UNCHANGED <<program, feed, settled, told>>

Storing ==
  \/ \E k \in DOMAIN entries : Restore(k)
  \/ feed # {} /\ LedgerCloses

Next ==
  \/ Builds
  \/ Publish
  \/ \E p \in feed :
       \/ execute_intent(p)
       \/ cancel_intent(p.signed)
       \/ getIntentStatus(p.signed)
       \/ Receipt(p.signed)
  \/ Storing /\ UNCHANGED <<program, feed, settled, told>>

Spec == Init /\ [][Next]_vars

-----------------------------------------------------------------------------
\* A nonce settles one intent, once: however many intents were built with it,
\* and whether or not the entries that guard it were archived meanwhile.
KeySettledOnce == \A s, t \in settled : s.key = t.key => s = t

\* docs/06-stellar-integration.md:23: "Fill state and the replay guard survive
\* archival."  What the client was once told of a settled intent it is told
\* whenever it asks again.
ToldIsFinal == \A t \in told : simulateRead(t.hash) = t.status

\* docs/06-stellar-integration.md:23: a settlement keeps its status, its nonce
\* and its receipt live for the 30 days of the threshold at least, whatever
\* life the network gives a new entry.
SettlementOutlivesThreshold ==
  \A s \in settled :
    /\ entries[IntentStatusKey(s.hash)].until >= s.at + TTL_THRESHOLD
    /\ entries[UsedNonceKey(s.key[1], s.key[2])].until >= s.at + TTL_THRESHOLD
    /\ s.status = "Filled" =>
         entries[FillReceiptKey(s.hash)].until >= s.at + TTL_THRESHOLD
=============================================================================
