------------------------------ MODULE Storage ------------------------------
(***************************************************************************)
(* The router's persistent storage, contracts/router/src/storage.rs: the   *)
(* entries under its keys and the ledger until which each one is live.     *)
(*                                                                         *)
(* An entry that is past that ledger is archived.  The host does not hide  *)
(* a persistent entry then: a transaction that needs it is refused until   *)
(* the entry is restored, which anybody may do, and a simulation answers   *)
(* as if it had been.                                                      *)
(***************************************************************************)
EXTENDS Integers

CONSTANTS
  TTL_THRESHOLD,    \* 30 days of ledgers
  TTL_EXTEND_TO,    \* 90 days of ledgers
  MinTtl,           \* what the network gives a new or a restored entry
  MaxLedger         \* bound on the ledger

ASSUME TtlAssumption ==
  /\ TTL_THRESHOLD \in Nat /\ TTL_EXTEND_TO \in Nat /\ MinTtl \in Nat
  /\ TTL_THRESHOLD <= TTL_EXTEND_TO
  /\ MaxLedger \in Nat

VARIABLES
  entries,    \* from the keys in use to values and live-until ledgers
  ledger      \* the ledger that is closing

IntentStatusKey(hash)       == <<"IntentStatus", hash>>
FillReceiptKey(hash)        == <<"FillReceipt", hash>>
UsedNonceKey(trader, nonce) == <<"UsedNonce", trader, nonce>>

StorageInit == entries = [k \in {} |-> 0] /\ ledger = 0

Exists(key)   == key \in DOMAIN entries
Live(key)     == Exists(key) /\ entries[key].until >= ledger
Archived(key) == Exists(key) /\ entries[key].until < ledger

-----------------------------------------------------------------------------
(* What the host does with an entry.                                       *)

AsTemporary(key) == Live(key)   \* mutant of Retained: temporary()

\* The entries are written with persistent(): the host keeps them when their
\* time is up.
Retained(key) == Exists(key)

\* What a transaction may read under a key: nothing while it is archived.
Reads(key, default) ==
  IF ~Retained(key) THEN {default}
  ELSE IF Archived(key) THEN {} ELSE {entries[key].value}

\* What a simulation reads.
Simulates(key, default) == IF Retained(key) THEN entries[key].value ELSE default

\* A write leaves the life of an entry that exists alone.
set(e, key, value) ==
  [k \in DOMAIN e \cup {key} |->
     IF k = key
       THEN [value |-> value,
             until |-> IF key \in DOMAIN e THEN e[key].until ELSE ledger + MinTtl]
       ELSE e[k]]

extend_ttl(e, key) ==
  IF /\ e[key].until - ledger <= TTL_THRESHOLD
     /\ e[key].until < ledger + TTL_EXTEND_TO
    THEN [e EXCEPT ![key].until = ledger + TTL_EXTEND_TO] ELSE e

\* Anybody restores an archived entry.
Restore(key) ==
  /\ Archived(key)
  /\ entries' = [entries EXCEPT ![key].until = ledger + MinTtl]
  /\ UNCHANGED ledger

LedgerCloses ==
  /\ ledger < MaxLedger
  /\ ledger' = ledger + 1
  /\ UNCHANGED entries

-----------------------------------------------------------------------------
(* The functions of storage.rs.                                            *)

get_intent_status(hash) == Reads(IntentStatusKey(hash), "Active")

is_nonce_used(trader, nonce) == Reads(UsedNonceKey(trader, nonce), FALSE)

set_intent_status(e, hash, status) ==
  LET key == IntentStatusKey(hash) IN extend_ttl(set(e, key, status), key)

set_fill_receipt(e, hash, receipt) ==
  LET key == FillReceiptKey(hash) IN extend_ttl(set(e, key, receipt), key)

set_nonce_briefly(e, trader, nonce) == \* mutant: the entry is not extended
  set(e, UsedNonceKey(trader, nonce), TRUE)

set_nonce_used(e, trader, nonce) ==
  LET key == UsedNonceKey(trader, nonce) IN extend_ttl(set(e, key, TRUE), key)

\* Sent as a transaction, the read of a receipt extends it, and it alone.
get_fill_receipt(hash) ==
  /\ Live(FillReceiptKey(hash))
  /\ entries' = extend_ttl(entries, FillReceiptKey(hash))
  /\ UNCHANGED ledger
=============================================================================
