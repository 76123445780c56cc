------------------------------ MODULE Watcher ------------------------------
(***************************************************************************)
(* IntentWatcher, packages/solver-bot/src/watcher.ts: the event cursor,    *)
(* the feed, and the set of intents already handed out.  The operators are *)
(* what each awaited call does when it succeeds; SolverBot runs them.      *)
(*                                                                         *)
(* The cursor is kept as the number of closed ledgers from it on: 1 when   *)
(* it is the latest ledger, 0 when it is the one after.  Retention + 1     *)
(* stands for every cursor older than the retained ledgers.                *)
(***************************************************************************)
EXTENDS Network, Config, SequencesExt

CONSTANTS
  EventLimit,   \* events per getEvents response, 100
  NoCursor      \* cursor 0: not started yet

ASSUME WatcherAssumption ==
  /\ EventLimit \in Nat \ {0}
  /\ NoCursor \notin Int

VARIABLES
  feed,     \* what INTENT_FEED_URL serves, oldest first
  lag,      \* the cursor
  seen,     \* hashes already returned by a poll
  logged    \* history: how often each event was logged by this process

watcher == <<lag, seen, logged>>

WatcherTypeOK ==
  /\ feed \in Seq(Intents)
  /\ lag \in (0 .. Retention + 1) \cup {NoCursor}
  /\ seen \subseteq Intents
  /\ logged \in [Intents -> Nat]

\* Where the cursor starts.  A START_LEDGER that parseInt makes NaN of is never a
\* ledger; any other names one the model does not date, up to the next to close.
StartLags(startLedger) ==
  CASE startLedger \in {Undefined, 0} -> {NoCursor}
    [] startLedger = NaN             -> {Retention + 1}
    [] OTHER                         -> 0 .. Retention + 1

\* A process starts with nothing remembered.
FreshWatcher(l, s, n, startLedger) ==
  l \in StartLags(startLedger) /\ s = {} /\ n = [i \in Intents |-> 0]

\* The chain moves on under the cursor.
CursorAges ==
  lag' = IF lag = NoCursor \/ lag = Retention + 1 THEN lag ELSE lag + 1

\* getLatestLedger, when no cursor was configured.
startCursor == lag = NoCursor /\ lag' = 1

\* getEvents refuses a start ledger it does not retain, and one that has not
\* closed yet.
CursorInRange == lag # NoCursor /\ lag \in 1 .. Retention

Retained == (Retention - lag + 1) .. Retention

LedgerOf(i) == CHOOSE k \in 1 .. Retention : i \in window[k]

\* The first events from the cursor on, as many as fit in a response.
Response(events) ==
  LET all == UNION {window[k] : k \in Retained} IN
  /\ events \subseteq all
  /\ events = all \/ Cardinality(events) = EventLimit
  /\ \A i \in events, j \in all \ events : LedgerOf(i) <= LedgerOf(j)

CursorRepeats(events) ==    \* mutant: the latest ledger is read again
  IF events = {} THEN lag ELSE 1

CursorSkips(events) ==      \* mutant: one ledger too far
  IF events = {} THEN lag ELSE 0 - 1

\* The cursor jumps past the latest ledger, whatever the response left out.
NextCursor(events) == IF events = {} THEN lag ELSE 0

pollEvents ==
  \E events \in SUBSET Intents :
    /\ Response(events)
    /\ lag' = NextCursor(events)
    /\ logged' = [i \in Intents |-> IF i \in events THEN logged[i] + 1 ELSE logged[i]]

EverythingListed(entries) ==    \* mutant: nothing is remembered
  entries

\* What of the feed was never returned before, each hash once.
Unseen(entries) ==
  FoldLeft(LAMBDA new, i : IF i \in seen \cup ToSet(new) THEN new ELSE Append(new, i),
           <<>>, entries)
=============================================================================
