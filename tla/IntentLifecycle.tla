-------------------------- MODULE IntentLifecycle --------------------------
(***************************************************************************)
(* What a settlement contract promises about orders, with nothing said of  *)
(* how: an order is open until a transaction fills or cancels it, that is  *)
(* final, and of the orders that share a key at most one is ever settled.  *)
(* One transaction may settle several orders at once.                      *)
(***************************************************************************)
EXTENDS Naturals

CONSTANTS
  Orders,
  Key,                \* a function on Orders: what can be spent only once
  Fills,              \* the ways an order can be filled
  Acceptable(_, _, _) \* of an order, a fill and the time of the fill

VARIABLES
  outcome,            \* of each order
  clock

Open      == [status |-> "Active"]
Withdrawn == [status |-> "Cancelled"]
FilledBy(f) == [status |-> "Filled", fill |-> f]

Outcomes == {Open, Withdrawn} \cup {FilledBy(f) : f \in Fills}

Init == outcome = [o \in Orders |-> Open] /\ clock = 0

\* The orders a step settles.
Settled == {o \in Orders : outcome'[o] # outcome[o]}

Settle ==
  /\ outcome' \in [Orders -> Outcomes]
  /\ \A o \in Settled :
       /\ \A p \in Orders : Key[p] = Key[o] => outcome[p] = Open
       /\ \A p \in Settled : Key[p] = Key[o] => p = o
       /\ \/ outcome'[o] = Withdrawn
          \/ \E f \in Fills : outcome'[o] = FilledBy(f) /\ Acceptable(o, f, clock)
  /\ UNCHANGED clock

Tick == clock' = clock + 1 /\ UNCHANGED outcome

Next == Settle \/ Tick

Spec == Init /\ [][Next]_<<outcome, clock>>
=============================================================================
