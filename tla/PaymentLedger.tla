---------------------------- MODULE PaymentLedger ----------------------------
(***************************************************************************)
(* What billing promises of one subscription, whatever the handlers, the   *)
(* batch and the gateway do: orders are opened one at a time, and only     *)
(* when no paid time is left; an open order is settled exactly once; and a *)
(* payment always buys time, so that the end of the paid time only moves   *)
(* forward and never reaches further than one period past what was due.    *)
(***************************************************************************)
EXTENDS Integers

CONSTANTS
  Orders,   \* names of purchases and renewals
  Period,   \* what one payment buys
  Skew      \* how far ahead of our clock an approval may be dated

VARIABLES
  clock,      \* the time
  state,      \* of every order: "new", "open", "paid" or "void"
  paidUntil   \* end of the paid time, 0 before the first payment

ledger == <<clock, state, paidUntil>>

OpenOrders == {o \in Orders : state[o] = "open"}

Init ==
  /\ clock = 1
  /\ state = [o \in Orders |-> "new"]
  /\ paidUntil = 0

Tick ==
  /\ clock' = clock + 1
  /\ UNCHANGED <<state, paidUntil>>

Open(o) ==
  /\ state[o] = "new"
  /\ OpenOrders = {}
  /\ paidUntil <= clock
  /\ state' = [state EXCEPT ![o] = "open"]
  /\ UNCHANGED <<clock, paidUntil>>

Pay(o) ==
  /\ state[o] = "open"
  /\ state' = [state EXCEPT ![o] = "paid"]
  /\ paidUntil' \in Nat
  /\ paidUntil' > paidUntil
  /\ paidUntil' <= clock + Skew + Period
  /\ UNCHANGED clock

Void(o) ==
  /\ state[o] = "open"
  /\ state' = [state EXCEPT ![o] = "void"]
  /\ UNCHANGED <<clock, paidUntil>>

Next == Tick \/ \E o \in Orders : Open(o) \/ Pay(o) \/ Void(o)

Spec == Init /\ [][Next]_ledger

=============================================================================
