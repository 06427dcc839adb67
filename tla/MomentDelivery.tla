--------------------------- MODULE MomentDelivery ---------------------------
(***************************************************************************)
(* What the moment transport promises its caller, without rows, leases or  *)
(* clocks: each operation is tried a bounded number of times, one try at a *)
(* time, is delivered at most once, and once it is closed (cancelled,      *)
(* refused or delivered) it is never tried again.                          *)
(***************************************************************************)
EXTENDS Naturals

CONSTANTS Operations, MaxTries

VARIABLES tries, outcome

Init ==
  /\ tries = [k \in Operations |-> 0]
  /\ outcome = [k \in Operations |-> "open"]

Try(k) ==
  /\ outcome[k] = "open" /\ tries[k] < MaxTries
  /\ tries' = [tries EXCEPT ![k] = @ + 1]
  /\ outcome' = [outcome EXCEPT ![k] = "trying"]

\* "open" again: the receiver was too busy to take the delivery.
Answer(k) ==
  /\ outcome[k] = "trying"
  /\ \E o \in {"delivered", "closed", "open"} :
       outcome' = [outcome EXCEPT ![k] = o]
  /\ UNCHANGED tries

Close(k) ==
  /\ outcome[k] = "open"
  /\ outcome' = [outcome EXCEPT ![k] = "closed"]
  /\ UNCHANGED tries

Next == \E k \in Operations : Try(k) \/ Answer(k) \/ Close(k)

Spec == Init /\ [][Next]_<<tries, outcome>>
=============================================================================
