--------------------------- MODULE MCWatchMoment ---------------------------
\* Instances of WatchMoment for TLC.
EXTENDS WatchMoment, TLC

CONSTANTS e1, e2, e3, k1, k2, k3, p1, p2, p3, d1, d2, s1, s2

Symmetric == Permutations(Workers)

\* The bound of the retries: nobody crashes, is refused or is disabled, and
\* nothing is under way once the clock stepped back (a state that is otherwise
\* gets checked, and is not continued).
Undisturbed ==
  /\ regress > 0 => \A w \in Workers : inv[w].pc \in {"idle", "done"}
  /\ \A w \in Workers : /\ inv[w].pc # "crashed"
                        /\ inv[w].pc = "done" => inv[w].out # "refused"
  /\ \A d \in Recipients : reg[d].active

(***************************************************************************)
(* The run of the retries: what renewals of the token and the clock can do *)
(* to a single operation.                                                  *)
(***************************************************************************)
OneOperationOf == (e1 :> k1)
OnePublicationOf == (e1 :> p1)
OneRecipientOf == (e1 :> d1)
OneScopeOf == (e1 :> s1)
OneExpiry == (e1 :> 4)

(***************************************************************************)
(* The crowd: three moments of two Watches in two installations.           *)
(***************************************************************************)
CrowdOperationOf == (e1 :> k1) @@ (e2 :> k2) @@ (e3 :> k3)
CrowdPublicationOf == (e1 :> p1) @@ (e2 :> p2) @@ (e3 :> p3)
CrowdRecipientOf == (e1 :> d1) @@ (e2 :> d1) @@ (e3 :> d2)
CrowdScopeOf == (e1 :> s1) @@ (e2 :> s1) @@ (e3 :> s2)

(***************************************************************************)
(* The run of the races: two signed events of the same moment, so one      *)
(* operation key and two publications.                                     *)
(***************************************************************************)
MomentOperationOf == (e1 :> k1) @@ (e2 :> k1)
MomentPublicationOf == (e1 :> p1) @@ (e2 :> p2)
PairRecipientOf == (e1 :> d1) @@ (e2 :> d1)
PairScopeOf == (e1 :> s1) @@ (e2 :> s1)
PairExpiry == (e1 :> 1) @@ (e2 :> 2)

(***************************************************************************)
(* The run of the liveness: two moments under one event id, so two         *)
(* operation keys and one publication.                                     *)
(***************************************************************************)
EventIdOperationOf == (e1 :> k1) @@ (e2 :> k2)
EventIdPublicationOf == (e1 :> p1) @@ (e2 :> p1)
=============================================================================
