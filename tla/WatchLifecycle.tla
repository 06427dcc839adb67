--------------------------- MODULE WatchLifecycle ---------------------------
(***************************************************************************)
(* The lifecycle of a Watch: its preference and dispatches with the actor  *)
(* behind them, and the enrollment of the issuer, the pairing and the      *)
(* recovery that come before.  The two take their own steps: a pairing is  *)
(* an action of the preference's module, a reserved preference moves the   *)
(* baseline of the enrollment.                                             *)
(***************************************************************************)
EXTENDS WatchRestore

CONSTANTS
  Calling, AsksOf, Operators, IntentOf, Recoveries, GrantOf, Receivers, Incarnations,
  Keys, Operations, Epochs, EnrollmentCapacity, MaxClock

VARIABLES issuer, challenges, rows, used, receipts, recovered, grants, baseline, pairs, clock, committed

P == INSTANCE WatchPairing WITH Requests <- Calling, MaxTime <- MaxClock, rq <- pairs, now <- clock

\* Of the pairing: receipts are honest, one by one and as a chain.
ReceiptsHonest == P!ReceiptsHonest

\* Of the enrollment: an issuer is followed when it is out of use, by the next.
IssuerSuccession == P!IssuerSuccession
=============================================================================
