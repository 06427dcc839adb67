--------------------------- MODULE RendezvousKeys ---------------------------
(***************************************************************************)
(* The rendezvous: transactions and the keys that authorize them, the      *)
(* enrollment of one key in the object that holds it, and the admission of *)
(* the requests that reach either.  The three are modelled with tables of  *)
(* their own and take their own steps.                                     *)
(***************************************************************************)
EXTENDS Rendezvous

CONSTANTS
  Issues, Enrolls, Rotations, Attested, OfferLife, EnrolledLife, PolicyEnd,
  MaxAdvances, MaxChanges, MaxLosses, MaxSecond

CONSTANTS
  Asking, AsksOf, Ips, Cleaner, LaneLimit, IdentityLimit,
  RegularMinute, TotalMinute, RegularDay, TotalDay, Identities,
  TransactionLimit, KeyLimit, CallLimit, PerIdentity, BudgetRows, IndexCapacity,
  DayLength, MaxDrops, MaxMinute

VARIABLES offer, slot, policy, verifying, enrollments, second, lost, installed, forgotten
VARIABLES adm, bud, idx, children, objects, requests, enabled, minute, drops

E == INSTANCE RendezvousEnrollment WITH
  Bodies <- Attested, ChallengeLife <- OfferLife, KeyLife <- EnrolledLife,
  MaxCounter <- MaxAdvances, MaxRestarts <- MaxLosses, MaxTime <- MaxSecond,
  op <- offer, row <- slot, env <- policy, busy <- verifying,
  calls <- enrollments, now <- second, restarts <- lost, ended <- forgotten

A == INSTANCE RendezvousAdmission WITH
  Requests <- Asking, MaxRestarts <- MaxDrops, MaxTime <- MaxMinute,
  busy <- objects, rq <- requests, now <- minute, restarts <- drops

\* Of the enrollment: it takes effect once, and may be asked for again.
OneEnrollment == E!OneEnrollment

\* Of the enrollment: a row that is written back loses no counter and no deletion.
NeverUndone == E!NeverUndone

\* Of the admission: what exists was paid for, and payments keep the limits.
WithinMeans == A!WithinMeans

\* Of the admission: the reserve of the limits is for requests that end a
\* transaction.
EndsHaveReserve == A!EndsHaveReserve
=============================================================================
