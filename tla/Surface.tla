------------------------------- MODULE Surface -------------------------------
(***************************************************************************)
(* The surface push service (src/src/surface-push): the pushes of a        *)
(* delegation, the enrollment that makes and withdraws delegations, and    *)
(* the journal that keeps the native proofs.  The three share no table, so *)
(* each has its own variables and its own steps.                           *)
(***************************************************************************)
EXTENDS SurfacePush

CONSTANTS
  Requests, AsksOf, Operators, Auths, Intents, IntentOf, LedgerOps, Delegations, MaxClock,
  Journals, Jobs, ScopeOf, Nonces, Keys, Retirements, Claims, MaxCounter

VARIABLES
  operator, auths, ledger, delegations, rq, clock,
  jobs, claims, nonces, counters, held, poisoned, shut, drawn

E == INSTANCE SurfaceEnrollment WITH Ledger <- LedgerOps, MaxTime <- MaxClock, now <- clock
J == INSTANCE NativeProofJournal

\* Of the enrollment: an authorization is spent once, and what it stands for is
\* told alike by the tables.
SingleUse == E!SingleUse

\* Of the enrollment: nothing under way undoes a revocation or a withdrawal.
RevocationHolds == E!RevocationHolds

\* Of the journal: jobs, claims, nonces and counters tell one story.
OneStory == J!OneStory

\* Of the journal: a counter moves with one verification, and forward.
CounterPerVerification == J!CounterPerVerification
=============================================================================
