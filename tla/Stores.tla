-------------------------------- MODULE Stores --------------------------------
(***************************************************************************)
(* The three stores of the coordinator: the principal registry             *)
(* (src/coordinator/worker-do), the installation registry                  *)
(* (src/coordinator/installation-registry) and the file of the push        *)
(* coordinator (src/coordinator/src/djc_push_coordinator).  They share no  *)
(* table, so each has its own variables and its own steps.                 *)
(***************************************************************************)
EXTENDS PrincipalRegistry

CONSTANTS
  Requests, AsksOf, Intents, IntentOf, Withdrawals, WithdrawalOf, MaxIntents, MaxClaims, MaxCrashes, None,
  Parents, Jobs, Keys, Children, Admissions, ParentExpiry, ChildExpiries, MaxDuration, MaxValidity,
  ChildValidity, MaxJobs, JobClaims, MaxChildren, Values, MaxTime, MaxBoots

VARIABLES
  store, disk, closed, asks, crashes,                         \* the installation registry
  file, open, mem, steps, clock, answers, given, proofs       \* the push coordinator

R == INSTANCE InstallationRegistry WITH rq <- asks
P == INSTANCE PushCoordinator WITH db <- file, MaxClaims <- JobClaims

\* Of the installation registry: a commit that was answered is kept, and can
\* still be withdrawn.
AnswersKept == R!Kept

\* Of the installation registry: nobody is answered with a principal that is no
\* longer one.
NoLateAnswer == R!NoLateAnswer

\* Of the push coordinator: a key's counter is accepted once, over all jobs
\* that verify with it.
CounterOnce == P!CounterOnce

\* Of the push coordinator: what was retired or answered is so in the file, and
\* a payload is returned once.
DurableTogether == P!DurableTogether

\* Of the push coordinator: nothing positive leaves a retired parent, nor a
\* payload a job whose deadline has passed.
PositiveIsCurrent == P!PositiveIsCurrent
=============================================================================
