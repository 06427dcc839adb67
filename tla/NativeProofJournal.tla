-------------------------- MODULE NativeProofJournal --------------------------
(***************************************************************************)
(* The journal of native proofs (src/src/surface-push/                     *)
(* native-proof-data-journal.ts).  A job goes through four stages, first a *)
(* key, then a target, each prepared and then verified.  A stage is        *)
(* reserved once, and the reservation, which lives in the memory of the    *)
(* journal that made it, completes or retires it.  Every operation is one  *)
(* batch of one transaction, whose answer may be lost.                     *)
(***************************************************************************)
EXTENDS Integers, FiniteSets

CONSTANTS
  Journals,      \* instances of the journal, in different isolates
  Jobs, ScopeOf, \* [Jobs -> key scope]
  Nonces,        \* [Jobs -> [{"key", "target"} -> nonce]]
  Keys,          \* key references
  Retirements,   \* the phases of a retired job: rejected, withdrawn, expired, uncertain
  Claims,        \* bound: the claims drawn, one per operation
  MaxCounter,    \* bound: counters of assertions
  None

VARIABLES
  jobs,      \* native_proof_data_jobs
  claims,    \* native_proof_data_claims
  nonces,    \* native_proof_data_nonces: by which claim each is spent
  counters,  \* native_proof_data_key_counters
  held,      \* the reservations in the memory of a journal, by claim
  poisoned,  \* (journal, job): retired as far as the journal knows
  shut,      \* the journals that were closed
  drawn      \* the claims drawn

vars == <<jobs, claims, nonces, counters, held, poisoned, shut, drawn>>

Stages == {"prepare_key", "verify_key", "prepare_target", "verify_target"}

\* The phase a stage begins in, is in while reserved, and leads to.
Before(stage) ==
  CASE stage = "prepare_key" -> "APPROVED_AVAILABLE" [] stage = "verify_key" -> "KEY_PREPARED"
    [] stage = "prepare_target" -> "KEY_VERIFIED"    [] stage = "verify_target" -> "TARGET_PREPARED"
Pending(stage) ==
  CASE stage = "verify_key" -> "KEY_VERIFYING" [] stage = "verify_target" -> "TARGET_VERIFYING"
    [] OTHER -> Before(stage)
Committed(stage) ==
  CASE stage = "prepare_key" -> "KEY_PREPARED"       [] stage = "verify_key" -> "KEY_VERIFIED"
    [] stage = "prepare_target" -> "TARGET_PREPARED" [] stage = "verify_target" -> "TARGET_VERIFIED"
Role(stage) == IF stage \in {"prepare_key", "verify_key"} THEN "key" ELSE "target"
Verifies(stage) == stage \in {"verify_key", "verify_target"}

Phases == {"APPROVED_AVAILABLE", "KEY_PREPARED", "KEY_VERIFYING", "KEY_VERIFIED",
           "TARGET_PREPARED", "TARGET_VERIFYING", "TARGET_VERIFIED"}

Job == [phase : Phases \cup Retirements, revision : Nat, active : Claims \cup {None},
        fresh : BOOLEAN,  \* key_mode is new_key_attestation
        key : Keys \cup {None}]
Claim == [job : Jobs, stage : Stages, outcome : {"reserved", "committed", "retired"}]
Counter == [scope : {ScopeOf[j] : j \in Jobs}, counter : Nat, revision : Nat]
Reservation == [journal : Journals, job : Jobs, stage : Stages, row : Job]

\* A job has two nonces; a retired phase is none of the others; and no row, set
\* of claims or name is the absent one.
JournalAssumption ==
  /\ \A j \in Jobs : {"key", "target"} \subseteq DOMAIN Nonces[j]
  /\ MaxCounter \in Nat /\ Retirements \cap Phases = {}
  /\ None \notin Job /\ None \notin Claim /\ None \notin Counter /\ None \notin Reservation
  /\ None \notin Claims /\ None \notin Keys /\ \A spent \in SUBSET Claims : spent # None

\* A new transaction of journal n: nothing was closed or retired here, and the
\* claim is a new one.
Begins(n, c) == n \notin shut /\ c \notin drawn /\ drawn' = drawn \cup {c}

ClaimOf(j, stage) == {c \in Claims : claims[c] # None /\ claims[c].job = j /\ claims[c].stage = stage}

NewJob ==
  [phase |-> "APPROVED_AVAILABLE", revision |-> 1, active |-> None, fresh |-> FALSE, key |-> None]

IsDistinct(j) == Nonces[j]["key"] # Nonces[j]["target"]

\* No job had the nonces, in either role.
IsUnseen(j) == \A role \in {"key", "target"} : nonces[Nonces[j][role]] = None

\* The job and both its nonces, or nothing.
CreateDataJob(n, j) ==
  /\ n \notin shut /\ <<n, j>> \notin poisoned
  /\ jobs[j] = None /\ IsDistinct(j) /\ IsUnseen(j)
  /\ jobs' = [jobs EXCEPT ![j] = NewJob]
  /\ nonces' = [x \in DOMAIN nonces |->
       IF \E role \in {"key", "target"} : Nonces[j][role] = x THEN {} ELSE nonces[x]]
  /\ UNCHANGED <<claims, counters, held, poisoned, shut, drawn>>

\* A row is written with a new phase and claim, and the next revision.
Written(row, phase, active) ==
  [row EXCEPT !.phase = phase, !.revision = @ + 1, !.active = active]

\* A stage is claimed once in the life of its job; a verification spends the
\* nonce.  The reservation may never reach the caller.
MayReserve(j, stage) ==
  /\ jobs[j] # None /\ jobs[j].phase = Before(stage) /\ jobs[j].active = None
  /\ nonces[Nonces[j][Role(stage)]] = {} /\ ClaimOf(j, stage) = {}

ReserveDataStage(n, j, stage, c) ==
  LET row == Written(jobs[j], Pending(stage), c)
  IN /\ Begins(n, c) /\ <<n, j>> \notin poisoned /\ MayReserve(j, stage)
     /\ jobs' = [jobs EXCEPT ![j] = row]
     /\ claims' = [claims EXCEPT ![c] = [job |-> j, stage |-> stage, outcome |-> "reserved"]]
     /\ nonces' = IF Verifies(stage) THEN [nonces EXCEPT ![Nonces[j][Role(stage)]] = {c}] ELSE nonces
     /\ \/ held' = [held EXCEPT ![c] = [journal |-> n, job |-> j, stage |-> stage, row |-> row]]
        \/ UNCHANGED held
     /\ UNCHANGED <<counters, poisoned, shut>>

\* A reservation is used up by the first call that brings it, whatever comes
\* of it.
Take(c) == held[c] # None /\ held' = [held EXCEPT ![c] = None]

IsOwned(h, c) ==
  jobs[h.job] = h.row /\ h.row.active = c /\ claims[c].outcome = "reserved"

Attests(h) == h.stage = "verify_key" /\ h.row.fresh

\* What a caller may bring to a verification: for a new key no counter yet,
\* for a known one the counter it asserts and the revision it saw.
Completions(h) ==
  IF Attests(h) THEN [key : Keys, counter : {0}, revision : {None}]
  ELSE [key : {h.row.key}, counter : 0 .. MaxCounter, revision : 1 .. Cardinality(Claims)]

MayCountStale(h, x) ==
  IF Attests(h) THEN counters[x.key] = None
  ELSE /\ counters[x.key] # None /\ counters[x.key].scope = ScopeOf[h.job]
       /\ counters[x.key].revision = x.revision

\* A new key is not known yet; a known counter grows, from that revision.
MayCount(h, x) ==
  IF Attests(h) THEN counters[x.key] = None
  ELSE /\ counters[x.key] # None /\ counters[x.key].scope = ScopeOf[h.job]
       /\ counters[x.key].revision = x.revision /\ counters[x.key].counter < x.counter

Counted(h, x) ==
  IF Attests(h) THEN [scope |-> ScopeOf[h.job], counter |-> 0, revision |-> 1]
  ELSE [counters[x.key] EXCEPT !.counter = x.counter, !.revision = @ + 1]

\* The counter, the job and the claim change together or not at all.
CompleteDataStage(c) ==
  LET h == held[c]
      done == Written(h.row, Committed(h.stage), None)
  IN /\ Take(c) /\ h.journal \notin shut /\ <<h.journal, h.job>> \notin poisoned
     /\ \/ /\ ~Verifies(h.stage) /\ IsOwned(h, c)
           /\ \E key \in IF h.stage = "prepare_key" THEN Keys \cup {None} ELSE {h.row.key} :
                jobs' = [jobs EXCEPT ![h.job] =
                  [done EXCEPT !.key = key,
                               !.fresh = IF h.stage = "prepare_key" THEN key = None ELSE @]]
           /\ claims' = [claims EXCEPT ![c].outcome = "committed"] /\ UNCHANGED counters
        \/ /\ Verifies(h.stage) /\ IsOwned(h, c)
           /\ \E x \in Completions(h) :
                /\ MayCount(h, x)
                /\ counters' = [counters EXCEPT ![x.key] = Counted(h, x)]
                /\ jobs' = [jobs EXCEPT ![h.job] = [done EXCEPT !.key = x.key]]
           /\ claims' = [claims EXCEPT ![c].outcome = "committed"]
        \/ UNCHANGED <<jobs, claims, counters>>
     /\ UNCHANGED <<nonces, poisoned, shut, drawn>>

Retired(row, reason) == Written(row, reason, None)

\* The journal gives the job up before the batch, and however it ends.
RejectOrRetireDataStage(c) ==
  LET h == held[c]
  IN /\ Take(c) /\ h.journal \notin shut /\ <<h.journal, h.job>> \notin poisoned
     /\ poisoned' = poisoned \cup {<<h.journal, h.job>>}
     /\ \/ /\ IsOwned(h, c)
           /\ \E reason \in Retirements : jobs' = [jobs EXCEPT ![h.job] = Retired(h.row, reason)]
           /\ claims' = [claims EXCEPT ![c].outcome = "retired"]
        \/ UNCHANGED <<jobs, claims>>
     /\ UNCHANGED <<nonces, counters, shut, drawn>>

ReleasedNone(j) == claims

\* What becomes of the claims of a job that is retired from outside.
Released(j) ==
  [c \in Claims |-> IF claims[c] # None /\ claims[c].job = j /\ claims[c].outcome = "reserved"
                      THEN [claims[c] EXCEPT !.outcome = "retired"] ELSE claims[c]]

RetireDataJob(n, j) ==
  /\ n \notin shut /\ poisoned' = poisoned \cup {<<n, j>>}
  /\ \/ /\ jobs[j] # None /\ jobs[j].phase \notin Retirements
        /\ \E reason \in Retirements : jobs' = [jobs EXCEPT ![j] = Retired(jobs[j], reason)]
        /\ claims' = Released(j)
     \/ UNCHANGED <<jobs, claims>>
  /\ UNCHANGED <<nonces, counters, held, shut, drawn>>

\* The journal is closed, or its isolate ends.
Close(n) ==
  /\ n \notin shut /\ shut' = shut \cup {n}
  /\ UNCHANGED <<jobs, claims, nonces, counters, held, poisoned, drawn>>

Init ==
  /\ jobs = [j \in Jobs |-> None] /\ claims = [c \in Claims |-> None]
  /\ nonces = [x \in UNION {{Nonces[j]["key"], Nonces[j]["target"]} : j \in Jobs} |-> None]
  /\ counters = [k \in Keys |-> None] /\ held = [c \in Claims |-> None]
  /\ poisoned = {} /\ shut = {} /\ drawn = {}

Next ==
  \/ \E n \in Journals :
       \/ Close(n)
       \/ \E j \in Jobs :
            \/ CreateDataJob(n, j) \/ RetireDataJob(n, j)
            \/ \E stage \in Stages, c \in Claims : ReserveDataStage(n, j, stage, c)
  \/ \E c \in Claims : CompleteDataStage(c) \/ RejectOrRetireDataStage(c)

(***************************************************************************)
(* Properties.                                                             *)
(***************************************************************************)
Made(j) == {c \in Claims : claims[c] # None /\ claims[c].job = j}
Outcome(j, stage) == {claims[c].outcome : c \in ClaimOf(j, stage)}
Order == [prepare_key |-> {}, verify_key |-> {"prepare_key"},
          prepare_target |-> {"prepare_key", "verify_key"},
          verify_target |-> {"prepare_key", "verify_key", "prepare_target"}]

\* The phase of a job, its active claim, its claims and its nonces tell one
\* story, whichever journal wrote which and whatever answers were lost: a
\* reserved stage is the active one, the stages before it are committed, a
\* nonce is spent by the claim of its verification, and a retired job keeps no
\* claim that could still be completed.
OneStory ==
  \A j \in Jobs : jobs[j] # None =>
    /\ {c \in Made(j) : claims[c].outcome = "reserved"} = {jobs[j].active} \ {None}
    /\ \A stage \in Stages :
         /\ ClaimOf(j, stage) # {} => \A s \in Order[stage] : Outcome(j, s) = {"committed"}
         /\ jobs[j].phase = Committed(stage) => Outcome(j, stage) = {"committed"}
         /\ Verifies(stage) => ClaimOf(j, stage) = nonces[Nonces[j][Role(stage)]]

\* The jobs that a step verifies with a key.
VerifiedWith(k) ==
  {j \in Jobs : /\ jobs[j] # None /\ jobs[j].phase # jobs'[j].phase
                /\ jobs'[j].phase \in {"KEY_VERIFIED", "TARGET_VERIFIED"}
                /\ jobs'[j].key = k}

CountsVerifications(k) ==
  /\ IF counters'[k] = counters[k] THEN VerifiedWith(k) = {} ELSE \E j \in Jobs : VerifiedWith(k) = {j}
  /\ counters[k] # None /\ counters'[k] # counters[k] =>
       /\ counters'[k].counter > counters[k].counter
       /\ counters'[k].revision = counters[k].revision + 1

\* A counter grows with each verification made with its key, of one job at a
\* time: a job is verified exactly when the counter of its key is set for it,
\* and two jobs that verify against the same revision do not both pass.
CounterPerVerification == [][\A k \in Keys : CountsVerifications(k)]_vars
=============================================================================
