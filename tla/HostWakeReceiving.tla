-------------------------- MODULE HostWakeReceiving --------------------------
(***************************************************************************)
(* The receiving side of host app wake                                     *)
(* (src/coordinator/host-app-wake-receiving).  An operator authorizes one  *)
(* installation and the policy of its native key; the Core issues purposes *)
(* under it, each with one credential, proves the key for each, registers  *)
(* a token and wakes, and everything can be withdrawn.  The first proof is *)
(* the attestation that enrolls the key, the later ones are assertions.    *)
(*                                                                         *)
(* One step is one D1 statement or batch, or the reads up to the next one. *)
(* A request that is given up abandons the statement it waits for, which   *)
(* may still run later (Land), and then writes what its catch block can.   *)
(* Triggers are conditions of the statement that fires them: if one fails, *)
(* the whole batch is undone.                                              *)
(***************************************************************************)
EXTENDS Integers, FiniteSets

CONSTANTS
  Calls, AsksOf,   \* [Calls -> SUBSET Request]
  Purposes, Ops,   \* core purposes; issuer operations
  Expiry,          \* [Purposes -> Nat]: original_wake_expires_at_ms
  AuthExpiry, PolicyExpiry, Window,
  MaxIntents, MaxIssuers, MaxFences,
  Counters,        \* what the native key signs
  MaxTime,         \* bound of the clock
  None

Positive == {"issue", "challenge", "complete", "register", "wake"}
Kinds == Positive \cup {"revoke", "withdraw", "policy_withdraw"}
Request == [kind : Kinds, purpose : Purposes, op : Ops]

ASSUME ConstantsAssumption ==
  /\ None \notin Calls /\ \A c \in Calls : AsksOf[c] \subseteq Request
  /\ Expiry \in [Purposes -> Nat] /\ Counters \subseteq Nat \ {0}
  /\ {AuthExpiry, PolicyExpiry, Window, MaxIntents, MaxIssuers, MaxFences, MaxTime} \subseteq Nat

VARIABLES
  db,     \* the tables
  calls,  \* the requests
  late,   \* statements that their request does not wait for any more
  now

vars == <<db, calls, late, now>>

Natives == {"attestation", "assertion"}
Claims == Calls \cup {None}
Intent == [claim : Calls, bound : BOOLEAN, until : Nat,
           outcome : {"reserved", "completed", "expired", "unknown", "withdrawn"}]
Issuer == [op : Ops, native : Natives, claim : Calls, until : Nat,
           outcome : {"reserved", "issued", "expired", "unknown", "withdrawn"}]
Job == [native : Natives, claim : Claims, captured : Nat, until : Nat,
        outcome : {"reserved", "verifying", "verified", "rejected", "expired", "unknown", "withdrawn"}]
Verification == [counter : Nat, claim : Calls, consumed : Claims]
Policy == [outcome : {"pending", "enrolled", "withdrawn", "expired"}, job : Purposes \cup {None}]
Key == [counter : Nat, claim : Calls, job : Purposes, disabled : BOOLEAN]
Target == [claim : Calls, withdrawn : BOOLEAN, token : BOOLEAN]

Statements == {"intent", "bind", "reserve", "insert", "publish", "job", "claim", "commit", "register",
               "wake", "mark", "finish", "withdraw_child", "withdraw_policy", "withdraw_all"}
Ended == {"answered", "acked", "done"}
Steps == Statements \cup Ended \cup {"idle", "native", "bound", "confirm", "public", "verify", "match",
                                    "fail_proof", "fail_issuer", "fail_intent"}
Call == [pc : Steps, kind : Kinds \cup {None}, purpose : Purposes \cup {None}, op : Ops \cup {None},
         captured : Nat, clock : Nat, native : Natives \cup {None}, held : BOOLEAN,
         seen : Nat, counter : Nat]
Idle == [pc |-> "idle", kind |-> None, purpose |-> None, op |-> None, captured |-> 0,
         clock |-> 0, native |-> None, held |-> FALSE, seen |-> 0, counter |-> 0]

\* No row is the missing one, and no statement or kind of proof is.
ASSUME NoneAssumption ==
  /\ None \notin Intent \cup Issuer \cup Job \cup Verification \cup Policy \cup Key \cup Target
  /\ None \notin Statements \cup Natives

At(c, pc) == calls[c].pc = pc /\ now < calls[c].captured + Window
Goto(c, pc) == calls' = [calls EXCEPT ![c].pc = pc, ![c].clock = now]
\* The catch block: what is left to write, in its order.  The locals of a
\* request that has ended are forgotten, unless its statement is under way.
End(c, pc) ==
  calls' = [calls EXCEPT ![c] =
    IF late'[c] # None THEN [@ EXCEPT !.pc = pc]
    ELSE [Idle EXCEPT !.pc = pc, !.kind = calls[c].kind, !.purpose = calls[c].purpose, !.op = calls[c].op]]
Fail(c) ==
  LET q == calls[c]
  IN IF q.kind \notin Positive THEN End(c, "done")
     ELSE calls' = [calls EXCEPT ![c].pc = IF q.kind = "complete" THEN "fail_proof"
                                           ELSE IF q.held THEN "fail_issuer" ELSE "fail_intent"]
Do(c, e, done, pc) ==
  /\ db' = e /\ UNCHANGED <<late, now>>
  /\ IF ~done THEN Fail(c) ELSE IF pc \in Ended THEN End(c, pc) ELSE Goto(c, pc)
\* A read that lets the request go on, or not.
Check(c, ok, pc) ==
  /\ IF ok THEN Goto(c, pc) ELSE Fail(c)
  /\ UNCHANGED <<db, late, now>>

\* A statement is given a reading of the clock from before it runs.
Clocks(c) == calls[c].clock .. now

(***************************************************************************)
(* What the statements ask of the tables.                                  *)
(***************************************************************************)
Live(at) == db.auth = "authorized" /\ at < AuthExpiry /\ ~db.disabled
LiveNow == Live(now)
Issued(p) == db.issuer[p] # None /\ db.issuer[p].outcome = "issued"

\* loadNativeState: an enrolled key under its policy, or the pending policy
\* that no other purpose attests for.
NativeOf(p) ==
  IF db.key # None
    THEN IF ~db.key.disabled /\ now < PolicyExpiry /\ db.policy.outcome = "enrolled" THEN "assertion" ELSE None
    ELSE IF /\ db.policy # None /\ now < PolicyExpiry
            /\ db.policy.outcome = "pending" /\ db.policy.job \in {None, p} THEN "attestation" ELSE None

\* The purpose's own attestation may have enrolled the key meanwhile.
NativeFits(p, native) ==
  \/ NativeOf(p) = native /\ native # None
  \/ /\ native = "attestation" /\ NativeOf(p) = "assertion"
     /\ db.jobs[p] # None /\ db.jobs[p].outcome = "verified"
     /\ db.verif[p] # None /\ db.verif[p].counter = 0
     /\ db.key.job = p /\ db.key.claim = db.verif[p].claim

\* bindSource181 for the row of p.
Bound(p) == LiveNow /\ NativeFits(p, db.issuer[p].native)

\* publicState = issued, for the issuer operation the request names.
IsPublic(c) ==
  LET p == calls[c].purpose
  IN Issued(p) /\ db.issuer[p].op = calls[c].op /\ now < Expiry[p] /\ LiveNow

\* The view host_wake_current_verified_targets, apart from the generation.
Eligible(p) ==
  /\ Issued(p) /\ LiveNow /\ now < Expiry[p]
  /\ db.purpose[p] # None /\ ~db.purpose[p].withdrawn
  /\ db.jobs[p] # None /\ db.jobs[p].outcome = "verified" /\ db.jobs[p].native = db.issuer[p].native
  /\ db.verif[p] # None
  /\ (db.verif[p].counter = 0) <=> (db.jobs[p].native = "attestation")
  /\ ~db.key.disabled /\ db.key.counter >= db.verif[p].counter
  /\ db.policy.outcome = "enrolled" /\ now < PolicyExpiry

(***************************************************************************)
(* The statements: the tables after each of them, for a request c.  One    *)
(* whose conditions fail leaves them as they are.                          *)
(***************************************************************************)
Route(c) == <<calls[c].purpose, calls[c].op, IF calls[c].kind = "wake" THEN c ELSE calls[c].kind>>
Wakers == {c \in Calls : \E r \in AsksOf[c] : r.kind = "wake"}
Routes == Purposes \X Ops \X ({"issue", "challenge", "complete", "register"} \cup Wakers)
Smallest(a, b) == IF a <= b THEN a ELSE b
Deadline(c) == calls[c].captured + Window
Rows(table) == {x \in DOMAIN table : table[x] # None}

Intended(c, at) ==
  LET until == Smallest(Deadline(c), AuthExpiry)
  IN IF /\ Live(at) /\ calls[c].purpose \notin db.fence /\ db.intents[Route(c)] = None
        /\ Cardinality(Rows(db.intents)) < MaxIntents
     THEN [db EXCEPT !.intents[Route(c)] =
            [claim |-> c, bound |-> FALSE, until |-> until,
             outcome |-> IF at >= Deadline(c) \/ now >= until THEN "expired" ELSE "reserved"]]
     ELSE db
HoldsIntent(d, c) ==
  d.intents[Route(c)] # None /\ d.intents[Route(c)].claim = c /\ d.intents[Route(c)].outcome = "reserved"

BoundIntent(c, at) ==
  IF HoldsIntent(db, c) /\ ~db.intents[Route(c)].bound /\ now < db.intents[Route(c)].until /\ Live(at)
    THEN [db EXCEPT !.intents[Route(c)].bound = TRUE] ELSE db

FinishedIntent(c, outcome) ==
  IF ~HoldsIntent(db, c) THEN db
  ELSE [db EXCEPT !.intents[Route(c)].outcome = IF now >= db.intents[Route(c)].until THEN "expired" ELSE outcome]

ReservedIssuer(c, at) ==
  LET p == calls[c].purpose
  IN IF /\ Live(at) /\ p \notin db.fence /\ db.issuer[p] = None
        /\ Cardinality(Rows(db.issuer)) < MaxIssuers
        /\ \A r \in Rows(db.issuer) : db.issuer[r].op # calls[c].op
     THEN [db EXCEPT !.issuer[p] =
            [op |-> calls[c].op, native |-> calls[c].native, claim |-> c, until |-> Deadline(c),
             outcome |-> IF at >= Deadline(c) \/ at >= Expiry[p] THEN "expired" ELSE "reserved"]]
     ELSE db
HoldsIssuerAny(d, c) ==
  LET s == d.issuer[calls[c].purpose] IN s # None /\ s.claim = c /\ s.outcome # "withdrawn"
HoldsIssuer(d, c) ==
  LET s == d.issuer[calls[c].purpose] IN s # None /\ s.claim = c /\ s.outcome = "reserved"

IssuerGuardOff(p) == db.issuer[p] # None

\* The trigger on the insertion of a purpose.
IssuerGuard(p) ==
  /\ db.issuer[p] # None /\ db.issuer[p].outcome = "reserved" /\ LiveNow
  /\ now < db.issuer[p].until /\ now < Expiry[p] /\ p \notin db.fence

InsertedPurpose(c) ==
  LET p == calls[c].purpose
  IN IF db.purpose[p] = None /\ IssuerGuard(p)
       THEN [db EXCEPT !.purpose[p] = [claim |-> c, withdrawn |-> FALSE, token |-> FALSE]] ELSE db

\* Only "issued" needs a live authorization.
FinishedIssuer(c, outcome, at) ==
  LET p == calls[c].purpose
  IN IF HoldsIssuer(db, c) /\ (outcome = "issued" => Live(at))
       THEN [db EXCEPT !.issuer[p].outcome =
              IF now >= db.issuer[p].until \/ now >= Expiry[p] THEN "expired" ELSE outcome]
       ELSE db

\* The trigger on an attestation job: the policy has not been used by another.
FirstJob(p) ==
  /\ db.policy # None /\ db.policy.outcome = "pending" /\ db.policy.job = None
  /\ now < PolicyExpiry /\ LiveNow

ReservedJob(c, at) ==
  LET p == calls[c].purpose
      s == db.issuer[p]
      until == Smallest(Deadline(c), Expiry[p])
      first == s.native = "attestation"
  IN IF Live(at) /\ Issued(p) /\ at < Expiry[p] /\ db.jobs[p] = None /\ (first => FirstJob(p))
       THEN [db EXCEPT !.jobs[p] = [native |-> s.native, claim |-> None,
                                    captured |-> calls[c].captured, until |-> until,
                                    outcome |-> IF at >= until THEN "expired" ELSE "reserved"],
                       !.policy = IF first THEN [@ EXCEPT !.job = p] ELSE @]
       ELSE db

MayClaim(c, at) ==
  LET j == db.jobs[calls[c].purpose]
  IN /\ j # None /\ j.outcome = "reserved" /\ j.captured <= at /\ at < j.until
     /\ Live(at) /\ Issued(calls[c].purpose) /\ at < Expiry[calls[c].purpose]

ClaimedProof(c, at) ==
  IF MayClaim(c, at)
    THEN [db EXCEPT !.jobs[calls[c].purpose].outcome = "verifying", !.jobs[calls[c].purpose].claim = c]
    ELSE db

Verifying(c) ==
  LET j == db.jobs[calls[c].purpose] IN j # None /\ j.claim = c /\ j.outcome = "verifying"

FailedProof(c, outcome) ==
  IF Verifying(c) THEN [db EXCEPT !.jobs[calls[c].purpose].outcome = outcome] ELSE db

\* What both commits ask of the job, its issuer and its authorization.
CommitFits(c) ==
  LET p == calls[c].purpose
  IN Verifying(c) /\ now < db.jobs[p].until /\ LiveNow /\ Issued(p) /\ now < Expiry[p] /\ db.verif[p] = None

CounterFitsLate(c) == db.key # None /\ ~db.key.disabled
\* The key still has the counter that was read before the verification.
CounterFits(c) == db.key # None /\ ~db.key.disabled /\ db.key.counter = calls[c].seen

Committed(c) ==
  LET p == calls[c].purpose
      proof == [counter |-> calls[c].counter, claim |-> c, consumed |-> None]
      first == db.jobs[p].native = "attestation"
      enrols == /\ first /\ db.policy # None /\ db.policy.outcome = "pending" /\ db.policy.job = p
                /\ now < PolicyExpiry /\ db.key = None
      asserts == ~first /\ CounterFits(c) /\ now < PolicyExpiry
  IN IF ~CommitFits(c) \/ ~(enrols \/ asserts) THEN db
     ELSE [db EXCEPT !.policy = IF first THEN [@ EXCEPT !.outcome = "enrolled"] ELSE @,
                     !.key = IF first THEN [counter |-> 0, claim |-> c, job |-> p, disabled |-> FALSE]
                             ELSE [@ EXCEPT !.counter = calls[c].counter],
                     !.verif[p] = proof, !.jobs[p].outcome = "verified"]

\* The claim, the token, the outcome, and the trigger that consumes the proof.
Registered(c, at) ==
  LET p == calls[c].purpose
  IN IF /\ ~db.purpose[p].withdrawn /\ at < Expiry[p] /\ db.reg[p] = None
        /\ Eligible(p) /\ db.verif[p].consumed = None
       THEN [db EXCEPT !.reg[p] = c, !.purpose[p].token = TRUE, !.verif[p].consumed = c]
       ELSE db

ReservedWake(c, at) ==
  LET row == db.purpose[calls[c].purpose]
      live == ~row.withdrawn /\ at < Expiry[calls[c].purpose]
  IN IF row # None /\ live /\ db.wakes[c] = None
       THEN [db EXCEPT !.wakes[c] = IF row.token THEN "reserved" ELSE "conflict"] ELSE db

DispatchGuardOff(p) == TRUE
\* The trigger on the marker of a wake.
DispatchGuard(p) ==
  Eligible(p) /\ db.verif[p].consumed # None /\ db.reg[p] = db.verif[p].consumed

MarkedWake(c, at) ==
  LET p == calls[c].purpose
  IN IF /\ db.wakes[c] = "reserved" /\ now < Deadline(c) /\ now < Expiry[p]
        /\ ~db.purpose[p].withdrawn /\ db.purpose[p].token /\ DispatchGuard(p)
       THEN [db EXCEPT !.wakes[c] = "dispatch_started"] ELSE db

\* The purposes ps and all that hangs on them.
Withdrawn(d, ps) ==
  [d EXCEPT
    !.issuer = [p \in Purposes |->
      IF p \in ps /\ @[p] # None THEN [@[p] EXCEPT !.outcome = "withdrawn"] ELSE @[p]],
    !.jobs = [p \in Purposes |->
      IF p \in ps /\ @[p] # None THEN [@[p] EXCEPT !.outcome = "withdrawn"] ELSE @[p]],
    !.intents = [r \in Routes |->
      IF r[1] \in ps /\ @[r] # None THEN [@[r] EXCEPT !.outcome = "withdrawn"] ELSE @[r]],
    !.purpose = [p \in Purposes |->
      IF p \in ps /\ d.issuer[p] # None /\ @[p] # None
        THEN [@[p] EXCEPT !.withdrawn = TRUE, !.token = FALSE] ELSE @[p]]]

WithdrawnChild(p) ==
  [Withdrawn(db, {p}) EXCEPT !.fence = IF Cardinality(@) < MaxFences THEN @ \cup {p} ELSE @]
WithdrawnAll == [Withdrawn(db, Purposes) EXCEPT !.auth = "withdrawn"]
WithdrawnPolicy ==
  [db EXCEPT !.policy = IF @ = None THEN @ ELSE [@ EXCEPT !.outcome = "withdrawn"],
             !.key = IF @ = None THEN @ ELSE [@ EXCEPT !.disabled = TRUE]]

Effect(c, statement, at) ==
  CASE statement = "intent"          -> Intended(c, at)
    [] statement = "bind"            -> BoundIntent(c, at)
    [] statement = "reserve"         -> ReservedIssuer(c, at)
    [] statement = "insert"          -> InsertedPurpose(c)
    [] statement = "publish"         -> FinishedIssuer(c, "issued", at)
    [] statement = "job"             -> ReservedJob(c, at)
    [] statement = "claim"           -> ClaimedProof(c, at)
    [] statement = "commit"          -> Committed(c)
    [] statement = "register"        -> Registered(c, at)
    [] statement = "wake"            -> ReservedWake(c, at)
    [] statement = "mark"            -> MarkedWake(c, at)
    [] statement = "finish"          -> FinishedIntent(c, "completed")
    [] statement = "withdraw_child"  -> WithdrawnChild(calls[c].purpose)
    [] statement = "withdraw_policy" -> WithdrawnPolicy
    [] statement = "withdraw_all"    -> WithdrawnAll

(***************************************************************************)
(* The operator, and the install token of the Core.                        *)
(***************************************************************************)
Authorize ==
  /\ db.auth = None /\ ~db.disabled
  /\ db' = [db EXCEPT !.auth = IF now >= AuthExpiry THEN "expired" ELSE "authorized"]
  /\ UNCHANGED <<calls, late, now>>

AuthorizePolicy ==
  /\ LiveNow /\ db.policy = None /\ db.key = None
  /\ db' = [db EXCEPT !.policy =
       [outcome |-> IF now >= PolicyExpiry THEN "expired" ELSE "pending", job |-> None]]
  /\ UNCHANGED <<calls, late, now>>

DisableToken == ~db.disabled /\ db' = [db EXCEPT !.disabled = TRUE] /\ UNCHANGED <<calls, late, now>>

(***************************************************************************)
(* A request.                                                              *)
(***************************************************************************)
HasCredential(p) == \E c \in Calls : calls[c].pc = "answered" /\ calls[c].purpose = p

\* Authentication and scope: the authorization exists; a target request holds
\* the credential and finds its purpose issued and live.
Arrive(c) ==
  /\ calls[c].pc = "idle"
  /\ \E r \in AsksOf[c] :
       /\ db.auth # None
       /\ db.disabled => r.kind \in {"withdraw", "policy_withdraw"}
       /\ r.kind \in {"register", "wake"} =>
            HasCredential(r.purpose) /\ Issued(r.purpose) /\ db.issuer[r.purpose].op = r.op
            /\ ~db.purpose[r.purpose].withdrawn /\ LiveNow /\ now < Expiry[r.purpose]
       /\ (r.kind = "revoke" /\ db.issuer[r.purpose] # None) => db.issuer[r.purpose].op = r.op
       /\ r.kind = "policy_withdraw" => db.policy # None
       /\ calls' = [calls EXCEPT ![c] =
            [Idle EXCEPT !.kind = r.kind, !.purpose = r.purpose, !.op = r.op,
                         !.captured = now, !.clock = now,
                         !.pc = CASE r.kind \in Positive         -> "intent"
                                  [] r.kind = "revoke"           -> "withdraw_child"
                                  [] r.kind = "withdraw"         -> "withdraw_all"
                                  [] r.kind = "policy_withdraw"  -> "withdraw_policy"]]
  /\ UNCHANGED <<db, late, now>>

ReserveIntent(c) ==
  At(c, "intent") /\ \E at \in Clocks(c) : Do(c, Intended(c, at), HoldsIntent(db', c), "bind")

BindIntent(c) ==
  /\ At(c, "bind")
  /\ \E at \in Clocks(c) : Do(c, BoundIntent(c, at), db' # db,
       CASE calls[c].kind = "issue" -> "native"
         [] calls[c].kind \in {"challenge", "complete"} -> "public"
         [] OTHER -> "match")

ReadNative(c) ==
  /\ At(c, "native") /\ UNCHANGED <<db, late, now>>
  /\ IF NativeOf(calls[c].purpose) = None THEN Fail(c)
     ELSE calls' = [calls EXCEPT ![c].pc = "reserve", ![c].clock = now,
                                 ![c].native = NativeOf(calls[c].purpose)]

ReserveIssuer(c) ==
  /\ At(c, "reserve") /\ UNCHANGED <<late, now>>
  /\ \E at \in Clocks(c) : db' = ReservedIssuer(c, at)
  /\ IF HoldsIssuer(db', c)
       THEN calls' = [calls EXCEPT ![c].pc = "bound", ![c].clock = now, ![c].held = TRUE] ELSE Fail(c)

Bind(c) == At(c, "bound") /\ Check(c, HoldsIssuer(db, c) /\ Bound(calls[c].purpose), "insert")
InsertPurpose(c) == At(c, "insert") /\ Do(c, InsertedPurpose(c), db' # db, "publish")
Publish(c) ==
  At(c, "publish") /\ \E at \in Clocks(c) : Do(c, FinishedIssuer(c, "issued", at), TRUE, "confirm")

\* The row is read again, and is this request's, issued.
IsConfirmed(c) ==
  LET s == db.issuer[calls[c].purpose] IN s.outcome = "issued" /\ s.claim = c /\ now < Expiry[calls[c].purpose]

Confirm(c) ==
  /\ At(c, "confirm") /\ UNCHANGED <<db, late, now>>
  /\ calls' = [calls EXCEPT
       ![c].held = db.issuer[calls[c].purpose].outcome = "reserved", ![c].clock = now,
       ![c].pc = IF IsConfirmed(c) /\ Bound(calls[c].purpose) THEN "finish"
                 ELSE IF db.issuer[calls[c].purpose].outcome = "reserved" THEN "fail_issuer"
                 ELSE "fail_intent"]

ReadPublic(c) ==
  LET p == calls[c].purpose
      job == calls[c].kind = "complete" => db.jobs[p] # None /\ db.jobs[p].native = db.issuer[p].native
  IN At(c, "public") /\ Check(c, IsPublic(c) /\ Bound(p) /\ job,
                              IF calls[c].kind = "challenge" THEN "job" ELSE "claim")

ReserveJob(c) ==
  /\ At(c, "job")
  /\ \E at \in Clocks(c) : Do(c, ReservedJob(c, at),
       db' # db /\ db'.jobs[calls[c].purpose].outcome = "reserved", "finish")

ClaimProof(c) ==
  At(c, "claim") /\ \E at \in Clocks(c) : Do(c, ClaimedProof(c, at), db' # db, "verify")

\* The saved job, key and policy are read, and the proof is valid or not; the
\* counter of an assertion is above the one that was read.
Verify(c) ==
  LET p == calls[c].purpose
      j == db.jobs[p]
      ok == Verifying(c) /\ now < j.until /\ LiveNow
      first == ok /\ j.native = "attestation" /\ NativeOf(p) = "attestation" /\ db.policy.job = p
      next == ok /\ j.native = "assertion" /\ NativeOf(p) = "assertion"
  IN /\ At(c, "verify") /\ UNCHANGED <<late, now>>
     /\ \/ ~first /\ ~next /\ Fail(c) /\ UNCHANGED db
        \/ first /\ Goto(c, "commit") /\ UNCHANGED db
        \/ next /\ UNCHANGED db /\ \E value \in Counters :
             /\ value > db.key.counter
             /\ calls' = [calls EXCEPT ![c].pc = "commit", ![c].clock = now,
                                       ![c].seen = db.key.counter, ![c].counter = value]
        \/ (first \/ next) /\ db' = FailedProof(c, "rejected") /\ Fail(c)

Commit(c) == At(c, "commit") /\ Do(c, Committed(c), db' # db, "finish")

\* A registration or a wake of another generation, revision or token closes
\* the purpose.  What is admitted has its proof, not used yet.
Match(c) ==
  LET p == calls[c].purpose
      proved == /\ db.jobs[p] # None /\ db.jobs[p].outcome = "verified"
                /\ db.verif[p] # None /\ db.verif[p].consumed = None
      live == Bound(p) /\ ~db.purpose[p].withdrawn /\ now < Expiry[p]
  IN \/ At(c, "match") /\ Goto(c, "withdraw_child") /\ UNCHANGED <<db, late, now>>
     \/ At(c, "match") /\ Check(c, live /\ (calls[c].kind = "register" => proved),
                                IF calls[c].kind = "register" THEN "register" ELSE "wake")

Register(c) ==
  At(c, "register") /\ \E at \in Clocks(c) : Do(c, Registered(c, at), db' # db, "finish")
ReserveWake(c) ==
  At(c, "wake") /\ \E at \in Clocks(c) : Do(c, ReservedWake(c, at), db'.wakes[c] = "reserved", "mark")
MarkWake(c) ==
  At(c, "mark") /\ \E at \in Clocks(c) : Do(c, MarkedWake(c, at), db' # db, "finish")

FinishIntent(c) ==
  At(c, "finish") /\ Do(c, FinishedIntent(c, "completed"), TRUE,
                        IF calls[c].kind = "issue" THEN "answered" ELSE "done")

\* Acknowledged only if the purpose is closed, or cannot be issued any more.
WithdrawChild(c) ==
  LET p == calls[c].purpose
      closed == db'.issuer[p] # None /\ (db'.issuer[p].outcome = "withdrawn" \/ p \in db'.fence)
  IN /\ At(c, "withdraw_child")
     /\ Do(c, WithdrawnChild(p), closed /\ calls[c].kind = "revoke", "acked")

WithdrawPolicy(c) == At(c, "withdraw_policy") /\ Do(c, WithdrawnPolicy, TRUE, "withdraw_all")
WithdrawAll(c) == At(c, "withdraw_all") /\ Do(c, WithdrawnAll, TRUE, "acked")

\* The request is cancelled, or its window ends, and its statement is under way.
Abandon(c) ==
  /\ calls[c].pc \in Statements
  /\ late' = [late EXCEPT ![c] = calls[c].pc] /\ Fail(c)
  /\ UNCHANGED <<db, now>>

Land(c) ==
  /\ late[c] # None /\ late' = [late EXCEPT ![c] = None]
  /\ \E at \in Clocks(c) : db' = Effect(c, late[c], at)
  /\ UNCHANGED <<calls, now>>

\* Each of the catch block's statements runs or fails; the process may end.
Catch(c) ==
  LET q == calls[c]
  IN /\ UNCHANGED <<late, now>>
     /\ \/ q.pc = "fail_proof" /\ calls' = [calls EXCEPT ![c].pc = "fail_intent"]
           /\ db' \in {db, FailedProof(c, "unknown")}
        \/ q.pc = "fail_issuer" /\ calls' = [calls EXCEPT ![c].pc = "fail_intent"]
           /\ db' \in {db, FinishedIssuer(c, "unknown", now)}
        \/ q.pc = "fail_intent" /\ End(c, "done") /\ db' \in {db, FinishedIntent(c, "unknown")}

Tick == now < MaxTime /\ now' = now + 1 /\ UNCHANGED <<db, calls, late>>

Init ==
  /\ db = [auth |-> None, disabled |-> FALSE, policy |-> None, key |-> None, fence |-> {},
           issuer |-> [p \in Purposes |-> None], jobs |-> [p \in Purposes |-> None],
           verif |-> [p \in Purposes |-> None], purpose |-> [p \in Purposes |-> None],
           reg |-> [p \in Purposes |-> None], wakes |-> [c \in Calls |-> None],
           intents |-> [r \in Routes |-> None]]
  /\ calls = [c \in Calls |-> Idle] /\ late = [c \in Calls |-> None] /\ now = 0

Next ==
  \/ Authorize \/ AuthorizePolicy \/ DisableToken \/ Tick
  \/ \E c \in Calls :
       \/ Arrive(c) \/ ReserveIntent(c) \/ BindIntent(c) \/ ReadNative(c) \/ ReserveIssuer(c)
       \/ Bind(c) \/ InsertPurpose(c) \/ Publish(c) \/ Confirm(c) \/ ReadPublic(c) \/ ReserveJob(c)
       \/ ClaimProof(c) \/ Verify(c) \/ Commit(c) \/ Match(c) \/ Register(c) \/ ReserveWake(c)
       \/ MarkWake(c) \/ FinishIntent(c) \/ WithdrawChild(c) \/ WithdrawPolicy(c) \/ WithdrawAll(c)
       \/ Abandon(c) \/ Land(c) \/ Catch(c)

Spec == Init /\ [][Next]_vars

(***************************************************************************)
(* Properties                                                              *)
(***************************************************************************)
Wake == {None, "reserved", "conflict", "dispatch_started"}
Tables ==
  [auth : {None, "authorized", "expired", "withdrawn"}, disabled : BOOLEAN,
   policy : Policy \cup {None}, key : Key \cup {None}, fence : SUBSET Purposes,
   issuer : [Purposes -> Issuer \cup {None}], jobs : [Purposes -> Job \cup {None}],
   verif : [Purposes -> Verification \cup {None}], purpose : [Purposes -> Target \cup {None}],
   reg : [Purposes -> Claims], wakes : [Calls -> Wake], intents : [Routes -> Intent \cup {None}]]
\* The tables, the requests and the statements under way are what their
\* columns and locals admit (schema.sql).
TypeOK ==
  /\ db \in Tables /\ calls \in [Calls -> Call]
  /\ late \in [Calls -> Statements \cup {None}] /\ now \in 0 .. MaxTime

\* What a request settled as expired, unknown, rejected or done stays so, for
\* its issuer, its proof and its intent, until it is withdrawn: a statement of a
\* request that gave up, or another request, revives nothing, and the
\* credential that was answered belongs to the claim its row keeps
\* (receiving-store.ts 39-44, 121-151).
SettledStays ==
  [][/\ \A p \in Purposes :
          /\ (db.issuer[p] # None /\ db.issuer[p].outcome # "reserved") =>
               db'.issuer[p] \in {db.issuer[p], [db.issuer[p] EXCEPT !.outcome = "withdrawn"]}
          /\ (db.jobs[p] # None /\ db.jobs[p].outcome \notin {"reserved", "verifying"}) =>
               db'.jobs[p] \in {db.jobs[p], [db.jobs[p] EXCEPT !.outcome = "withdrawn"]}
     /\ \A r \in Routes : (db.intents[r] # None /\ db.intents[r].outcome # "reserved") =>
          db'.intents[r] \in {db.intents[r], [db.intents[r] EXCEPT !.outcome = "withdrawn"]}
     /\ \A c \in Calls : calls[c].pc # "answered" /\ calls'[c].pc = "answered" =>
          db.issuer[calls[c].purpose].claim = c /\ db.purpose[calls[c].purpose].claim = c]_vars

\* What was withdrawn, one child or the authorization, before, during or after
\* its issuing, stays closed: no later statement, not one that was under way,
\* leaves a live purpose, token, issuer or job (receiving-store.ts 57-86).
WithdrawalFinal ==
  \A p \in Purposes :
    \/ p \in db.fence \/ db.auth = "withdrawn"
    \/ \E c \in Calls : calls[c].pc = "acked" /\ calls[c].kind = "revoke" /\ calls[c].purpose = p
    => /\ db.purpose[p] = None \/ (db.purpose[p].withdrawn /\ ~db.purpose[p].token)
       /\ db.issuer[p] = None \/ db.issuer[p].outcome = "withdrawn"
       /\ db.jobs[p] = None \/ db.jobs[p].outcome = "withdrawn"

\* One counter of the native key proves one purpose: proofs committed side by
\* side, late ones too, never go back; the key is there with its policy
\* enrolled, or neither is, and only its attestation has counter zero
\* (native-attestation.ts 47-81, native-assertion.ts 82-110).
CounterOnce ==
  LET proven == Rows(db.verif)
  IN /\ \A p, q \in proven : db.verif[p].counter = db.verif[q].counter => p = q
     /\ \A p \in proven : db.key # None /\ db.verif[p].counter <= db.key.counter
     /\ \A p \in proven : db.verif[p].counter = 0 <=> db.key.job = p
     /\ db.policy # None /\ db.policy.outcome = "enrolled" <=> db.key # None /\ ~db.key.disabled

\* A wake leaves only for a token that a request of the host registered with
\* the proof it consumed, while nothing above it is withdrawn, whatever
\* happened since the wake was admitted (dispatch-guard.sql).
WakesAreProven ==
  [][\A c \in Calls : db'.wakes[c] = "dispatch_started" /\ db.wakes[c] # "dispatch_started" =>
       LET p == calls[c].purpose
       IN /\ db.auth = "authorized" /\ ~db.disabled /\ db.policy.outcome = "enrolled"
          /\ p \notin db.fence /\ db.purpose[p].token /\ db.reg[p] # None
          /\ db.verif[p].consumed = db.reg[p] /\ calls[db.reg[p]].purpose = p]_vars
=============================================================================
