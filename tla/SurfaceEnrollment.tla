-------------------------- MODULE SurfaceEnrollment --------------------------
(***************************************************************************)
(* How a surface push delegation comes and goes (src/src/surface-push):    *)
(* the operator authorizes an enrollment and gets a credential, once; its  *)
(* holder redeems it for the delegation the authorization names; or the    *)
(* operator enrols the delegation itself; authorizations are revoked and   *)
(* delegations withdrawn.  A handler submits one D1 batch and then reads   *)
(* what became of it; other requests run in between, and it may be cut off *)
(* at any point, by an abort, the end of the service or of the isolate.    *)
(*                                                                         *)
(* A request's name stands for the claim id and the token it draws, and an *)
(* intent for the enrolment and the consent, so that equal hashes are      *)
(* equal intents.                                                          *)
(***************************************************************************)
EXTENDS Integers, FiniteSets

CONSTANTS
  Requests, AsksOf,  \* [Requests -> set of what it may ask]
  Operators,         \* operation ids of the operator for authorizations
  Auths,             \* authorization ids
  Intents,
  IntentOf,          \* [Intents -> [delegation, operation, consent, deadline, grant]]
  Ledger,            \* operation ids of enrolments and withdrawals
  Delegations,
  MaxTime,           \* bound: the clock
  None

VARIABLES
  operator,     \* surface_enrollment_operator_operations
  auths,        \* surface_enrollment_authorizations
  ledger,       \* surface_push_operator_operations
  delegations,  \* surface_push_delegations
  rq,           \* the requests
  now

vars == <<operator, auths, ledger, delegations, rq, now>>

\* What may be asked.
Authorization == [kind : {"authorize"}, op : Operators, auth : Auths, intent : Intents]
Revocation == [kind : {"revoke"}, op : Operators, auth : Auths]
Redemption == [kind : {"redeem"}, auth : Auths, intent : Intents]
Enrolling == [kind : {"enrol"}, intent : Intents]
Withdrawal == [kind : {"withdraw"}, op : Ledger, delegation : Delegations]
Asks == Authorization \cup Revocation \cup Redemption \cup Enrolling \cup Withdrawal

OperatorRow == [ask : Authorization \cup Revocation, outcome : {"authorized", "revoked", "conflict"}]
AuthRow ==
  [op : Operators, token : Requests, claim : Requests, intent : Intents, ends : Nat,
   state : {"available", "consumed", "revoked"}, outcome : {"authorized", "enrolled", "conflict"},
   revoked : BOOLEAN]
LedgerRow ==
  [ask : Intents \cup Withdrawal, claim : Requests,
   outcome : {"enrolled", "conflict", "pending", "withdrawn"}]
Delegation == [intent : Intents, revoked : BOOLEAN]

\* An intent names a delegation and an operation, and is no withdrawal; no row,
\* request or answer is the absent one.
EnrollmentAssumption ==
  /\ AsksOf \in [Requests -> SUBSET Asks] /\ Intents \cap Withdrawal = {}
  /\ \A e \in Intents : /\ IntentOf[e].delegation \in Delegations /\ IntentOf[e].operation \in Ledger
                        /\ {IntentOf[e].deadline, IntentOf[e].grant} \subseteq Nat
  /\ None \notin Asks /\ None \notin OperatorRow /\ None \notin AuthRow /\ None \notin LedgerRow
  /\ None \notin Delegation /\ None \notin {"credential", "enrolled"}

Step(r, pc) == rq' = [rq EXCEPT ![r].pc = pc]
Answer(r, what) == rq' = [rq EXCEPT ![r].pc = "end", ![r].answer = what]

\* The authorization may be used until the grant or an operation expires.
End(e) == IF IntentOf[e].deadline <= IntentOf[e].grant THEN IntentOf[e].deadline
          ELSE IntentOf[e].grant

IsUsable(row) == row # None /\ row.state = "available" /\ ~row.revoked /\ now < row.ends

\* The credentials that were shown for authorization a, by the request that
\* drew them.
Shown(a) == {s \in Requests : rq[s].answer = "credential" /\ rq[s].ask.auth = a}

(***************************************************************************)
(* What a request needs to get as far as its batch.                        *)
(***************************************************************************)
\* Both expiries lie ahead, and those of the operations.
IsAuthorization(ask) == ask.kind = "authorize" /\ now < End(ask.intent)

\* The credential of the authorization, the intent it was made for and the
\* signature of its key.
IsRedemption(ask) ==
  LET row == auths[ask.auth]
  IN /\ ask.kind = "redeem" /\ IsUsable(row)
     /\ row.token \in Shown(ask.auth) /\ row.intent = ask.intent

IsEnrolment(ask) == ask.kind = "enrol" /\ now < End(ask.intent)

IsWithdrawal(ask) == ask.kind = "withdraw" /\ delegations[ask.delegation] # None

Ask(r) ==
  /\ rq[r].pc = "idle"
  /\ \E ask \in AsksOf[r] :
       /\ \/ IsAuthorization(ask) \/ IsRedemption(ask) \/ ask.kind = "revoke"
          \/ IsEnrolment(ask) \/ IsWithdrawal(ask)
       /\ rq' = [rq EXCEPT ![r] = [pc |-> ask.kind, ask |-> ask, answer |-> None]]
  /\ UNCHANGED <<operator, auths, ledger, delegations, now>>

(***************************************************************************)
(* authorize and revoke, by the operator.                                  *)
(***************************************************************************)
IsRevoked(a) ==
  \E o \in Operators : operator[o] # None /\ operator[o].ask.kind = "revoke" /\ operator[o].ask.auth = a

\* No row has one of the values that are unique.
IsNew(ask) ==
  \A a \in Auths : auths[a] # None =>
    LET e == IntentOf[auths[a].intent]
        f == IntentOf[ask.intent]
    IN /\ a # ask.auth /\ auths[a].op # ask.op
       /\ e.consent # f.consent /\ e.delegation # f.delegation /\ e.operation # f.operation

MayAuthorizeRevoked(ask) == IsNew(ask) /\ now < End(ask.intent)

MayAuthorize(ask) == IsNew(ask) /\ ~IsRevoked(ask.auth) /\ now < End(ask.intent)

Authorize(r) ==
  LET ask == rq[r].ask
      fresh == operator[ask.op] = None
      may == fresh /\ MayAuthorize(ask)
  IN /\ rq[r].pc = "authorize" /\ Step(r, "authorized")
     /\ operator' = IF fresh
          THEN [operator EXCEPT ![ask.op] =
                  [ask |-> ask, outcome |-> IF may THEN "authorized" ELSE "conflict"]]
          ELSE operator
     /\ auths' = IF may
          THEN [auths EXCEPT ![ask.auth] =
                  [op |-> ask.op, token |-> r, claim |-> r, intent |-> ask.intent,
                   ends |-> End(ask.intent), state |-> "available", outcome |-> "authorized",
                   revoked |-> FALSE]]
          ELSE auths
     /\ UNCHANGED <<ledger, delegations, now>>

\* Only the request that made the row, while it is untouched, shows the
\* credential.
Authorized(r) ==
  LET ask == rq[r].ask
      row == auths[ask.auth]
  IN /\ rq[r].pc = "authorized"
     /\ Answer(r, IF operator[ask.op] # [ask |-> ask, outcome |-> "authorized"] THEN "conflict"
                  ELSE IF row.claim = r /\ IsUsable(row) THEN "credential" ELSE "unknown")
     /\ UNCHANGED <<operator, auths, ledger, delegations, now>>

\* An authorization nobody made yet is revoked too; a consumed one says so
\* from now on, and its delegation stays.
Revoke(r) ==
  LET ask == rq[r].ask
      op == [ask |-> ask, outcome |-> "revoked"]
      mine == operator[ask.op] \in {None, op}
  IN /\ rq[r].pc = "revoke" /\ Answer(r, IF mine THEN "revoked" ELSE "conflict")
     /\ operator' = IF mine THEN [operator EXCEPT ![ask.op] = op] ELSE operator
     /\ auths' = IF mine /\ auths[ask.auth] # None
          THEN [auths EXCEPT ![ask.auth].state = "revoked", ![ask.auth].revoked = TRUE]
          ELSE auths
     /\ UNCHANGED <<ledger, delegations, now>>

(***************************************************************************)
(* redeem, by the holder of the credential; enrol, by the operator.        *)
(***************************************************************************)
\* The ledger entry and the delegation, when the operation is new.
IsOpen(e) == ledger[IntentOf[e].operation] = None
IsEnrolled(e) == LET d == delegations[IntentOf[e].delegation] IN d # None /\ d.intent = e
WillEnrol(e) == delegations[IntentOf[e].delegation] = None \/ IsEnrolled(e)

Enrolment(r, e) ==
  /\ ledger' = [ledger EXCEPT ![IntentOf[e].operation] =
       [ask |-> e, claim |-> r, outcome |-> IF WillEnrol(e) THEN "enrolled" ELSE "conflict"]]
  /\ delegations' = IF delegations[IntentOf[e].delegation] = None
       THEN [delegations EXCEPT ![IntentOf[e].delegation] = [intent |-> e, revoked |-> FALSE]]
       ELSE delegations

\* The condition of the first statement of the batch, which spends the
\* authorization; the other statements ask whether it was this request.
MayRedeemTwice(row) == ~row.revoked /\ now < row.ends

MayRedeem(row) == IsUsable(row)

Redeem(r) ==
  LET ask == rq[r].ask
      row == auths[ask.auth]
      e == ask.intent
      outcome == IF IsOpen(e) /\ WillEnrol(e) THEN "enrolled" ELSE "conflict"
  IN /\ rq[r].pc = "redeem" /\ Step(r, "redeemed")
     /\ IF MayRedeem(row)
          THEN /\ auths' = [auths EXCEPT ![ask.auth] =
                    [row EXCEPT !.state = "consumed", !.claim = r, !.outcome = outcome]]
               /\ IF IsOpen(e) THEN Enrolment(r, e) ELSE UNCHANGED <<ledger, delegations>>
          ELSE UNCHANGED <<auths, ledger, delegations>>
     /\ UNCHANGED <<operator, now>>

\* The row must still say that this request consumed it, and the delegation be
\* live when it is read after it.
Redeemed(r) ==
  LET row == auths[rq[r].ask.auth]
  IN /\ rq[r].pc = "redeemed"
     /\ IF /\ row.claim = r /\ row.state = "consumed" /\ row.outcome = "enrolled"
           /\ ~row.revoked /\ now < row.ends
          THEN Step(r, "live") ELSE Answer(r, "unavailable")
     /\ UNCHANGED <<operator, auths, ledger, delegations, now>>

IsLive(e) ==
  IsEnrolled(e) /\ ~delegations[IntentOf[e].delegation].revoked /\ now < IntentOf[e].grant

Live(r) ==
  LET ask == rq[r].ask
  IN /\ rq[r].pc = "live"
     /\ Answer(r, IF IsLive(ask.intent) /\ now < End(ask.intent) THEN "enrolled" ELSE "unavailable")
     /\ UNCHANGED <<operator, auths, ledger, delegations, now>>

Enrol(r) ==
  LET e == rq[r].ask.intent
  IN /\ rq[r].pc = "enrol" /\ Step(r, "enrolled")
     /\ IF IsOpen(e) THEN Enrolment(r, e) ELSE UNCHANGED <<ledger, delegations>>
     /\ UNCHANGED <<operator, auths, now>>

Enrolled(r) ==
  LET e == rq[r].ask.intent
      op == ledger[IntentOf[e].operation]
  IN /\ rq[r].pc = "enrolled"
     /\ Answer(r, IF op.ask # e \/ op.outcome # "enrolled" THEN "conflict"
                  ELSE IF IsLive(e) THEN "enrolled" ELSE "withdrawn")
     /\ UNCHANGED <<operator, auths, ledger, delegations, now>>

(***************************************************************************)
(* withdraw, by the operator: the ledger, the delegation, the ledger.      *)
(***************************************************************************)
Record(r) ==
  LET ask == rq[r].ask
      op == ledger[ask.op]
  IN /\ rq[r].pc = "withdraw"
     /\ IF op = None
          THEN /\ ledger' = [ledger EXCEPT ![ask.op] = [ask |-> ask, claim |-> r, outcome |-> "pending"]]
               /\ Step(r, "delegation")
          ELSE /\ UNCHANGED ledger
               /\ IF op.ask = ask THEN Step(r, "delegation") ELSE Answer(r, "conflict")
     /\ UNCHANGED <<operator, auths, delegations, now>>

\* The issuer's operation is first written here, so a retry finds it done.
Withdraw(r) ==
  /\ rq[r].pc = "delegation" /\ Step(r, "outcome")
  /\ delegations' = [delegations EXCEPT ![rq[r].ask.delegation].revoked = TRUE]
  /\ UNCHANGED <<operator, auths, ledger, now>>

Withdrawn(r) ==
  /\ rq[r].pc = "outcome" /\ Answer(r, "withdrawn")
  /\ ledger' = [ledger EXCEPT ![rq[r].ask.op].outcome = "withdrawn"]
  /\ UNCHANGED <<operator, auths, delegations, now>>

\* The request is cut off: what it committed stays.
Abandon(r) ==
  /\ rq[r].pc \notin {"idle", "end"} /\ Answer(r, "none")
  /\ UNCHANGED <<operator, auths, ledger, delegations, now>>

Tick ==
  /\ now < MaxTime /\ now' = now + 1
  /\ UNCHANGED <<operator, auths, ledger, delegations, rq>>

Init ==
  /\ operator = [o \in Operators |-> None] /\ auths = [a \in Auths |-> None]
  /\ ledger = [o \in Ledger |-> None] /\ delegations = [d \in Delegations |-> None]
  /\ rq = [r \in Requests |-> [pc |-> "idle", ask |-> None, answer |-> None]]
  /\ now = 0

Next ==
  \/ \E r \in Requests :
       \/ Ask(r) \/ Authorize(r) \/ Authorized(r) \/ Revoke(r) \/ Redeem(r) \/ Redeemed(r)
       \/ Live(r) \/ Enrol(r) \/ Enrolled(r) \/ Record(r) \/ Withdraw(r) \/ Withdrawn(r) \/ Abandon(r)
  \/ Tick

(***************************************************************************)
(* Properties.                                                             *)
(***************************************************************************)

\* An authorization shows its credential in one answer and is spent by one
\* redemption, and what the two tables say of it agrees: an enrolment made
\* with a credential is the one its authorization names as its outcome, however
\* redemptions race with each other and with the operator's own enrolment, and
\* whoever is cut off.
SingleUse ==
  \A a \in Auths :
    LET redeemers == {r \in Requests : rq[r].ask # None /\ rq[r].ask.kind = "redeem" /\ rq[r].ask.auth = a}
        enrolling == {r \in redeemers : \E o \in Ledger : /\ ledger[o] # None /\ ledger[o].claim = r
                                                          /\ ledger[o].outcome = "enrolled"}
    IN /\ Cardinality(Shown(a)) <= 1 /\ Cardinality(enrolling) <= 1
       /\ \A r \in redeemers : rq[r].answer = "enrolled" => r \in enrolling
       /\ \A r \in enrolling : auths[a].claim = r /\ auths[a].outcome = "enrolled"
       /\ auths[a] # None /\ auths[a].outcome = "enrolled" => auths[a].claim \in enrolling

\* Once a revocation is recorded its authorization never becomes usable, not
\* even one that was on its way when it was revoked unseen, and no redemption
\* under way enrols with it.  A withdrawn delegation is not enrolled again.
KeepsRevoked ==
  /\ \A a \in Auths : IsRevoked(a) =>
       /\ auths'[a] # None => auths'[a].state = "revoked"
       /\ \A o \in Ledger : ledger'[o] # None /\ ledger[o] = None =>
            LET ask == rq[ledger'[o].claim].ask
            IN ask.kind = "redeem" => ask.auth # a
  /\ \A d \in Delegations :
       delegations[d] # None /\ delegations[d].revoked => delegations'[d] = delegations[d]
RevocationHolds == [][KeepsRevoked]_vars
=============================================================================
