----------------------------- MODULE WatchPairing -----------------------------
(***************************************************************************)
(* Enrollment of the issuer of an installation, pairing and recovery of    *)
(* its Watch receivers, and the front ends of a preference write           *)
(* (src/src/watch-lifecycle).  A step is one D1 statement, with its        *)
(* triggers, or the synchronous code between two awaits.  The answer of a  *)
(* request is separate from its statement: a request that has given up may *)
(* still commit.                                                           *)
(***************************************************************************)
EXTENDS Integers, FiniteSets

CONSTANTS
  Requests, AsksOf,      \* [Requests -> SUBSET Ask]
  Operators,             \* operator bindings
  IntentOf,              \* [Operators -> Intent]: what each of them grants
  Recoveries, GrantOf,   \* [Recoveries -> Grant]: the recoveries granted
  Receivers, Incarnations, Keys, Operations, Epochs,
  EnrollmentCapacity,    \* challenges D1 keeps
  MaxTime,               \* bound: the clock
  None

Intent == [key : Keys, expected : Nat, expires : Nat]
Grant == [receiver : Receivers, from : Epochs, predecessor : Incarnations, epoch : Epochs,
          key : Keys, incarnation : Incarnations, expires : Nat]

\* The bodies: an enrollment names its grant; a lifecycle body is signed by the
\* key of an epoch; a recovery presents its grant.
Enrolling == [kind : {"issue", "redeem"}, operator : Operators]
Lifecycle == [kind : {"pair", "replace", "retire", "write"}, receiver : Receivers, epoch : Epochs, key : Keys,
              incarnation : Incarnations, predecessor : Incarnations \cup {None},
              operation : Operations, expires : Nat]
Recovering == [kind : {"recover"}, grant : Recoveries, operation : Operations, expires : Nat]
Ask == Enrolling \cup Lifecycle \cup Recovering

VARIABLES
  issuer,     \* watch_lifecycle_issuer
  challenges, \* watch_lifecycle_enrollment, by operator binding (unique)
  rows,       \* watch_lifecycle_preference
  used,       \* watch_lifecycle_incarnation
  receipts,   \* watch_lifecycle_receipt
  recovered,  \* the grants of watch_lifecycle_recovery that are consumed
  grants,     \* watch_enrollment_authority, in the actor
  baseline,   \* the actor's restore state: none, baseline, or moved on
  rq, now,
  committed   \* a history: the requests whose statement changed a row

d1 == <<issuer, challenges, rows, used, receipts, recovered>>
owner == <<grants, baseline>>
vars == <<d1, owner, rq, now, committed>>

Issuer == [epoch : Nat, key : Keys, active : BOOLEAN]
Challenge == [epoch : Nat, expires : Nat, consumed : BOOLEAN]
Row == [epoch : Epochs, incarnation : Incarnations, revision : Nat, retired : BOOLEAN,
        lifecycle : Nat, operation : Operations]
Receipt == [receiver : Receivers, epoch : Epochs, operation : Operations, incarnation : Incarnations,
            lifecycle : Nat, retired : BOOLEAN]

Answers == {"receipt", "unavailable", "unknown"}
Request == [pc : {"idle", "ingress", "private", "owner", "select", "verify", "check", "submit", "reply", "end"},
            ask : Ask \cup {None}, found : BOOLEAN, answer : Answers \cup {None}]

\* A signed recovery names an epoch older than its own, so a grant that does
\* not is never used (proof.ts 60-64).
PairingAssumption ==
  /\ AsksOf \in [Requests -> SUBSET Ask] /\ IntentOf \in [Operators -> Intent]
  /\ GrantOf \in [Recoveries -> Grant] /\ Epochs \subseteq Nat
  /\ \A g \in Recoveries : GrantOf[g].from < GrantOf[g].epoch
  /\ None \notin Ask \cup Answers \cup Issuer \cup Challenge \cup Row

Idle == [pc |-> "idle", ask |-> None, found |-> FALSE, answer |-> None]

Goto(r, pc) == rq' = [rq EXCEPT ![r].pc = pc]

\* A request that was answered meanwhile keeps its answer.
Settled(r, answer) == IF rq[r].answer = None THEN answer ELSE rq[r].answer
End(r, answer) == rq' = [rq EXCEPT ![r].pc = "end", ![r].answer = Settled(r, answer)]

\* expires - unixepoch() BETWEEN 1 AND 30; a body is never made earlier.
InTime(expires) == now < expires

First(kind) ==
  CASE kind = "issue"               -> "check"
    [] kind \in {"redeem", "recover"} -> "select"
    [] kind = "write"               -> "ingress"
    [] OTHER                        -> "submit"

\* The proof of a signed body is verified on arrival.
Start(r) ==
  /\ rq[r].pc = "idle"
  /\ \E a \in AsksOf[r] :
       /\ a.kind \notin {"issue", "redeem"} => InTime(a.expires)
       /\ rq' = [rq EXCEPT ![r].pc = First(a.kind), ![r].ask = a]
  /\ UNCHANGED <<d1, owner, now, committed>>

(***************************************************************************)
(* The front ends of a write: each admits it and forwards it to the next.  *)
(***************************************************************************)
Pass(r, from, to) ==
  /\ rq[r].pc = from /\ InTime(rq[r].ask.expires) /\ Goto(r, to)
  /\ UNCHANGED <<d1, owner, now, committed>>

Ingress(r) == Pass(r, "ingress", "private")
Entrypoint(r) == Pass(r, "private", "owner")
Owner(r) == Pass(r, "owner", "select")

Turndown(r) ==
  /\ rq[r].pc \in {"ingress", "private", "owner"} /\ End(r, "unavailable")
  /\ UNCHANGED <<d1, owner, now, committed>>

ForwardedLate(r) == rq[r].pc = "reply"
\* Whether the front end that answers takes the effect for possible: the
\* ingress has forwarded the write, the others are about to submit.
Forwarded(r) == IF rq[r].ask.kind = "write" THEN rq[r].pc # "ingress" ELSE rq[r].pc \in {"submit", "reply"}

\* The ingress gives up a write after its three seconds, whatever goes on behind
\* it; and a statement whose answer is lost is answered, whether it ran or not.
GiveUp(r) ==
  /\ rq[r].answer = None
  /\ \/ rq[r].ask # None /\ rq[r].ask.kind = "write" /\ rq[r].pc \notin {"idle", "end"}
     \/ rq[r].pc = "submit"
  /\ rq' = [rq EXCEPT ![r].answer = IF Forwarded(r) THEN "unknown" ELSE "unavailable",
                      ![r].pc = IF @ = "ingress" THEN "end" ELSE @]
  /\ UNCHANGED <<d1, owner, now, committed>>

(***************************************************************************)
(* Reads and checks before the statement.                                  *)
(***************************************************************************)
IsIssuer(epoch, key) == issuer # None /\ issuer.active /\ issuer.epoch = epoch /\ issuer.key = key

Select(r) ==
  LET a == rq[r].ask
      present == CASE a.kind = "redeem"  -> /\ challenges[a.operator] # None /\ ~challenges[a.operator].consumed
                                            /\ InTime(challenges[a.operator].expires)
                   [] a.kind = "recover" -> a.grant \notin recovered
                   [] OTHER              -> IsIssuer(a.epoch, a.key)
  IN /\ rq[r].pc = "select"
     /\ IF ~present THEN End(r, "unavailable") ELSE Goto(r, IF a.kind = "redeem" THEN "verify" ELSE "check")
     /\ UNCHANGED <<d1, owner, now, committed>>

\* The owner's check of an enrollment: the grant is there and not revoked; for
\* the first issuer, the actor still holds the baseline.
IsAdmitted(o) ==
  /\ grants[o] = "granted" /\ InTime(IntentOf[o].expires)
  /\ IntentOf[o].expected = 0 => baseline = "baseline"

\* The checks run in the turn that submits the statement; a write reserves
\* its preference first.
Check(r) ==
  LET a == rq[r].ask
      admitted == /\ a.kind \in {"issue", "redeem"} => IsAdmitted(a.operator)
                  /\ a.kind = "write" => InTime(a.expires)
  IN /\ rq[r].pc \in {"verify", "check"}
     /\ \/ ~admitted /\ End(r, "unavailable") /\ UNCHANGED baseline
        \/ admitted /\ Goto(r, IF rq[r].pc = "verify" THEN "check" ELSE "submit")
           /\ baseline' = IF a.kind = "write" THEN "moved" ELSE baseline
     /\ UNCHANGED <<d1, grants, now, committed>>

\* Another check fails: the operator, the restore witness, the machine
\* credential, the signal or the proof.
Refuse(r) ==
  /\ rq[r].pc \in {"verify", "check"} /\ End(r, "unavailable")
  /\ UNCHANGED <<d1, owner, now, committed>>

(***************************************************************************)
(* The statements.  Run ends each of them: the request, and the history.   *)
(***************************************************************************)
Run(r, kind, found) ==
  /\ rq[r].pc = "submit" /\ rq[r].ask.kind = kind
  /\ rq' = [rq EXCEPT ![r].pc = "reply", ![r].found = found]
  /\ committed' = IF found THEN committed \cup {r} ELSE committed
  /\ UNCHANGED <<owner, now>>

\* The issuer a challenge may follow: none, or its inactive predecessor.
SuccessorOfAny(expected) == expected = 0 \/ (issuer # None /\ issuer.epoch = expected)
Successor(expected) ==
  IF expected = 0 THEN issuer = None ELSE issuer # None /\ issuer.epoch = expected /\ ~issuer.active

RunIssue(r) ==
  LET o == rq[r].ask.operator
      intent == IntentOf[o]
      found == /\ InTime(intent.expires) /\ Successor(intent.expected) /\ challenges[o] = None
               /\ Cardinality({x \in Operators : challenges[x] # None}) < EnrollmentCapacity
  IN /\ Run(r, "issue", found)
     /\ challenges' = IF found THEN [challenges EXCEPT ![o] =
          [epoch |-> intent.expected + 1, expires |-> intent.expires, consumed |-> FALSE]] ELSE challenges
     /\ UNCHANGED <<issuer, rows, used, receipts, recovered>>

\* With the trigger that activates the issuer.
RunRedeem(r) ==
  LET o == rq[r].ask.operator
      found == ~challenges[o].consumed /\ InTime(challenges[o].expires) /\ Successor(IntentOf[o].expected)
  IN /\ Run(r, "redeem", found)
     /\ challenges' = IF found THEN [challenges EXCEPT ![o].consumed = TRUE] ELSE challenges
     /\ issuer' = IF found THEN [epoch |-> challenges[o].epoch, key |-> IntentOf[o].key, active |-> TRUE] ELSE issuer
     /\ UNCHANGED <<rows, used, receipts, recovered>>

\* The triggers of a row that changes its lifecycle.
Recorded(x, row) ==
  /\ rows' = [rows EXCEPT ![x] = row]
  /\ used' = [used EXCEPT ![x] = @ \cup {row.incarnation}]
  /\ receipts' = receipts \cup {[receiver |-> x, epoch |-> row.epoch, operation |-> row.operation,
       incarnation |-> row.incarnation, lifecycle |-> row.lifecycle, retired |-> row.retired]}

IsUnused(x, incarnation) == incarnation \notin used[x]
IsFresh(x, epoch, operation) ==
  ~\E c \in receipts : c.receiver = x /\ c.epoch = epoch /\ c.operation = operation

Paired(incarnation, epoch, lifecycle, operation) ==
  [epoch |-> epoch, incarnation |-> incarnation, revision |-> 0, retired |-> FALSE,
   lifecycle |-> lifecycle, operation |-> operation]

RunLifecycle(r) ==
  LET a == rq[r].ask
      row == rows[a.receiver]
      signed == /\ InTime(a.expires) /\ IsIssuer(a.epoch, a.key) /\ IsFresh(a.receiver, a.epoch, a.operation)
      standing(incarnation) == row # None /\ row.epoch = a.epoch /\ row.incarnation = incarnation /\ ~row.retired
      found == signed /\ CASE a.kind = "pair"    -> row = None /\ IsUnused(a.receiver, a.incarnation)
                           [] a.kind = "replace" -> standing(a.predecessor) /\ IsUnused(a.receiver, a.incarnation)
                           [] a.kind = "retire"  -> standing(a.incarnation)
      after == CASE a.kind = "pair"    -> Paired(a.incarnation, a.epoch, 1, a.operation)
                 [] a.kind = "replace" -> Paired(a.incarnation, a.epoch, row.lifecycle + 1, a.operation)
                 [] a.kind = "retire"  -> [row EXCEPT !.retired = TRUE, !.lifecycle = @ + 1, !.operation = a.operation]
  IN /\ rq[r].ask # None /\ rq[r].ask.kind \in {"pair", "replace", "retire"}
     /\ Run(r, a.kind, found)
     /\ IF found THEN Recorded(a.receiver, after) ELSE UNCHANGED <<rows, used, receipts>>
     /\ UNCHANGED <<issuer, challenges, recovered>>

\* The conditions of a recovery that its grant names.
Recoverable(g, a) ==
  /\ g.expires > now /\ InTime(a.expires) /\ IsIssuer(g.epoch, g.key)
  /\ rows[g.receiver] # None /\ rows[g.receiver].epoch = g.from /\ rows[g.receiver].incarnation = g.predecessor
  /\ IsUnused(g.receiver, g.incarnation) /\ IsFresh(g.receiver, g.epoch, a.operation)

RunRecover(r) ==
  LET a == rq[r].ask
      g == GrantOf[a.grant]
      found == a.grant \notin recovered /\ Recoverable(g, a)
  IN /\ rq[r].ask # None /\ rq[r].ask.kind = "recover"
     /\ Run(r, "recover", found)
     /\ recovered' = IF found THEN recovered \cup {a.grant} ELSE recovered
     /\ IF found THEN Recorded(g.receiver, Paired(g.incarnation, g.epoch, rows[g.receiver].lifecycle + 1, a.operation))
        ELSE UNCHANGED <<rows, used, receipts>>
     /\ UNCHANGED <<issuer, challenges>>

\* A write of the preference of the pairing that is current.
RunWrite(r) ==
  LET a == rq[r].ask
      row == rows[a.receiver]
      found == /\ InTime(a.expires) /\ IsIssuer(a.epoch, a.key)
               /\ row # None /\ row.epoch = a.epoch /\ row.incarnation = a.incarnation /\ ~row.retired
  IN /\ Run(r, "write", found)
     /\ rows' = IF found THEN [rows EXCEPT ![a.receiver].revision = @ + 1] ELSE rows
     /\ UNCHANGED <<issuer, challenges, used, receipts, recovered>>

\* What the statement found is answered; the checks after it may fail.
Reply(r) ==
  /\ rq[r].pc = "reply"
  /\ \/ rq[r].found /\ End(r, "receipt")
     \/ rq[r].found /\ rq[r].ask.kind \in {"issue", "redeem", "retire", "write"} /\ End(r, "unknown")
     \/ ~rq[r].found /\ End(r, "unavailable")
  /\ UNCHANGED <<d1, owner, now, committed>>

(***************************************************************************)
(* The actor and the operator.                                             *)
(***************************************************************************)
\* prepare and authorize: the grant, and the baseline of a first issuer, which
\* is never reset.
Authorize(o) ==
  /\ grants[o] = "none" /\ (IntentOf[o].expected = 0 => baseline # "moved")
  /\ grants' = [grants EXCEPT ![o] = "granted"]
  /\ baseline' = IF IntentOf[o].expected = 0 THEN "baseline" ELSE baseline
  /\ UNCHANGED <<d1, rq, now, committed>>

Revoke(o) ==
  /\ grants[o] = "granted" /\ grants' = [grants EXCEPT ![o] = "revoked"]
  /\ UNCHANGED <<d1, baseline, rq, now, committed>>

\* The operator takes the issuer's key out of use.
Deactivate ==
  /\ issuer # None /\ issuer.active /\ issuer' = [issuer EXCEPT !.active = FALSE]
  /\ UNCHANGED <<challenges, rows, used, receipts, recovered, owner, rq, now, committed>>

Tick == now < MaxTime /\ now' = now + 1 /\ UNCHANGED <<d1, owner, rq, committed>>

Init ==
  /\ issuer = None /\ challenges = [o \in Operators |-> None] /\ rows = [x \in Receivers |-> None]
  /\ used = [x \in Receivers |-> {}] /\ receipts = {} /\ recovered = {}
  /\ grants = [o \in Operators |-> "none"] /\ baseline = "none"
  /\ rq = [r \in Requests |-> Idle] /\ now = 0 /\ committed = {}

Next ==
  \/ \E r \in Requests :
       \/ Start(r) \/ Ingress(r) \/ Entrypoint(r) \/ Owner(r) \/ Turndown(r) \/ GiveUp(r) \/ Select(r) \/ Check(r) \/ Refuse(r)
       \/ RunIssue(r) \/ RunRedeem(r) \/ RunLifecycle(r) \/ RunRecover(r) \/ RunWrite(r) \/ Reply(r)
  \/ \E o \in Operators : Authorize(o) \/ Revoke(o)
  \/ Deactivate \/ Tick

Spec == Init /\ [][Next]_vars

(***************************************************************************)
(* Properties                                                              *)
(***************************************************************************)
\* What is answered unavailable has had no effect and will have none, however
\* late the statement of a request that was given up runs; a receipt is only
\* given for an effect (access-ingress.ts 100-123, private-entrypoint.ts 65-72,
\* preference-http.ts 63-75, enrollment-http.ts 42-44, 70-78).
AnswerHonest ==
  \A r \in Requests : /\ rq[r].answer = "unavailable" => r \notin committed
                      /\ rq[r].answer = "receipt" => r \in committed

\* The receipts of a receiver are its lifecycle revisions, one each and without
\* a gap, across pairings, replacements, retirements and recoveries of several
\* epochs; the last is the row's, an incarnation that was left never comes back,
\* and a recovery follows the very pairing its grant names (pairing.ts 59-80,
\* recovery.ts 24-37, the triggers of 0012).
ReceiptChain ==
  \A x \in Receivers :
    LET mine == {c \in receipts : c.receiver = x}
        last == IF rows[x] = None THEN 0 ELSE rows[x].lifecycle
    IN /\ {c.lifecycle : c \in mine} = 1..last /\ Cardinality(mine) = last
       /\ \A c \in mine : c.lifecycle = last =>
            c.incarnation = rows[x].incarnation /\ c.epoch = rows[x].epoch /\ c.retired = rows[x].retired
       /\ \A c, e \in mine : c.lifecycle < e.lifecycle =>
            c.epoch <= e.epoch /\ (c.retired => e.epoch > c.epoch) /\ (c.incarnation = e.incarnation => e.retired)
       /\ \A g \in recovered, c, e \in mine :
            GrantOf[g].receiver = x /\ c.incarnation = GrantOf[g].incarnation /\ c.lifecycle = e.lifecycle + 1 =>
              c.epoch = e.epoch \/ (e.incarnation = GrantOf[g].predecessor /\ e.epoch = GrantOf[g].from)

\* An issuer is followed only when it is out of use, by the next epoch, whatever
\* challenges were issued and read before (enrollment.ts 84-92, 140-148).
IssuerSuccession ==
  [][issuer' # issuer =>
       IF issuer = None THEN issuer'.epoch = 1
       ELSE \/ issuer.active /\ issuer' = [issuer EXCEPT !.active = FALSE]
            \/ ~issuer.active /\ issuer'.active /\ issuer'.epoch = issuer.epoch + 1]_vars
\* Receipts are honest, one by one and as a chain.
ReceiptsHonest == AnswerHonest /\ ReceiptChain
=============================================================================
