------------------------------ MODULE MCSurface ------------------------------
\* The surface push service for TLC: the pushes of one delegation, with the
\* enrollment before it and the journal of native proofs, each explored on its
\* own.
EXTENDS Surface, TLC

CONSTANTS a1, a2, b1, b2, w1, r1, d1, d2, d3, t1, o1, o2, o3, i1, i2,
          p1, p2, au1, au2, e1, e2, f1, g1, dl1, dl2, n1, n2, j1, j2, k1, x1, x2, x3, x4
VARIABLE part   \* which of the three is explored

(***************************************************************************)
(* The delegation.                                                         *)
(***************************************************************************)
Asks == [c \in Calls |->
  CASE c \in {a1, a2} -> {"challenge"}
    [] c \in {b1, b2} -> {"issue"}
    [] c = w1 -> {"withdraw"}
    [] c = r1 -> {"register"}
    [] OTHER -> {"register", "revoke", "event"}]
Deadlines == [o \in Ops \cup IssueOps |-> IF o \in {o3, i2} THEN 1 ELSE 2]

Alike == Permutations({a1, a2}) \cup Permutations({b1, b2})

Started == {c \in Calls : calls[c].pc # "idle"}
Holders == Started \cap {d1, d2, d3}
Asking(kind) == {c \in Started : calls[c].kind = kind}

\* Two issuing operations race with each other, with a withdrawal and with time.
Issuing == now < 2 /\ Started \subseteq {a1, a2, b1, b2, w1}

\* One capability is issued by one operation, at once and undisturbed.
Issued ==
  /\ Started \cap {a1, a2, b1, b2} \subseteq {a1, b1}
  /\ \A c \in Started \cap {a1, b1, w1} : calls[c].op = i1
  /\ (\A i \in IssueOps : caps[i] = None) => now = 0 /\ w1 \notin Started

\* Holders and operations that may be exchanged are used in order.
InOrder(c, c0, choices) ==
  c \in Started => c0 \in Started /\ calls[c].op \in choices

\* Registrations, rotations, revocations and a withdrawal of one target, three
\* after each other, two at a time.
Rotations ==
  /\ Issued /\ now = 0 /\ r1 \notin Started /\ Asking("event") = {}
  /\ Cardinality({c \in Holders : calls[c].pc # "done"}) <= 2
  /\ InOrder(d1, b1, {o1}) /\ InOrder(d2, d1, {o1, o2}) /\ InOrder(d3, d2, Ops)

\* A registered target.
Registered ==
  /\ Issued /\ InOrder(r1, b1, {o1})
  /\ r1 \in Started => calls[r1].revision = 1
  /\ IF r1 \in Started /\ calls[r1].pc = "done" THEN targets[t1] # None
     ELSE Holders = {} /\ w1 \notin Started /\ now = 0

\* Two events for it, or one and another request, while time passes.
Events ==
  /\ Registered
  /\ InOrder(d1, r1, {o2, o3}) /\ InOrder(d2, d1, {o2, o3}) /\ d3 \notin Started
  /\ Cardinality(Holders \ Asking("event")) <= 1
  /\ Cardinality(Holders) + Cardinality(Asking("withdraw")) <= 2

\* The bound of the run: a state of one of the three is continued.
InACorner == Issuing \/ Rotations \/ Events

(***************************************************************************)
(* Enrollment: one authorization and its twin for the same delegation.     *)
(***************************************************************************)
Grants == [e \in {e1, e2} |-> [delegation |-> dl1, operation |-> IF e = e1 THEN f1 ELSE g1,
                               consent |-> e, deadline |-> 1, grant |-> 2]]
Authorization == [kind |-> "authorize", op |-> p1, auth |-> au1, intent |-> e1]
Redemption == [kind |-> "redeem", auth |-> au1, intent |-> e1]
Revocation == [kind |-> "revoke", op |-> p2, auth |-> au1]
Asked ==
  << {Authorization, Revocation},
     {Authorization, Redemption, Revocation},
     {Redemption, Revocation, [kind |-> "enrol", intent |-> e1], [kind |-> "enrol", intent |-> e2],
      [kind |-> "authorize", op |-> p2, auth |-> au2, intent |-> e2]},
     {Redemption, [kind |-> "withdraw", op |-> g1, delegation |-> dl1]},
     {[kind |-> "enrol", intent |-> e1], [kind |-> "withdraw", op |-> g1, delegation |-> dl1]} >>

Calling == 1 .. 5
Operating == {p1, p2}
Authorizing == {au1, au2}
Enrolling == {e1, e2}
Recorded == {f1, g1}
Delegated == {dl1}

ASSUME E!EnrollmentAssumption

(***************************************************************************)
(* The journal: a job that brings a new key and one that knows it.         *)
(***************************************************************************)
Owners == {n1, n2}
Proved == {j1, j2}
SameScope == [j \in Proved |-> "scope"]
Drawn == [j \in Proved |-> IF j = j1 THEN [key |-> x1, target |-> x2] ELSE [key |-> x3, target |-> x4]]
Attesting == {k1}
Retiring == {"REJECTED_RETIRED"}
Claiming == 1 .. 6

ASSUME J!JournalAssumption

enrollment == <<operator, auths, ledger, delegations, rq, clock>>
journal == <<jobs, claims, nonces, counters, held, poisoned, shut, drawn>>

SurfaceInit == Init /\ E!Init /\ J!Init /\ part = "any"
Explores(which) == part \in {"any", which} /\ part' = which
SurfaceNext ==
  \/ Explores("pushes") /\ Next /\ UNCHANGED <<enrollment, journal>>
  \/ Explores("enrollment") /\ E!Next /\ UNCHANGED <<vars, journal>>
  \/ Explores("journal") /\ J!Next /\ UNCHANGED <<vars, enrollment>>
SurfaceSpec == SurfaceInit /\ [][SurfaceNext]_<<vars, enrollment, journal, part>>

(***************************************************************************)
(* The bound.                                                              *)
(***************************************************************************)
\* Requests come in order, three at a time.
Enrollments ==
  /\ \A r \in 2..5 : rq[r].pc # "idle" => rq[r - 1].pc # "idle"
  /\ Cardinality({r \in 1..5 : rq[r].pc \notin {"idle", "end"}}) <= 3

\* Claims are drawn in order; the second journal takes over when the first is
\* closed, or works beside it on the second job.
Proofs ==
  /\ drawn = 1..Cardinality(drawn) /\ n2 \notin shut
  /\ jobs[j2] # None => jobs[j1] # None
  /\ Cardinality({c \in Claiming : claims[c] # None /\ claims[c].outcome = "reserved"}) <= 2
  /\ Cardinality(poisoned) <= 1

SurfaceBound ==
  CASE part = "enrollment" -> Enrollments [] part = "journal" -> Proofs [] OTHER -> InACorner
=============================================================================
