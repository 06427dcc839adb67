------------------------------- MODULE MCRelay -------------------------------
\* The APNs relay for TLC: its credentials, its pushes, and what its operator
\* lists; and the other parts that ask a provider: the delivery of rich
\* sessions, the status of certificates, and the evidence of an enrollment.
\* Each is explored on its own.
EXTENDS MCInstallCredentials, Relay

CONSTANTS e1, e2, g1, u1, x1, x2, da, db, ta, tb, us, ios, watchos,
          l1, l2, p1, p2, ad, ae, t1, t2, t3, v1, v2, w1, w2

(***************************************************************************)
(* Pushes.                                                                 *)
(***************************************************************************)
Ask(kind, key, user, clients) == [kind |-> kind, key |-> key, user |-> user, clients |-> clients]

SixAsks == [r \in Pushes |->
  CASE r = x1 -> {Ask("register", <<da, ta>>, us, {})}
    [] r = x2 -> {Ask("register", <<da, tb>>, us, {}),
                  Ask("register", <<da, ta>>, None, {})}
    [] r = u1 -> {Ask("unregister", <<da, None>>, None, {}), Ask("unregister", <<da, ta>>, None, {})}
    [] r = g1 -> {Ask("report", <<da, ta>>, None, {})}
    [] r = e1 -> {Ask("event", <<da, ta>>, None, {})}
    [] r = e2 -> {Ask("event", <<da, ta>>, None, {ios}), Ask("event", <<da, ta>>, us, {})}]

AppOf == [d \in Phones |-> IF d = da THEN ios ELSE watchos]

(***************************************************************************)
(* Rich deliveries: two of one operation, or of two, on two adapters.      *)
(***************************************************************************)
From(x, y) == [from |-> x, to |-> y]
Lease(o) == [op |-> o, frame |-> [parsed |-> TRUE, bounds |-> From(1, 2), state |-> From(1, 2), rich |-> From(0, 2)],
             original |-> From(1, 2), event |-> "update", dismissed |-> FALSE, expires |-> 2]
Unfit == {[Lease(p1) EXCEPT !.frame.parsed = FALSE], [Lease(p1) EXCEPT !.frame.rich = None],
          [Lease(p1) EXCEPT !.frame.rich = From(0, 1)], [Lease(p1) EXCEPT !.original = From(0, 2)],
          [Lease(p1) EXCEPT !.frame.bounds = From(0, 1), !.original = From(0, 1)],
          [Lease(p1) EXCEPT !.dismissed = TRUE]}
TwoLeases == [l \in Deliveries |-> IF l = l1 THEN {Lease(p1)} ELSE {Lease(p1), Lease(p2)} \cup Unfit]

(***************************************************************************)
(* Status: three checks of two certificates of one role.  Evidence: two    *)
(* verifications, two challenges.                                          *)
(***************************************************************************)
Signers == {t1, t2}
TwoRoles == [t \in Tuples |-> IF t = t3 THEN "issuer-crl" ELSE "signer-ocsp"]
ChainEnds == [t \in Tuples |-> IF t = t2 THEN 2 ELSE 9]
Of(t, next) == [tuple |-> t, good |-> TRUE, this |-> 0, next |-> next]
ToChecks == {Of(t1, 3), Of(t2, 9)}
ToVerifies == {Of(t1, 9), Of(t3, 1), Of(t3, 3), [Of(t3, 3) EXCEPT !.good = FALSE]}
Answers == ToChecks \cup ToVerifies

Challenge(n) == [id |-> n, key |-> 1, data |-> n, from |-> 0, until |-> 3]
TwoChallenges == {Challenge(1), Challenge(2)}
Genuine == [signed |-> TRUE, key |-> 1, data |-> 1, ends |-> 3,
            receipt |-> [signed |-> TRUE, key |-> 1, data |-> 1, created |-> 0, expires |-> 4, ends |-> 5,
                         crl |-> t3, ocsp |-> t1]]
Attested == {Genuine, [Genuine EXCEPT !.data = 2], [Genuine EXCEPT !.receipt.key = 2]}

(***************************************************************************)
(* Listings of three registrations, page by page.                          *)
(***************************************************************************)
Filters == [w \in Walks |-> IF w = w1 THEN "all" ELSE "active"]
Proofs == [w \in Walks |-> [kind |-> IF w = w1 THEN "secret" ELSE "signature", at |-> 0]]

(***************************************************************************)
(* The bounds of the run.                                                  *)
(***************************************************************************)
Pushing(r) == pushes[r].pc # "idle"
Open == {r \in Pushes : pushes[r].pc \notin {"idle", "ended", "failed"}}
Registered(r) == pushes[r].pc = "ended"
Failed == {r \in Pushes : pushes[r].pc = "failed"}

\* Two events over two rows, one of which is registered between them, or again.
TwoEvents ==
  /\ bearer /\ ~Pushing(u1) /\ ~Pushing(g1) /\ Failed = {}
  /\ Pushing(e1) => Registered(x1)
  /\ Pushing(x2) => Pushing(e1)
  /\ Pushing(e2) => Registered(x2)

\* An event while a device goes, the operator revokes the token or reads the
\* diagnostics, and a request fails.
Disturbed ==
  /\ ~Pushing(e2) /\ Cardinality(Failed) <= 1
  /\ Pushing(x2) => Registered(x1)
  /\ Pushing(e1) => Registered(x2)
  /\ Pushing(u1) => Pushing(e1) /\ ~Pushing(g1) /\ bearer /\ Failed = {}
  /\ Pushing(g1) => Pushing(e1) /\ ~Pushing(u1) /\ bearer
  /\ ~bearer => Failed \subseteq {e1}

\* One of a cancellation, an adapter that closed, or an owner that withdrew.
Disturbances ==
  Cardinality({l \in Deliveries : deliveries[l].aborted}) + Cardinality({a \in Adapters : adapter[a].closed})
    + Cardinality(Operations \ current)
RichBound == Disturbances <= 1 /\ deliveries[l1].on # ae /\ (deliveries[l1].on = None => deliveries[l2].on = None)

\* A status may be of another certificate, or bad, only in the part of the status.
\* The second verification is refused while the first begins, or begins when the
\* first has been given evidence of a status that was a unit old.
Stage(v) == verifications[v].pc
IsLater(v) == Stage(v) # "idle" /\ verifications[v].attestation # None
EvidenceBound ==
  /\ \A c \in DOMAIN checks : checks[c].got # None => checks[c].got \in ToVerifies /\ checks[c].got.tuple = checks[c].tuple
  /\ \A v \in Verifies : \/ verifications[v].attestation \in {None, Genuine}
                         \/ clock = 0 /\ changes = 0 /\ Stage(v2) = "idle"
                         \/ Stage(v) \in {"core", "digest", "cms", "end"} /\ clock = 0
  /\ Stage(v2) # "idle" => Stage(v1) # "idle"
  /\ Stage(v2) = "end" /\ ~IsLater(v2) => clock = 0 /\ Stage(v1) = "core"
  /\ IsLater(v2) => /\ changes = 0 /\ verifications[v2].attestation = Genuine
                    /\ \E e \in given : e.by = v1 /\ e.at = 1
                    /\ checks[<<v1, "crl">>].answer.checkedAt = 0 /\ checks[<<v1, "crl">>].told = 1

\* One listing, out of whose filter two rows may go.
ListingBound == walks[w2].left <= 2 /\ \E w \in Walks : walks[w].pc = "idle"

\* Three checks of the signers begin in order, the third one when the first has
\* ended.
Check1 == <<v1, "crl">>
Check2 == <<v1, "ocsp">>
Check3 == <<v2, "crl">>
StatusBound ==
  /\ checks[Check2].pc # "idle" => checks[Check1].pc # "idle"
  /\ checks[Check3].pc # "idle" => checks[Check2].pc # "idle" /\ checks[Check1].pc = "end"
  /\ checks[<<v2, "ocsp">>].pc = "idle"
  /\ \A c \in DOMAIN checks : checks[c].tuple \in Signers \cup {None} /\ checks[c].got \in ToChecks \cup {None}

RelayBound ==
  CASE part = "credentials" -> Bounded
    [] part = "pushes"      -> TwoEvents \/ Disturbed
    [] part = "rich"        -> RichBound
    [] part = "status"      -> StatusBound
    [] part = "evidence"    -> EvidenceBound
    [] part = "listing"     -> ListingBound
=============================================================================
