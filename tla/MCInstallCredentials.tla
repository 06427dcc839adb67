------------------------ MODULE MCInstallCredentials ------------------------
\* Instances of InstallCredentials for TLC.
EXTENDS InstallCredentials, TLC

CONSTANTS r1, r2, r3, r4, r5, r6

TwoPerDevice == [s \in Subjects |-> IF s = "device" THEN 2 ELSE 9]

\* Who may ask what.
Roles == [r \in Requests |-> CASE r \in {r1, r2} -> {"pairing", "token", "operator"}
                               [] r = r3         -> {"pairing", "token"}
                               [] r = r4         -> {"token"}
                               [] OTHER          -> {"rotate", "revoke"}]
OneBuyer == [r \in Requests |-> IF r = r1 THEN {"operator"} ELSE {"token"}]

Alike == Permutations({r1, r2}) \cup Permutations({r5, r6})

Started == {r \in Requests : rq[r].pc # "idle"}
Asks(r, kinds) == rq[r].kind \in kinds \cup {None}

Ended(r) == rq[r].pc \in {"done", "refused", "failed"}

\* Three requests of an unprivileged client, of which one fails and one names
\* another install, while proofs and windows expire.
Pairing ==
  /\ Started \subseteq {r1, r2, r3} /\ Asks(r3, {"token"}) /\ \A r \in Started : Asks(r, {"pairing", "token"})
  /\ Cardinality({r \in Started : rq[r].pc = "failed"}) <= 1
  /\ Cardinality({r \in Started : rq[r].install # Idle.install}) <= 1

\* Two proofs, issued one after the other before anyone presents them, two
\* tokens, and two requests that rotate or revoke them.
Rotating ==
  /\ now = 0 /\ Asks(r1, {"operator"}) /\ Asks(r2, {"operator"}) /\ Asks(r3, {"token"})
  /\ Cardinality({r \in Started \cap {r1, r2} : ~Ended(r)}) <= 1
  /\ Started \subseteq {r1, r2} \/ (Ended(r1) /\ Ended(r2))

\* The bound of the run of the credentials: a state of one of the two is
\* continued.
Bounded == Pairing \/ Rotating
=============================================================================
