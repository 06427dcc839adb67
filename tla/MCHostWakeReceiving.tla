------------------------- MODULE MCHostWakeReceiving -------------------------
\* An instance of HostWakeReceiving for TLC: one authorization and its key.
EXTENDS HostWakeReceiving

CONSTANTS i1, i2, i3, h1, h2, h3, k1, k2, k3, s1, w1, v1, v2, x1, p1, p2, p3, o1, o2, o3

Ask(kind, ps, os) == [kind : {kind}, purpose : ps, op : os]
Asks == [c \in Calls |->
  CASE c = i1 -> Ask("issue", {p1}, {o1})
    [] c = i2 -> Ask("issue", {p2}, {o2}) \cup Ask("issue", {p1}, {o1, o2})
    [] c = i3 -> Ask("issue", {p3}, {o3})
    [] c = h1 -> Ask("challenge", {p1}, {o1})
    [] c = h2 -> Ask("challenge", {p2}, {o2})
    [] c = h3 -> Ask("challenge", {p3}, {o3})
    [] c = k1 -> Ask("complete", {p1}, {o1})
    [] c = k2 -> Ask("complete", {p2}, {o2})
    [] c = k3 -> Ask("complete", {p3}, {o3})
    [] c = s1 -> Ask("register", {p1}, {o1})
    [] c = w1 -> Ask("wake", {p1}, {o1})
    [] c = v1 -> Ask("revoke", {p1}, {o1})
    [] c = v2 -> Ask("withdraw", {p1}, {o1})
    [] c = x1 -> Ask("policy_withdraw", {p1}, {o1})]
Expiries == [p \in Purposes |-> MaxTime + 2]

Started == {c \in Calls : calls[c].pc # "idle"}
Done(c) == calls[c].pc \in {"answered", "acked", "done"}
Busy == {c \in Started : ~Done(c)}
After(c, S) == c \in Started => S \subseteq Started
Failing == {c \in Started : calls[c].pc \in {"fail_proof", "fail_issuer", "fail_intent"}}
Late == {c \in Calls : late[c] # None}

\* The requests of S come one after the other, and none fails.
InTurn(S) ==
  /\ now = 0 /\ Cardinality(Busy) <= 1 /\ Failing \cap S = {} /\ Late = {}
  /\ \A c \in S : calls[c].pc = "done" => calls[c].kind \in {"challenge", "complete"}
  /\ \A r \in Rows(db.intents) : db.intents[r].outcome \in {"reserved", "completed"}
Ready == db.policy # None

\* Two issues, and withdrawals of the one purpose or of the authorization.
Issuing ==
  /\ Started \subseteq {i1, i2, v1} \/ Started \subseteq {i1, v1, v2}
  /\ Cardinality(Busy) <= 2 /\ Cardinality(Late) <= 1
  /\ Started # {} => Ready /\ i1 \in Started
  /\ i2 \in Started => calls[i2].purpose = p1
  /\ ~db.disabled

\* A purpose is proved by the attestation; two more are issued and
\* challenged, and their proofs run side by side.
First == {i1, h1, k1}
Second == {i2, i3, h2, h3}
Proofs ==
  /\ ~db.disabled /\ Started \subseteq First \cup Second \cup {k2, k3, x1}
  /\ Started # {} => Ready
  /\ After(h1, {i1}) /\ After(k1, {h1}) /\ After(i2, {k1}) /\ After(i3, {i2}) /\ After(h2, {i3})
  /\ After(h3, {h2}) /\ After(k2, {h3}) /\ After(k3, {k2}) /\ After(x1, {k2})
  /\ i2 \in Started => calls[i2].purpose = p2 /\ db.verif[p1] # None
  /\ k2 \in Started \/ InTurn(First \cup Second)
  /\ h2 \in Started => db.issuer[p3] # None
  /\ k2 \in Started => db.jobs[p3] # None /\ Cardinality(Busy) <= 2 /\ Cardinality(Late) <= 1 /\ now = 0

\* The proved purpose is registered and wakes, while it is withdrawn.
Wakes ==
  /\ Started \subseteq First \cup {s1, w1, v1, x1}
  /\ Started # {} => Ready
  /\ After(h1, {i1}) /\ After(k1, {h1}) /\ After(s1, {k1}) /\ After(w1, {s1}) /\ After(v1, {s1}) /\ After(x1, {s1})
  /\ s1 \in Started \/ (InTurn(First) /\ ~db.disabled)
  /\ s1 \in Started => db.verif[p1] # None /\ Cardinality(Busy) <= 2 /\ Cardinality(Late) <= 1
  /\ IF w1 \in Started THEN Done(s1) /\ db.reg[p1] = s1 /\ Failing \cap {s1} = {} ELSE now = 0
  /\ Cardinality(Started \cap {v1, x1}) + (IF db.disabled THEN 1 ELSE 0) <= 1

\* The bound of the run: a state of one of the three is continued.
InACorner == Issuing \/ Proofs \/ Wakes
=============================================================================
