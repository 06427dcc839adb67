----------------------------- MODULE MCHostWake -----------------------------
\* An instance of HostWake for TLC: two purposes of one host.
EXTENDS HostWake

CONSTANTS i1, i2, s1, s2, r1, r2, v1, w0, w1, w2, w3, p1, p2, o1, o2, o3, g1, g2

Ask(kind, ps, os, gs, rs) ==
  [kind : {kind}, purpose : ps, op : os, generation : gs, revision : rs]
Asks == [c \in Calls |->
  CASE c = i1 -> Ask("issue", {p1}, {None}, {None}, {0})
    [] c = i2 -> Ask("issue", {p1, p2}, {None}, {None}, {0})
    [] c = s1 -> Ask("register", {p1}, {o1}, {g1}, {1})
    [] c = s2 -> Ask("register", {p2}, {o1}, {g1}, {1})
    [] c = r1 -> Ask("register", {p1}, {o2}, {g1, g2}, {2}) \cup Ask("register", {p1}, {o1}, {g1}, {1})
    [] c = r2 -> Ask("register", {p1}, {o2, o3}, {g1}, {2})
    [] c = v1 -> Ask("revoke", {p1}, {None}, {None}, {0})
    [] c = w0 -> Ask("wake", {p1}, {o3}, {g1}, {1, 2})
    [] c = w1 -> Ask("wake", {p1}, {o2}, {g1}, {1})
    [] c = w2 -> Ask("wake", {p1, p2}, {o2, o3}, {g1}, {1})
    [] c = w3 -> Ask("wake", {p1}, {o3}, {g1}, {1})]
OneHost == [p \in Purposes |-> "host"]
Expiries == [p \in Purposes |-> MaxTime + 1]

Started == {c \in Calls : calls[c].pc # "idle"}
Done(c) == calls[c].pc \in {"issued", "done"}
Busy == {c \in Started : ~Done(c)}
After(c, S) == c \in Started => S \subseteq Started

\* A purpose is issued, and registered by s1 or s2.
Issued(c, p) == c \in Started => calls[c].purpose = p /\ (Done(c) => purposes[p] # None)
Registered(s, p) == s \in Started /\ Done(s) => purposes[p].revision = 1

\* Issues, rotations, a wake and a withdrawal of one purpose race; its token
\* may be gone by the provider's answer.
Rotations ==
  /\ now = 0 /\ Started \subseteq {i1, i2, r1, r2, s1, v1, w0} /\ Cardinality(Busy) <= 2
  /\ Issued(i1, p1) /\ After(i2, {i1}) /\ After(s1, {i1}) /\ After(v1, {s1})
  /\ After(r1, {s1}) /\ After(r2, {r1}) /\ After(w0, {s1})
  /\ i2 \in Started => calls[i2].purpose = p1 /\ Started = {i1, i2}
  /\ s1 \in Started => Done(i1)
  /\ Cardinality(Started) <= 5

\* Three wakes for the host, of two purposes, while time passes; the third comes
\* after the first was accepted.
Wakes ==
  /\ Started \subseteq {i1, i2, s1, s2, w1, w2, w3} /\ Cardinality(Busy) <= 2
  /\ Issued(i1, p1) /\ Issued(i2, p2) /\ Registered(s1, p1) /\ Registered(s2, p2)
  /\ After(i2, {i1}) /\ After(s1, {i1, i2}) /\ After(s2, {s1}) /\ After(w1, {s2})
  /\ IF w1 \in Started THEN Busy \subseteq {w1, w2, w3}
     ELSE now = 0 /\ Cardinality(Busy) <= 1
  /\ After(w2, {w1}) /\ After(w3, {w2}) /\ (w3 \in Started => Done(w1) /\ calls[w1].answer = "accepted")
  /\ \A c \in Started : calls[c].answer \in {"accepted", None}
  /\ w1 \in Started /\ ~Done(w1) => calls[w1].captured = 0
  /\ w2 \in Started /\ ~Done(w2) => calls[w2].captured \in {1, 2}
  /\ w3 \in Started /\ ~Done(w3) => calls[w3].captured = MaxTime

\* The bound of the run: a state of one of the two is continued.
InACorner == Rotations \/ Wakes
=============================================================================
