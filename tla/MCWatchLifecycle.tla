--------------------------- MODULE MCWatchLifecycle ---------------------------
\* The lifecycle of a Watch for TLC: preference, dispatch and retirement with
\* the actor behind them, and the enrollment and pairing before, each explored
\* on its own.
EXTENDS MCWatchRestore, WatchLifecycle

CONSTANTS o1, o2, o3, g1, x1, i1, i2, i3, key1, key2
VARIABLE part   \* which of the two is explored

Enroll(kind, o) == [kind |-> kind, operator |-> o]
Sign(kind, epoch, incarnation, predecessor, op) ==
  [kind |-> kind, receiver |-> x1, epoch |-> epoch, key |-> IF epoch = 1 THEN key1 ELSE key2,
   incarnation |-> incarnation, predecessor |-> predecessor, operation |-> op, expires |-> 1]

\* Two grants of the first epoch and one of the second.
Grants == [o \in {o1, o2, o3} |-> [key |-> IF o = o3 THEN key2 ELSE key1,
                                   expected |-> IF o = o3 THEN 1 ELSE 0, expires |-> 1]]
Recovery == [g \in {g1} |-> [receiver |-> x1, from |-> 1, predecessor |-> i1, epoch |-> 2, key |-> key2,
                             incarnation |-> i3, expires |-> 1]]
Followers == {Sign("write", 1, i1, None, "b"), Sign("replace", 1, i2, i1, "b"), Sign("retire", 1, i1, None, "b")}

PairAsks ==
  << {Enroll("issue", o1)},
     {Enroll("issue", o2), Enroll("redeem", o1)},
     {Enroll("redeem", o1), Enroll("redeem", o2), Sign("pair", 1, i1, None, "a")},
     {Enroll("redeem", o2)} \cup Followers,
     {Enroll("issue", o3), Sign("replace", 1, i1, i2, "c")} \cup Followers,
     {Enroll("redeem", o3)},
     {[kind |-> "recover", grant |-> g1, operation |-> "c", expires |-> 1]},
     {Sign("replace", 2, i1, i3, "d"), Sign("write", 2, i3, None, "d")} >>

EightCalls == 1 .. 8

ASSUME P!PairingAssumption

paired == <<issuer, challenges, rows, used, receipts, recovered, grants, baseline, pairs, clock, committed>>

LifecycleInit == Init /\ P!Init /\ part = "any"
Explores(which) == part \in {"any", which} /\ part' = which
LifecycleNext ==
  \/ Explores("actor") /\ Next /\ UNCHANGED paired
  \/ Explores("pairing") /\ P!Next /\ UNCHANGED vars
LifecycleSpec == LifecycleInit /\ [][LifecycleNext]_<<vars, paired, part>>

(***************************************************************************)
(* The bound: requests come in order, two at a time.                       *)
(***************************************************************************)
Waiting(r) == pairs[r].pc = "idle"
Received(r) == pairs[r].pc = "end" /\ pairs[r].answer = "receipt"
KindOf(r) == pairs[r].ask.kind
InTurn ==
  /\ \A r \in 2..8 : ~Waiting(r) => ~Waiting(r - 1)
  /\ Cardinality({r \in 1..8 : pairs[r].pc \notin {"idle", "end"}}) <= 2

\* Two challenges of the first epoch are issued and redeemed.
Enrollments ==
  /\ Waiting(5) /\ grants[o3] = "none"
  /\ \A r \in 1..4 : ~Waiting(r) => KindOf(r) \in {"issue", "redeem"}

\* The first issuer is there; a pairing and what follows it.
Enrolled == Received(1) /\ (~Waiting(2) => KindOf(2) = "redeem" /\ grants[o1] # "revoked" /\ grants[o2] = "none")
                /\ (~Waiting(3) => Received(2) /\ KindOf(3) = "pair")
Pairings ==
  /\ Enrolled /\ Waiting(6) /\ grants[o3] = "none"
  /\ \A r \in {4, 5} : ~Waiting(r) => KindOf(r) \in {"write", "replace", "retire"}

\* The issuer goes, another is enrolled, and the receiver is recovered.
Recoverings ==
  /\ Enrolled /\ clock = 0
  /\ ~Waiting(4) => Received(3) /\ KindOf(4) \in {"write", "retire", "replace"}
  /\ ~Waiting(5) => KindOf(5) = "issue" /\ issuer.epoch + (IF issuer.active THEN 0 ELSE 1) = 2
  /\ (~Waiting(6) => Received(5)) /\ (~Waiting(7) => Received(6))
  /\ grants[o3] # "none" => Received(3) /\ (~issuer.active \/ issuer.epoch = 2)

LifecycleBound ==
  IF part = "pairing" THEN InTurn /\ (Enrollments \/ Pairings \/ Recoverings) ELSE InACorner
=============================================================================
