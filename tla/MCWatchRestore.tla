--------------------------- MODULE MCWatchRestore ---------------------------
(* Instances of WatchRestore for TLC. *)
EXTENDS WatchRestore, TLC

CONSTANTS r1, r2, r3, s1, s2, s3, q1, q2, a1, a2

\* Signed bodies: enable, disable, and an enable of the second generation.
Body(op, g, expected, enabled) ==
  [op |-> op, generation |-> g, expected |-> expected, enabled |-> enabled]
On == Body("on", 1, 0, TRUE)
Off == Body("off", 1, 1, FALSE)
Rival == Body("rival", 1, 0, FALSE)
Again == Body("on", 2, 0, TRUE)

AllIntents == {On, Off, Rival}
OneIntent == {On}

OneGeneration == 1..1
TwoGenerations == 1..2

Retirement(name) == [name |-> name, generation |-> 1]
TwoRetirements == {Retirement("first"), Retirement("second")}

SameAttempt == [s \in Senders |-> IF s = s3 THEN a2 ELSE a1]
Expiries == [a \in Attempts |-> IF a = a1 THEN 2 ELSE 3]

Symmetry == Permutations(Requests) \cup Permutations({s1, s2}) \cup Permutations({q1, q2})

(***************************************************************************)
(* The bound: a state inside one of these corners is continued.            *)
(***************************************************************************)
Quiet == [intents |-> {On}, requests |-> 1, senders |-> 0, other |-> FALSE, retirers |-> 0, generations |-> 1,
          time |-> 0, restores |-> 0, regress |-> 0, crashes |-> 1]

Corners ==
  { \* rival preference writes, and a database restored, or restored twice
    [Quiet EXCEPT !.intents = {On, Rival}, !.requests = 3, !.restores = 1, !.crashes = 0],
    [Quiet EXCEPT !.intents = AllIntents, !.requests = 2, !.restores = 2],
    \* a dispatch between an enable and a disable, over two generations
    [Quiet EXCEPT !.intents = {On, Off}, !.requests = 2, !.senders = 1, !.generations = 2,
                  !.restores = 1, !.crashes = 0],
    \* dispatches of one attempt and of another while it expires
    [Quiet EXCEPT !.senders = 2, !.time = 2, !.regress = 1],
    [Quiet EXCEPT !.senders = 1, !.other = TRUE, !.time = 2, !.regress = 1, !.crashes = 0],
    \* a preference and its dispatch while retirements compete
    [Quiet EXCEPT !.senders = 1, !.retirers = 1, !.restores = 1],
    [Quiet EXCEPT !.retirers = 2, !.crashes = 0] }

Busy(f) == {x \in DOMAIN f : f[x].pc # "idle"}

InACorner ==
  \E c \in Corners :
    /\ Cardinality(Busy(rq)) <= c.requests
    /\ \A r \in Requests : rq[r].intent \in c.intents \cup {None}
    /\ Cardinality(Busy(sd) \ {s3}) <= c.senders /\ (s3 \in Busy(sd) => c.other)
    /\ Cardinality(Busy(rt)) <= c.retirers /\ now <= c.time
    /\ done.restores <= c.restores /\ done.regress <= c.regress /\ done.crashes <= c.crashes
    /\ actor.scope <= c.generations /\ \A row \in past : row.generation <= c.generations
=============================================================================
