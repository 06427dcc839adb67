---------------------------- MODULE MCRendezvous ----------------------------
\* The rendezvous for TLC: submissions and authorizations of a transaction,
\* with the admission of requests and the enrollment of a key, each explored on
\* its own.
EXTENDS RendezvousKeys, TLC

CONSTANTS t1, t2, k1, c1, c2, c3, c4, a1, a2, e1, e2,
          ip1, ip2, s1, s2, n1, n2, g1, b1, b2
VARIABLE part   \* which of the three is explored

Roles == [c \in Calls |-> CASE c = c3 -> "delete" [] c = c4 -> "recover" [] OTHER -> "submit"]
Deadlines == [t \in Transactions |-> IF t = t1 THEN 3 ELSE 1]
Room == [action \in Actions |-> 2]

Alike == Permutations({a1, a2}) \cup Permutations({c1, c2}) \cup Permutations({e1, e2})
           \cup Permutations({b1, b2})

(***************************************************************************)
(* Admission: requests of two addresses.                                   *)
(***************************************************************************)
Of(kind, ip, t) == [kind |-> kind, ip |-> ip, tx |-> t]
Asked ==
  << {Of("create", ip1, None)},
     {Of("create", ip1, None), Of("register", ip2, None), Of("poll", ip1, 1)},
     {Of("create", ip2, None), Of("register", ip1, None), Of("end", ip1, 1)},
     {Of("end", ip1, 1), Of("end", ip2, 1), Of("challenge", ip2, None)},
     {Of("end", ip2, 1), Of("poll", ip1, 1), Of("create", ip2, None)} >>
Accepting == 1 .. 5
Addresses == {ip1, ip2}
PerLane == [poll |-> 1, create |-> 1, native |-> 1, terminal |-> 2]

ASSUME A!AdmissionAssumption

(***************************************************************************)
(* Enrollment: two challenges and two attestations of one key.           *)
(***************************************************************************)
Issuing == {s1, s2}
Attesting == {n1, n2}
Rotating == {g1}
Two == {b1, b2}

ASSUME E!EnrollmentAssumption

admission == <<adm, bud, idx, children, objects, requests, enabled, minute, drops>>
enrollment == <<offer, slot, policy, verifying, enrollments, second, lost, installed, forgotten>>

RendezvousInit == Init /\ A!Init /\ E!Init /\ part = "any"
Explores(which) == part \in {"any", which} /\ part' = which
RendezvousNext ==
  \/ Explores("transactions") /\ Next /\ UNCHANGED <<admission, enrollment>>
  \/ Explores("admission") /\ A!Next /\ UNCHANGED <<vars, enrollment>>
  \/ Explores("enrollment") /\ E!Next /\ UNCHANGED <<vars, admission>>
RendezvousSpec == RendezvousInit /\ [][RendezvousNext]_<<vars, admission, enrollment, part>>

(***************************************************************************)
(* The bound of the transactions: a state of one of the three is continued.*)
(***************************************************************************)
Started == {c \in Calls : calls[c].pc # "idle"}
Created == {t \in Transactions : tx[t] # None}
Drawn == {ch \in Challenges : ops[ch].status # "unused"}
Drawing(action) == {ch \in Challenges : ops[ch].status # "unused" /\ ops[ch].action = action}

\* Two submissions of the same or of different words, before any time passes.
Rivals ==
  /\ now = 0 /\ Started \subseteq {c1, c2} /\ Created \subseteq {t1}
  /\ Drawn = Drawing("submit")

\* A submission with the first counter while another call recovers or deletes
\* its key, before or after it is admitted, and time ends the transaction, the
\* challenges, the key and its tombstone, so that it is enrolled again.
Revocation ==
  /\ Cardinality(Started \cap {c1, c2}) <= 1 /\ Created \subseteq {t1}
  /\ \A action \in Actions : Cardinality(Drawing(action)) <= 1
  /\ Cardinality(Started) <= 2 /\ now <= 3 /\ \A c \in Started \cap {c1, c2} : calls[c].counter <= 1
  /\ \A ch \in Drawing("submit") : ops[ch].envelope = e1
  /\ \A c \in Started : calls[c].envelope \in {e1, None}

\* A submission to one of two transactions.
Crossed ==
  /\ now = 0 /\ Cardinality(Started) <= 1 /\ Started \subseteq {c1, c2}
  /\ Drawn = Drawing("submit")

(***************************************************************************)
(* The bound of the admission: requests in order, with a cleanup, one at a *)
(* time; or two of them, while the policies end or an object restarts; or  *)
(* only the arrival of the first ones, all at once.                        *)
(***************************************************************************)
Running == {r \in Accepting : requests[r].pc \notin {"idle", "end"}}
Cleaning == {o \in DOMAIN objects : objects[o] = Cleaner}
Serial ==
  /\ enabled /\ drops = 0 /\ Cardinality(Running) + Cardinality(Cleaning) <= 1
  /\ \A r \in Accepting : requests[r].answer # "unavailable"
Racing ==
  /\ requests[3].pc = "idle" /\ Cardinality(Running) <= 2 /\ Cardinality(Cleaning) <= 1
  /\ minute <= 1 /\ (enabled \/ drops = 0)
Arriving ==
  /\ requests[4].pc = "idle" /\ minute = 0 /\ enabled /\ drops = 0 /\ Cleaning = {}
  /\ \A r \in Running : requests[r].pc \in {"admit", "admitting", "admitted"}
Admissions ==
  /\ \A r \in 2..5 : requests[r].pc # "idle" => requests[r - 1].pc # "idle"
  /\ Serial \/ Racing \/ Arriving

(***************************************************************************)
(* The bound of the enrollment: two calls until a key is installed, or     *)
(* one enrollment and what becomes of its key.                             *)
(***************************************************************************)
Called == {c \in DOMAIN enrollments : enrollments[c].pc # "idle"}
Open == {c \in Called : enrollments[c].pc # "end"}
Enrolling ==
  /\ Cardinality(Open) <= 2 /\ g1 \notin Called /\ (slot # None => slot.counter = 0)
  /\ lost + policy.secret + policy.revision <= 1
Keeping == Cardinality(Open) <= 1 /\ {s2, n2} \cap Called = {} /\ policy.revision = 0
Enrollments ==
  /\ s2 \in Called => s1 \in Called
  /\ n2 \in Called => n1 \in Called
  /\ Enrolling \/ Keeping

RendezvousBound ==
  CASE part = "admission" -> Admissions [] part = "enrollment" -> Enrollments
    [] OTHER -> Rivals \/ Revocation \/ Crossed
=============================================================================
