--------------------------- MODULE MCMomentRaces ---------------------------
\* WatchMoment for TLC, twice: two signed events of one moment that race, and
\* moments of a crowd that race for the last rows, each explored on its own.
EXTENDS MCWatchMoment

CONSTANTS v1, v2, v3
VARIABLES crowd, devices, clock, steps, sends, flights,
          part   \* which of the two is explored

Crew == {v1, v2, v3}
Alike == Symmetric \cup Permutations(Crew)
Three == {e1, e2, e3}
ThreeKeys == {k1, k2, k3}
ThreePublications == {p1, p2, p3}
TwoRecipients == {d1, d2}
TwoScopes == {s1, s2}
CrowdExpiry == [e \in Three |-> 3]

C == INSTANCE WatchMoment WITH
  Workers <- Crew, Events <- Three, Operations <- ThreeKeys, Publications <- ThreePublications,
  Recipients <- TwoRecipients, Scopes <- TwoScopes, OperationOf <- CrowdOperationOf,
  PublicationOf <- CrowdPublicationOf, RecipientOf <- CrowdRecipientOf, ScopeOf <- CrowdScopeOf,
  Expiry <- CrowdExpiry, Capacity <- 3, InstallationCapacity <- 3, MaxTime <- 2, MaxToken <- 0,
  ops <- crowd, reg <- devices, now <- clock, regress <- steps, inv <- sends, flight <- flights

crowded == <<crowd, devices, clock, steps, sends, flights>>

RacesInit == Init /\ C!Init /\ part = "any"
Explores(which) == part \in {"any", which} /\ part' = which
RacesNext ==
  \/ Explores("pair") /\ Next /\ UNCHANGED crowded
  \/ Explores("crowd") /\ C!Next /\ UNCHANGED vars
RacesSpec == RacesInit /\ [][RacesNext]_<<vars, crowded, part>>

\* Rows fill the table while the invocations that reserved them have not read
\* them back, or have returned; one of them cancels, and nobody crashes, is
\* refused or is disabled (a state in which somebody is gets checked, and is not
\* continued).
CrowdBounds ==
  /\ \A v \in Crew : /\ sends[v].pc \notin {"crashed", "build"}
                     /\ sends[v].pc = "done" => sends[v].out # "refused"
  /\ Cardinality({v \in Crew : sends[v].pc # "idle" /\ sends[v].action = "cancel"}) <= 1
  /\ \A d \in TwoRecipients : devices[d].active

\* What disturbs the pair: the clock, the owner of the registration, a crash.
Disturbances ==
  {x \in {"clock", "owner", "crash"} :
     CASE x = "clock" -> regress > 0
       [] x = "owner" -> \E d \in Recipients : reg[d].token > 0 \/ ~ reg[d].active
       [] x = "crash" -> \E w \in Workers : inv[w].pc = "crashed"}

\* A state that two of them have disturbed is checked, and not continued.
RacesBound ==
  /\ part = "crowd" => CrowdBounds
  /\ part = "pair" => Cardinality(Disturbances) <= 1

\* What the crowd must keep.
CrowdBound == part = "crowd" => C!AdmissionBound
=============================================================================
