------------------------------- MODULE MCStores -------------------------------
\* The stores of the coordinator for TLC: the principal registry, with the
\* installation registry and the push coordinator, each explored on its own.
EXTENDS Stores, TLC

CONSTANTS o1, o2, o3, o4, n1, n2, n3, n4, p2, j1, j2, k1, d1, i1, i2, i3, w1, w2
VARIABLE part      \* which of the three is explored

Symmetric == Permutations(Callers)

\* The operations and nonces of four commands.
FourKeys ==
  {[operation |-> o1, nonce |-> n1], [operation |-> o2, nonce |-> n2],
   [operation |-> o3, nonce |-> n3], [operation |-> o4, nonce |-> n4]}

\* A fourth operation that repeats the nonce of the third.
RepeatedKeys ==
  {[operation |-> o1, nonce |-> n1], [operation |-> o2, nonce |-> n2],
   [operation |-> o3, nonce |-> n3], [operation |-> o4, nonce |-> n3]}

(***************************************************************************)
(* The installation registry: two epochs of one principal and an intent of *)
(* another one, withdrawn as prepared or as committed.                     *)
(***************************************************************************)
Claims(x) == {<<"operation", x>>, <<"challenge", x>>, <<"nonce", x>>}
Drafts ==
  [i \in {i1, i2, i3} |->
     [principal |-> IF i = i3 THEN p2 ELSE "installation", epoch |-> IF i = i2 THEN 2 ELSE 1,
      revision |-> IF i = i2 THEN 1 ELSE 0, claims |-> Claims(i)]]
Ends == [w \in {w1, w2} |-> [op |-> i1, committed |-> w = w2, revision |-> 1, claims |-> Claims(w)]]
Do(kind, id) == [kind |-> kind, id |-> id]
Asked ==
  << {Do("prepare", i1)},
     {Do("admit", i1), Do("prepare", i3)},
     {Do("admit", i1), Do("withdraw", w1), Do("read", i1)},
     {Do("withdraw", w1), Do("withdraw", w2), Do("status", i1)},
     {Do("prepare", i2), Do("prepare", i3)} >>
Drafted == {i1, i2, i3}
Ended == {w1, w2}
Calling == 1 .. 5

ASSUME R!RegistryAssumption

(***************************************************************************)
(* The push coordinator: two jobs of two parents, and a substitute that    *)
(* names the first job with another deadline.                              *)
(***************************************************************************)
Original(name, job, parent) ==
  [name |-> name, job |-> job, parent |-> parent, epoch |-> 1, scope |-> "scope",
   issued |-> 0, deadline |-> 1, cutoff |-> 1, boot |-> 0]
Substitute == [Original("other", j1, i1) EXCEPT !.deadline = 2]
Held == {Original("first", j1, i1), Original("second", j2, p2), Substitute}
Enrolled == {i1, p2}
Both == {j1, j2}
Expiry == [p \in Enrolled |-> 3]
Signers == {k1}
Bound == {d1}
Signed == {0, 1}
Lives == {1}

ASSUME P!PushAssumption

(***************************************************************************)
(* The three of them.                                                      *)
(***************************************************************************)
installation == <<store, disk, closed, asks, crashes>>
coordinator == <<file, open, mem, steps, clock, answers, given, proofs>>

StoresInit == Init /\ R!Init /\ P!Init /\ part = "any"
Explores(which) == part \in {"any", which} /\ part' = which
StoresNext ==
  \/ Explores("principals") /\ Next /\ UNCHANGED <<installation, coordinator>>
  \/ Explores("installations") /\ R!Next /\ UNCHANGED <<vars, coordinator>>
  \/ Explores("jobs") /\ P!Next /\ UNCHANGED <<vars, installation>>
StoresSpec == StoresInit /\ [][StoresNext]_<<vars, installation, coordinator, part>>

\* Calls come in order, two at a time; either the fence or a restart comes in.
Installations ==
  /\ \A r \in 2..5 : asks[r].pc # "idle" => asks[r - 1].pc # "idle"
  /\ Cardinality({r \in 1..5 : asks[r].pc \notin {"idle", "end"}}) <= 2
  /\ ~closed \/ crashes = 0

\* Both jobs verify with one key, while no clock moves and no commit is in doubt.
Two ==
  /\ clock = [cont |-> 0, utc |-> 0, boot |-> 0] /\ open /\ P!Rows(file.children) = 0
  /\ file.parents[i1] = None => file.parents[p2] = None
  /\ file.jobs[j1] = None => file.jobs[j2] = None

\* One job meets the clocks, lost acknowledgements, restarts and a reboot.
One ==
  /\ file.parents[p2] = None /\ mem.retired \subseteq {i1}
  /\ clock.cont + clock.utc + clock.boot <= 2 /\ (~open => clock.boot = 0)

StoresBound ==
  CASE part = "installations" -> Installations [] part = "jobs" -> Two \/ One [] OTHER -> TRUE
=============================================================================
