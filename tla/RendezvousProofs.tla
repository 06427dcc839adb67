-------------------------- MODULE RendezvousProofs --------------------------
(***************************************************************************)
(* Proofs about the rendezvous.  A grant of a key, once admitted, never    *)
(* changes, so that what a transaction reads of it when the answer arrives *)
(* is what the key committed; and a transaction commits against its row as *)
(* it is then.  What a key does to its rows is one of six turns.  What a   *)
(* request pays on its way there comes first.                              *)
(***************************************************************************)
EXTENDS RendezvousKeys, FiniteSetTheorems, TLAPS

(***************************************************************************)
(* The admission.  A table that is alive counts the requests that paid, so *)
(* each charge is one turn of the counts; what was swept counts nobody who *)
(* could still come.                                                       *)
(***************************************************************************)
LEMMA Division ==
  ASSUME NEW n \in Nat, NEW L \in Nat \ {0}
  PROVE  n \div L \in Nat /\ n < ((n \div L) + 1) * L /\ (n \div L) * L <= n
<1>1. n = L * (n \div L) + (n % L) /\ n % L \in 0 .. L - 1 /\ n \div L \in Int
  OBVIOUS
<1>. QED BY <1>1

LEMMA DivisionMonotone ==
  ASSUME NEW n \in Nat, NEW m \in Nat, n <= m, NEW L \in Nat \ {0}
  PROVE  n \div L <= m \div L
BY SMT

LEMMA DayFacts ==
  ASSUME A!AdmissionAssumption, NEW m \in A!Minutes
  PROVE  A!Day(m) \in A!Days /\ m \in A!MinutesOf(A!Day(m)) /\ m < (A!Day(m) + 1) * DayLength
<1>1. m \in Nat /\ MaxMinute \in Nat /\ m <= MaxMinute /\ DayLength \in Nat \ {0}
  BY DEF A!AdmissionAssumption, A!Minutes
<1>2. m \div DayLength \in Nat /\ m < ((m \div DayLength) + 1) * DayLength
  BY <1>1, Division
<1>3. m \div DayLength <= MaxMinute \div DayLength /\ MaxMinute \div DayLength \in Nat
  BY <1>1, Division, DivisionMonotone
<1>. QED BY <1>1, <1>2, <1>3 DEF A!Day, A!Days, A!MinutesOf

Asks == [kind : {"create", "poll", "end", "challenge", "register"}, ip : Ips, tx : Asking \cup {None}]
EndAsks == {ask \in Asks : A!LaneOf(ask) = "terminal"}
Regular == Asks \ EndAsks
OfIp(ip) == {ask \in Asks : ask.ip = ip}
OfLane(ip, lane) == {ask \in Asks : ask.ip = ip /\ A!LaneOf(ask) = lane}

Paying(what, S, K) ==
  {r \in Asking : what \in requests[r].paid /\ requests[r].minute \in S /\ requests[r].ask \in K}
N(what, S, K) == Cardinality(Paying(what, S, K))

Phases ==
  {"idle", "admit", "admitting", "admitted", "allocate", "lookup", "call", "budget", "budgeting", "calling",
   "key", "keying", "forward", "indexing", "indexed", "child", "created", "end"}
Charges == {"request", "transaction", "call", "key"}
Answers == {"rate_limited", "created", "routed", "invalid", "expired", "unavailable", "forwarded", None}
Request ==
  [pc : Phases, ask : Asks \cup {None}, minute : A!Minutes, paid : SUBSET Charges, answer : Answers]

AdmissionTyped ==
  /\ requests \in [Asking -> Request] /\ minute \in A!Minutes
  /\ adm \in [days : [A!Days -> Nat], minutes : [A!Minutes -> Nat], endDays : [A!Days -> Nat],
              endMinutes : [A!Minutes -> Nat], ips : [A!Minutes -> [Ips -> [A!Lanes -> Nat]]]]
  /\ bud \in [transactions : [A!Days -> Nat], keys : [A!Days -> Nat], calls : [A!Days -> Nat],
              ips : [A!Minutes -> [Ips -> Nat]]]
  /\ idx \in [Asking -> Nat \cup {None}] /\ children \in [Asking -> Nat \cup {None}]

\* What a request has paid when it is at a step, and what the index holds of a
\* transaction that may be created.
RequestAt(r) ==
  LET q == requests[r]
  IN /\ q.pc \notin {"idle", "end"} \/ q.paid # {} => q.ask \in Asks
     /\ q.pc # "end" => q.answer = None
     /\ q.minute <= minute
     /\ q.pc \in {"idle", "admit", "admitting"} => q.paid = {}
     /\ q.pc \in {"admitted", "allocate", "lookup", "budget", "budgeting", "call", "calling"} => q.paid = {"request"}
     /\ q.pc \in {"indexing", "indexed", "child", "created"} => q.paid = {"request", "transaction"}
     /\ q.pc \in {"key", "keying"} => q.paid = {"request", "call"}
     /\ q.pc = "forward" \/ q.answer = "forwarded" =>
          {"request", "call"} \subseteq q.paid /\ (q.ask.kind = "register" => "key" \in q.paid)
     /\ q.pc \in {"indexed", "child", "created"} \/ children[r] # None =>
          {"request", "transaction"} \subseteq q.paid /\ (idx[r] = q.minute + 2 \/ minute >= q.minute + 2)
     /\ children[r] # None => children[r] = q.minute

\* The counts of a minute and of a day.
MinuteKept(m) ==
  /\ N("request", {m}, Asks) <= TotalMinute /\ N("request", {m}, Regular) <= RegularMinute
  /\ \A ip \in Ips : /\ N("transaction", {m}, OfIp(ip)) <= PerIdentity
                     /\ \A lane \in A!Lanes : N("request", {m}, OfLane(ip, lane)) <= LaneLimit[lane]
  /\ m \in A!LiveMinutes =>
       /\ adm.minutes[m] = N("request", {m}, Asks) /\ adm.endMinutes[m] = N("request", {m}, EndAsks)
       /\ adm.minutes[m] - adm.endMinutes[m] = N("request", {m}, Regular)
       /\ \A ip \in Ips : /\ N("transaction", {m}, OfIp(ip)) <= bud.ips[m][ip]
                          /\ \A lane \in A!Lanes : adm.ips[m][ip][lane] = N("request", {m}, OfLane(ip, lane))
DayKept(d) ==
  LET S == A!MinutesOf(d)
  IN /\ N("request", S, Asks) <= TotalDay /\ N("request", S, Regular) <= RegularDay
     /\ N("transaction", S, Asks) <= TransactionLimit
     /\ N("call", S, Asks) <= CallLimit /\ N("key", S, Asks) <= KeyLimit
     /\ d \in A!LiveDays =>
          /\ adm.days[d] = N("request", S, Asks) /\ adm.endDays[d] = N("request", S, EndAsks)
          /\ adm.days[d] - adm.endDays[d] = N("request", S, Regular)
          /\ N("transaction", S, Asks) <= bud.transactions[d]
          /\ N("call", S, Asks) <= bud.calls[d] /\ N("key", S, Asks) <= bud.keys[d]

AdmissionInv ==
  /\ AdmissionTyped /\ \A r \in Asking : RequestAt(r)
  /\ (\A m \in A!Minutes : MinuteKept(m)) /\ \A d \in A!Days : DayKept(d)

LEMMA AskedIsAsks ==
  ASSUME A!AdmissionAssumption, NEW r \in Asking, NEW ask \in AsksOf[r]
  PROVE  ask \in Asks
BY DEF A!AdmissionAssumption, Asks

LEMMA LaneFacts ==
  ASSUME NEW ask \in Asks
  PROVE  A!LaneOf(ask) \in A!Lanes
BY DEF Asks, A!LaneOf, A!Lanes

LEMMA CountType ==
  ASSUME A!AdmissionAssumption, NEW what, NEW S, NEW K
  PROVE  IsFiniteSet(Paying(what, S, K)) /\ N(what, S, K) \in Nat
<1>1. IsFiniteSet(Asking)
  BY DEF A!AdmissionAssumption, A!IsFiniteSet, IsFiniteSet
<1>2. IsFiniteSet(Paying(what, S, K))
  BY <1>1, FS_Subset DEF Paying
<1>. QED BY <1>2, FS_CardinalityType DEF N

\* Nobody paid anything.
KeepsPaid ==
  \A s \in Asking : /\ requests'[s].paid = requests[s].paid
                    /\ requests[s].paid # {} => /\ requests'[s].ask = requests[s].ask
                                                /\ requests'[s].minute = requests[s].minute

LEMMA CountSame ==
  ASSUME KeepsPaid, NEW what, NEW S, NEW K
  PROVE  N(what, S, K)' = N(what, S, K)
<1>1. Paying(what, S, K)' = Paying(what, S, K)
  BY DEF KeepsPaid, Paying
<1>. QED BY <1>1 DEF N

\* One request paid once.
Pays(r, v) ==
  /\ \A s \in Asking \ {r} : requests'[s] = requests[s]
  /\ v \notin requests[r].paid /\ requests'[r].paid = requests[r].paid \cup {v}
  /\ requests'[r].ask = requests[r].ask /\ requests'[r].minute = requests[r].minute

LEMMA CountPlus ==
  ASSUME A!AdmissionAssumption, NEW r \in Asking, NEW v, Pays(r, v), NEW what, NEW S, NEW K
  PROVE  N(what, S, K)' = N(what, S, K)
           + IF what = v /\ requests[r].minute \in S /\ requests[r].ask \in K THEN 1 ELSE 0
<1>1. CASE what = v /\ requests[r].minute \in S /\ requests[r].ask \in K
  <2>1. Paying(what, S, K)' = Paying(what, S, K) \cup {r} /\ r \notin Paying(what, S, K)
    BY <1>1 DEF Pays, Paying
  <2>2. Cardinality(Paying(what, S, K)') = Cardinality(Paying(what, S, K)) + 1
    BY <2>1, CountType, FS_AddElement
  <2>. QED BY <1>1, <2>2 DEF N
<1>2. CASE ~(what = v /\ requests[r].minute \in S /\ requests[r].ask \in K)
  <2>1. Paying(what, S, K)' = Paying(what, S, K)
    BY <1>2 DEF Pays, Paying
  <2>. QED BY <1>2, <2>1, CountType DEF N
<1>. QED BY <1>1, <1>2

LEMMA AdmissionStart ==
  ASSUME A!AdmissionAssumption, A!Init
  PROVE  AdmissionInv
<1>1. ASSUME NEW what, NEW S, NEW K
      PROVE  N(what, S, K) = 0
  <2>1. Paying(what, S, K) = {}
    BY DEF A!Init, Paying
  <2>. QED BY <2>1, FS_EmptySet DEF N
<1>2. 0 \in A!Minutes
  BY DEF A!AdmissionAssumption, A!Minutes
<1>3. AdmissionTyped
  BY <1>2 DEF A!Init, AdmissionTyped, Request, Phases, Answers, A!NoOne
<1>4. ASSUME NEW r \in Asking
      PROVE  RequestAt(r)
  <2>1. /\ requests[r] = [pc |-> "idle", ask |-> None, minute |-> 0, paid |-> {}, answer |-> None]
        /\ minute = 0 /\ children[r] = None /\ None # "forwarded"
    BY DEF A!Init, A!AdmissionAssumption
  <2>. QED BY <2>1 DEF RequestAt
<1>5. ASSUME NEW m \in A!Minutes
      PROVE  MinuteKept(m)
  BY <1>1 DEF A!Init, A!AdmissionAssumption, MinuteKept, A!NoOne
<1>6. ASSUME NEW d \in A!Days
      PROVE  DayKept(d)
  BY <1>1 DEF A!Init, A!AdmissionAssumption, DayKept
<1>. QED BY <1>3, <1>4, <1>5, <1>6 DEF AdmissionInv

LEMMA TimeFacts ==
  ASSUME A!AdmissionAssumption, AdmissionTyped
  PROVE  /\ A!Minutes \subseteq Nat /\ A!Days \subseteq Nat
         /\ minute \in A!LiveMinutes /\ A!Day(minute) \in A!LiveDays /\ A!Day(minute) \in A!Days
         /\ minute \in A!MinutesOf(A!Day(minute))
BY DayFacts DEF AdmissionTyped, A!Minutes, A!LiveMinutes, A!Days, A!LiveDays

\* What lives later lives now.
LEMMA LiveShrinks ==
  ASSUME A!AdmissionAssumption, AdmissionTyped, minute' \in A!Minutes, minute <= minute'
  PROVE  A!LiveMinutes' \subseteq A!LiveMinutes /\ A!LiveDays' \subseteq A!LiveDays
<1>1. minute \in Nat /\ minute' \in Nat /\ A!Minutes \subseteq Nat /\ A!Days \subseteq Nat /\ DayLength \in Nat
  BY TimeFacts DEF A!AdmissionAssumption, AdmissionTyped
<1>2. ASSUME NEW d \in A!Days, minute' < (d + 1) * DayLength
      PROVE  minute < (d + 1) * DayLength
  <2>1. (d + 1) * DayLength \in Nat
    BY <1>1
  <2>. QED BY <1>1, <1>2, <2>1
<1>3. ASSUME NEW m \in A!Minutes, minute' < m + 2
      PROVE  minute < m + 2
  BY <1>1, <1>3
<1>4. A!LiveMinutes' \subseteq A!LiveMinutes
  BY <1>3 DEF A!LiveMinutes, A!Minutes
<1>. QED BY <1>2, <1>4 DEF A!LiveDays, A!Days

\* What lives is as it was; the budget may have been charged in vain.
TablesKept ==
  /\ \A m \in A!LiveMinutes' :
       /\ adm'.minutes[m] = adm.minutes[m] /\ adm'.endMinutes[m] = adm.endMinutes[m]
       /\ adm'.ips[m] = adm.ips[m] /\ \A ip \in Ips : bud.ips[m][ip] <= bud'.ips[m][ip]
  /\ \A d \in A!LiveDays' :
       /\ adm'.days[d] = adm.days[d] /\ adm'.endDays[d] = adm.endDays[d]
       /\ bud.transactions[d] <= bud'.transactions[d]
       /\ bud.calls[d] <= bud'.calls[d] /\ bud.keys[d] <= bud'.keys[d]

LEMMA QuietCounts ==
  ASSUME A!AdmissionAssumption, AdmissionInv, AdmissionTyped', minute <= minute', KeepsPaid, TablesKept
  PROVE  (\A m \in A!Minutes : MinuteKept(m)') /\ \A d \in A!Days : DayKept(d)'
<1>1. A!LiveMinutes' \subseteq A!LiveMinutes /\ A!LiveDays' \subseteq A!LiveDays
  BY LiveShrinks DEF AdmissionInv, AdmissionTyped
<1>2. ASSUME NEW what, NEW S, NEW K
      PROVE  N(what, S, K) \in Nat /\ N(what, S, K)' = N(what, S, K)
  BY CountType, CountSame
<1>3. ASSUME NEW m \in A!Minutes
      PROVE  MinuteKept(m)'
  <2>1. MinuteKept(m)
    BY DEF AdmissionInv
  <2>2. ASSUME NEW ip \in Ips
        PROVE  /\ N("transaction", {m}, OfIp(ip))' <= PerIdentity
               /\ \A lane \in A!Lanes : N("request", {m}, OfLane(ip, lane))' <= LaneLimit[lane]
    <3>1. ASSUME NEW lane \in A!Lanes
          PROVE  N("request", {m}, OfLane(ip, lane))' = N("request", {m}, OfLane(ip, lane))
      BY CountSame
    <3>2. N("transaction", {m}, OfIp(ip))' = N("transaction", {m}, OfIp(ip))
      BY CountSame
    <3>. QED BY <2>1, <3>1, <3>2 DEF MinuteKept
  <2>3. ASSUME m \in A!LiveMinutes', NEW ip \in Ips
        PROVE  /\ N("transaction", {m}, OfIp(ip))' <= bud'.ips[m][ip]
               /\ \A lane \in A!Lanes : adm'.ips[m][ip][lane] = N("request", {m}, OfLane(ip, lane))'
    <3>1. ASSUME NEW lane \in A!Lanes
          PROVE  N("request", {m}, OfLane(ip, lane))' = N("request", {m}, OfLane(ip, lane))
      BY CountSame
    <3>2. /\ N("transaction", {m}, OfIp(ip))' = N("transaction", {m}, OfIp(ip))
          /\ N("transaction", {m}, OfIp(ip)) \in Nat
      BY CountSame, CountType
    <3>3. bud.ips[m][ip] \in Nat /\ bud'.ips[m][ip] \in Nat
      BY DEF AdmissionInv, AdmissionTyped
    <3>4. N("transaction", {m}, OfIp(ip)) <= bud.ips[m][ip] /\ bud.ips[m][ip] <= bud'.ips[m][ip]
      BY <1>1, <2>1, <2>3 DEF MinuteKept, TablesKept
    <3>5. adm'.ips[m] = adm.ips[m]
      BY <2>3 DEF TablesKept
    <3>6. \A lane \in A!Lanes : adm.ips[m][ip][lane] = N("request", {m}, OfLane(ip, lane))
      BY <1>1, <2>1, <2>3 DEF MinuteKept
    <3>7. N("transaction", {m}, OfIp(ip))' <= bud'.ips[m][ip]
      BY <3>2, <3>3, <3>4
    <3>. QED BY <3>1, <3>5, <3>6, <3>7
  <2>4. /\ N("request", {m}, Asks)' <= TotalMinute /\ N("request", {m}, Regular)' <= RegularMinute
        /\ m \in A!LiveMinutes' =>
             /\ adm'.minutes[m] = N("request", {m}, Asks)' /\ adm'.endMinutes[m] = N("request", {m}, EndAsks)'
             /\ adm'.minutes[m] - adm'.endMinutes[m] = N("request", {m}, Regular)'
    BY <1>1, <1>2, <2>1 DEF MinuteKept, TablesKept
  <2>. QED BY <2>2, <2>3, <2>4 DEF MinuteKept
<1>4. ASSUME NEW d \in A!Days
      PROVE  DayKept(d)'
  <2>1. /\ bud.transactions[d] \in Nat /\ bud.calls[d] \in Nat /\ bud.keys[d] \in Nat
        /\ bud'.transactions[d] \in Nat /\ bud'.calls[d] \in Nat /\ bud'.keys[d] \in Nat
    BY DEF AdmissionInv, AdmissionTyped
  <2>2. DayKept(d)
    BY DEF AdmissionInv
  <2>3. d \in A!LiveDays' =>
          /\ N("transaction", A!MinutesOf(d), Asks) <= bud'.transactions[d]
          /\ N("call", A!MinutesOf(d), Asks) <= bud'.calls[d] /\ N("key", A!MinutesOf(d), Asks) <= bud'.keys[d]
    BY <1>1, <1>2, <2>1, <2>2 DEF DayKept, TablesKept
  <2>. QED BY <1>1, <1>2, <2>2, <2>3 DEF DayKept, TablesKept
<1>. QED BY <1>3, <1>4
LEMMA SweptRequestsFacts ==
  ASSUME A!AdmissionAssumption, AdmissionTyped
  PROVE  LET t == A!SweptRequests
         IN /\ t \in [days : [A!Days -> Nat], minutes : [A!Minutes -> Nat], endDays : [A!Days -> Nat],
                      endMinutes : [A!Minutes -> Nat], ips : [A!Minutes -> [Ips -> [A!Lanes -> Nat]]]]
            /\ \A m \in A!LiveMinutes :
                 t.minutes[m] = adm.minutes[m] /\ t.endMinutes[m] = adm.endMinutes[m] /\ t.ips[m] = adm.ips[m]
            /\ \A d \in A!LiveDays : t.days[d] = adm.days[d] /\ t.endDays[d] = adm.endDays[d]
<1>1. A!LiveMinutes \subseteq A!Minutes /\ A!LiveDays \subseteq A!Days
  BY DEF A!LiveMinutes, A!LiveDays
<1>2. A!NoOne \in [Ips -> [A!Lanes -> Nat]]
  BY DEF A!NoOne
<1>. QED BY <1>1, <1>2 DEF A!SweptRequests, A!Kept, AdmissionTyped

LEMMA SweptBudgetFacts ==
  ASSUME A!AdmissionAssumption, AdmissionTyped
  PROVE  LET t == A!SweptBudget
         IN /\ t \in [transactions : [A!Days -> Nat], keys : [A!Days -> Nat], calls : [A!Days -> Nat],
                      ips : [A!Minutes -> [Ips -> Nat]]]
            /\ \A m \in A!LiveMinutes : t.ips[m] = bud.ips[m]
            /\ \A d \in A!LiveDays : /\ t.transactions[d] = bud.transactions[d]
                                     /\ t.keys[d] = bud.keys[d] /\ t.calls[d] = bud.calls[d]
<1>1. A!LiveMinutes \subseteq A!Minutes /\ A!LiveDays \subseteq A!Days
  BY DEF A!LiveMinutes, A!LiveDays
<1>. QED BY <1>1 DEF A!SweptBudget, A!Kept, AdmissionTyped

\* What a charge makes of the tables of the requests.
LEMMA ChargedFacts ==
  ASSUME A!AdmissionAssumption, AdmissionTyped, NEW ip \in Ips, NEW lane \in A!Lanes
  PROVE  LET t == A!Charged(A!SweptRequests, minute, ip, lane)
             ends == IF lane = "terminal" THEN 1 ELSE 0
         IN /\ t \in [days : [A!Days -> Nat], minutes : [A!Minutes -> Nat], endDays : [A!Days -> Nat],
                      endMinutes : [A!Minutes -> Nat], ips : [A!Minutes -> [Ips -> [A!Lanes -> Nat]]]]
            /\ \A m \in A!LiveMinutes :
                 /\ t.minutes[m] = adm.minutes[m] + IF m = minute THEN 1 ELSE 0
                 /\ t.endMinutes[m] = adm.endMinutes[m] + IF m = minute THEN ends ELSE 0
                 /\ \A i \in Ips, l \in A!Lanes :
                      t.ips[m][i][l] = adm.ips[m][i][l] + IF m = minute /\ i = ip /\ l = lane THEN 1 ELSE 0
            /\ \A d \in A!LiveDays :
                 /\ t.days[d] = adm.days[d] + IF d = A!Day(minute) THEN 1 ELSE 0
                 /\ t.endDays[d] = adm.endDays[d] + IF d = A!Day(minute) THEN ends ELSE 0
<1>. DEFINE t == A!SweptRequests
            u == A!Charged(t, minute, ip, lane)
            ends == IF lane = "terminal" THEN 1 ELSE 0
<1>1. /\ t \in [days : [A!Days -> Nat], minutes : [A!Minutes -> Nat], endDays : [A!Days -> Nat],
                endMinutes : [A!Minutes -> Nat], ips : [A!Minutes -> [Ips -> [A!Lanes -> Nat]]]]
      /\ \A m \in A!LiveMinutes :
           t.minutes[m] = adm.minutes[m] /\ t.endMinutes[m] = adm.endMinutes[m] /\ t.ips[m] = adm.ips[m]
      /\ \A d \in A!LiveDays : t.days[d] = adm.days[d] /\ t.endDays[d] = adm.endDays[d]
  BY SweptRequestsFacts
<1>2. /\ A!LiveMinutes \subseteq A!Minutes /\ A!LiveDays \subseteq A!Days
      /\ minute \in A!Minutes /\ A!Day(minute) \in A!Days /\ ends \in Nat
  BY TimeFacts DEF A!LiveMinutes, A!LiveDays, AdmissionTyped
<1>. HIDE DEF t, ends
<1>3. /\ u.days = [t.days EXCEPT ![A!Day(minute)] = @ + 1] /\ u.minutes = [t.minutes EXCEPT ![minute] = @ + 1]
      /\ u.ips = [t.ips EXCEPT ![minute][ip][lane] = @ + 1]
      /\ u.endDays = [t.endDays EXCEPT ![A!Day(minute)] = @ + ends]
      /\ u.endMinutes = [t.endMinutes EXCEPT ![minute] = @ + ends]
      /\ u = [days |-> u.days, minutes |-> u.minutes, endDays |-> u.endDays, endMinutes |-> u.endMinutes,
              ips |-> u.ips]
  <2>1. u = [t EXCEPT !.days[A!Day(minute)] = @ + 1, !.minutes[minute] = @ + 1, !.ips[minute][ip][lane] = @ + 1,
                      !.endDays[A!Day(minute)] = @ + ends, !.endMinutes[minute] = @ + ends]
    BY DEF A!Charged, ends
  <2>2. t = [days |-> t.days, minutes |-> t.minutes, endDays |-> t.endDays, endMinutes |-> t.endMinutes,
             ips |-> t.ips]
    BY <1>1
  <2>3. u = [days |-> [t.days EXCEPT ![A!Day(minute)] = @ + 1], minutes |-> [t.minutes EXCEPT ![minute] = @ + 1],
             endDays |-> [t.endDays EXCEPT ![A!Day(minute)] = @ + ends],
             endMinutes |-> [t.endMinutes EXCEPT ![minute] = @ + ends],
             ips |-> [t.ips EXCEPT ![minute][ip][lane] = @ + 1]]
    BY <2>1, <2>2
  <2>. QED BY <2>3
<1>. HIDE DEF u
<1>4. u.days \in [A!Days -> Nat] /\ u.minutes \in [A!Minutes -> Nat]
      /\ u.endDays \in [A!Days -> Nat] /\ u.endMinutes \in [A!Minutes -> Nat]
  BY <1>1, <1>2, <1>3
<1>5. u.ips \in [A!Minutes -> [Ips -> [A!Lanes -> Nat]]]
  BY <1>1, <1>2, <1>3
<1>6. u \in [days : [A!Days -> Nat], minutes : [A!Minutes -> Nat], endDays : [A!Days -> Nat],
             endMinutes : [A!Minutes -> Nat], ips : [A!Minutes -> [Ips -> [A!Lanes -> Nat]]]]
  BY <1>3, <1>4, <1>5
<1>7. ASSUME NEW m \in A!LiveMinutes
      PROVE  /\ u.minutes[m] = adm.minutes[m] + IF m = minute THEN 1 ELSE 0
             /\ u.endMinutes[m] = adm.endMinutes[m] + IF m = minute THEN ends ELSE 0
             /\ \A i \in Ips, l \in A!Lanes :
                  u.ips[m][i][l] = adm.ips[m][i][l] + IF m = minute /\ i = ip /\ l = lane THEN 1 ELSE 0
  BY <1>1, <1>2, <1>3 DEF AdmissionTyped
<1>8. ASSUME NEW d \in A!LiveDays
      PROVE  /\ u.days[d] = adm.days[d] + IF d = A!Day(minute) THEN 1 ELSE 0
             /\ u.endDays[d] = adm.endDays[d] + IF d = A!Day(minute) THEN ends ELSE 0
  BY <1>1, <1>2, <1>3 DEF AdmissionTyped
<1>. QED BY <1>6, <1>7, <1>8 DEF u, t, ends

\* A request that is not denied is within every limit.
LEMMA AdmitCounts ==
  ASSUME A!AdmissionAssumption, AdmissionInv, minute' = minute, NEW r \in Asking, Pays(r, "request"),
         requests[r].minute = minute, requests[r].ask \in Asks,
         ~A!IsDenied(A!SweptRequests, minute, requests[r].ask.ip, A!LaneOf(requests[r].ask)),
         adm' = A!Charged(A!SweptRequests, minute, requests[r].ask.ip, A!LaneOf(requests[r].ask)), bud' = bud
  PROVE  (\A m \in A!Minutes : MinuteKept(m)') /\ \A d \in A!Days : DayKept(d)'
<1>. DEFINE ask == requests[r].ask
            lane == A!LaneOf(ask)
            t == A!SweptRequests
            ends == IF lane = "terminal" THEN 1 ELSE 0
<1>1. /\ ask \in Asks /\ lane \in A!Lanes /\ ask.ip \in Ips /\ AdmissionTyped
      /\ (ask \in EndAsks <=> lane = "terminal") /\ (ask \in Regular <=> lane # "terminal")
  BY LaneFacts DEF AdmissionInv, Asks, EndAsks, Regular
<1>2. /\ minute \in A!LiveMinutes /\ A!Day(minute) \in A!LiveDays /\ A!LiveMinutes' = A!LiveMinutes
      /\ A!LiveDays' = A!LiveDays /\ A!LiveMinutes \subseteq A!Minutes /\ A!LiveDays \subseteq A!Days
  BY <1>1, TimeFacts DEF A!LiveMinutes, A!LiveDays
<1>3. /\ \A m \in A!LiveMinutes :
           /\ adm'.minutes[m] = adm.minutes[m] + IF m = minute THEN 1 ELSE 0
           /\ adm'.endMinutes[m] = adm.endMinutes[m] + IF m = minute THEN ends ELSE 0
           /\ \A i \in Ips, l \in A!Lanes :
                adm'.ips[m][i][l] = adm.ips[m][i][l] + IF m = minute /\ i = ask.ip /\ l = lane THEN 1 ELSE 0
      /\ \A d \in A!LiveDays :
           /\ adm'.days[d] = adm.days[d] + IF d = A!Day(minute) THEN 1 ELSE 0
           /\ adm'.endDays[d] = adm.endDays[d] + IF d = A!Day(minute) THEN ends ELSE 0
  BY <1>1, ChargedFacts
<1>4. /\ adm.days[A!Day(minute)] < TotalDay /\ adm.minutes[minute] < TotalMinute
      /\ lane # "terminal" => /\ adm.days[A!Day(minute)] - adm.endDays[A!Day(minute)] < RegularDay
                              /\ adm.minutes[minute] - adm.endMinutes[minute] < RegularMinute
      /\ adm.ips[minute][ask.ip][lane] < LaneLimit[lane]
  <2>1. /\ t.minutes[minute] = adm.minutes[minute] /\ t.endMinutes[minute] = adm.endMinutes[minute]
        /\ t.ips[minute] = adm.ips[minute] /\ t.days[A!Day(minute)] = adm.days[A!Day(minute)]
        /\ t.endDays[A!Day(minute)] = adm.endDays[A!Day(minute)]
    BY <1>1, <1>2, SweptRequestsFacts
  <2>2. /\ ~(t.days[A!Day(minute)] >= TotalDay) /\ ~(t.minutes[minute] >= TotalMinute)
        /\ lane # "terminal" => /\ ~(t.days[A!Day(minute)] - t.endDays[A!Day(minute)] >= RegularDay)
                                /\ ~(t.minutes[minute] - t.endMinutes[minute] >= RegularMinute)
        /\ ~(t.ips[minute][ask.ip][lane] >= LaneLimit[lane])
    BY DEF A!IsDenied, A!IsRegularFull
  <2>3. /\ adm.minutes[minute] \in Nat /\ adm.endMinutes[minute] \in Nat /\ adm.days[A!Day(minute)] \in Nat
        /\ adm.endDays[A!Day(minute)] \in Nat /\ adm.ips[minute][ask.ip][lane] \in Nat
    BY <1>1, <1>2 DEF AdmissionTyped
  <2>. QED BY <1>1, <2>1, <2>2, <2>3 DEF A!AdmissionAssumption
<1>. HIDE DEF lane, ask, t
<1>5. ASSUME NEW what, NEW S, NEW K
      PROVE  /\ N(what, S, K) \in Nat
             /\ N(what, S, K)' = N(what, S, K) + IF what = "request" /\ minute \in S /\ ask \in K THEN 1 ELSE 0
  BY CountType, CountPlus DEF ask
<1>6. ASSUME NEW m \in A!Minutes
      PROVE  MinuteKept(m)'
  <2>1. MinuteKept(m) /\ (m \in A!LiveMinutes' <=> m \in A!LiveMinutes) /\ (minute \in {m} <=> m = minute)
    BY <1>2 DEF AdmissionInv
  <2>2. /\ N("request", {m}, Asks)' = N("request", {m}, Asks) + IF m = minute THEN 1 ELSE 0
        /\ N("request", {m}, Regular)' = N("request", {m}, Regular) + IF m = minute /\ lane # "terminal" THEN 1 ELSE 0
        /\ N("request", {m}, EndAsks)' = N("request", {m}, EndAsks) + IF m = minute THEN ends ELSE 0
        /\ N("request", {m}, Asks) \in Nat /\ N("request", {m}, Regular) \in Nat /\ N("request", {m}, EndAsks) \in Nat
    BY <1>1, <1>5, <2>1
  <2>3. /\ N("request", {m}, Asks)' <= TotalMinute /\ N("request", {m}, Regular)' <= RegularMinute
        /\ m \in A!LiveMinutes =>
             /\ adm'.minutes[m] = N("request", {m}, Asks)' /\ adm'.endMinutes[m] = N("request", {m}, EndAsks)'
             /\ adm'.minutes[m] - adm'.endMinutes[m] = N("request", {m}, Regular)'
    <3>1. CASE m # minute
      BY <1>3, <2>1, <2>2, <3>1 DEF MinuteKept
    <3>2. CASE m = minute
      <4>1. adm.minutes[m] = N("request", {m}, Asks) /\ adm.endMinutes[m] = N("request", {m}, EndAsks)
            /\ adm.minutes[m] - adm.endMinutes[m] = N("request", {m}, Regular)
            /\ N("request", {m}, Regular) <= RegularMinute
        BY <1>2, <2>1, <3>2 DEF MinuteKept
      <4>2. adm'.minutes[m] = adm.minutes[m] + 1 /\ adm'.endMinutes[m] = adm.endMinutes[m] + ends
        BY <1>2, <1>3, <3>2
      <4>. QED BY <1>4, <2>2, <3>2, <4>1, <4>2 DEF A!AdmissionAssumption
    <3>. QED BY <3>1, <3>2
  <2>4. ASSUME NEW ip \in Ips
        PROVE  /\ N("transaction", {m}, OfIp(ip))' <= PerIdentity
               /\ m \in A!LiveMinutes => N("transaction", {m}, OfIp(ip))' <= bud'.ips[m][ip]
    <3>1. N("transaction", {m}, OfIp(ip))' = N("transaction", {m}, OfIp(ip))
      BY <1>5
    <3>. QED BY <2>1, <3>1 DEF MinuteKept
  <2>5. ASSUME NEW ip \in Ips, NEW l \in A!Lanes
        PROVE  /\ N("request", {m}, OfLane(ip, l))' <= LaneLimit[l]
               /\ m \in A!LiveMinutes => adm'.ips[m][ip][l] = N("request", {m}, OfLane(ip, l))'
    <3>1. ask \in OfLane(ip, l) <=> ip = ask.ip /\ l = lane
      BY <1>1 DEF OfLane, lane
    <3>2. /\ N("request", {m}, OfLane(ip, l)) \in Nat
          /\ N("request", {m}, OfLane(ip, l))' = N("request", {m}, OfLane(ip, l))
               + IF m = minute /\ ip = ask.ip /\ l = lane THEN 1 ELSE 0
      BY <1>5, <2>1, <3>1
    <3>3. /\ N("request", {m}, OfLane(ip, l)) <= LaneLimit[l]
          /\ m \in A!LiveMinutes => adm.ips[m][ip][l] = N("request", {m}, OfLane(ip, l))
      BY <2>1 DEF MinuteKept
    <3>4. m \in A!LiveMinutes =>
            adm'.ips[m][ip][l] = adm.ips[m][ip][l] + IF m = minute /\ ip = ask.ip /\ l = lane THEN 1 ELSE 0
      BY <1>3
    <3>. QED BY <1>2, <1>4, <3>2, <3>3, <3>4 DEF A!AdmissionAssumption
  <2>. QED BY <2>1, <2>3, <2>4, <2>5 DEF MinuteKept
<1>7. ASSUME NEW d \in A!Days
      PROVE  DayKept(d)'
  <2>. DEFINE S == A!MinutesOf(d)
  <2>1. DayKept(d) /\ (d \in A!LiveDays' <=> d \in A!LiveDays) /\ (minute \in S <=> d = A!Day(minute))
    BY <1>1, <1>2, TimeFacts DEF AdmissionInv, A!MinutesOf, AdmissionTyped
  <2>. HIDE DEF S
  <2>2. /\ N("request", S, Asks)' = N("request", S, Asks) + IF d = A!Day(minute) THEN 1 ELSE 0
        /\ N("request", S, Regular)' = N("request", S, Regular) + IF d = A!Day(minute) /\ lane # "terminal" THEN 1 ELSE 0
        /\ N("request", S, EndAsks)' = N("request", S, EndAsks) + IF d = A!Day(minute) THEN ends ELSE 0
        /\ N("request", S, Asks) \in Nat /\ N("request", S, Regular) \in Nat /\ N("request", S, EndAsks) \in Nat
    BY <1>1, <1>5, <2>1
  <2>3. /\ N("transaction", S, Asks)' = N("transaction", S, Asks) /\ N("call", S, Asks)' = N("call", S, Asks)
        /\ N("key", S, Asks)' = N("key", S, Asks)
    BY <1>5
  <2>4. /\ N("request", S, Asks)' <= TotalDay /\ N("request", S, Regular)' <= RegularDay
        /\ d \in A!LiveDays =>
             /\ adm'.days[d] = N("request", S, Asks)' /\ adm'.endDays[d] = N("request", S, EndAsks)'
             /\ adm'.days[d] - adm'.endDays[d] = N("request", S, Regular)'
    <3>1. /\ N("request", S, Asks) <= TotalDay /\ N("request", S, Regular) <= RegularDay
          /\ d \in A!LiveDays =>
               /\ adm.days[d] = N("request", S, Asks) /\ adm.endDays[d] = N("request", S, EndAsks)
               /\ adm.days[d] - adm.endDays[d] = N("request", S, Regular)
      BY <2>1 DEF DayKept, S
    <3>2. CASE d # A!Day(minute)
      BY <1>3, <2>2, <3>1, <3>2
    <3>3. CASE d = A!Day(minute)
      <4>1. d \in A!LiveDays /\ adm'.days[d] = adm.days[d] + 1 /\ adm'.endDays[d] = adm.endDays[d] + ends
        BY <1>2, <1>3, <3>3
      <4>. QED BY <1>4, <2>2, <3>1, <3>3, <4>1 DEF A!AdmissionAssumption
    <3>. QED BY <3>2, <3>3
  <2>. QED BY <2>1, <2>3, <2>4 DEF DayKept, S
<1>. QED BY <1>6, <1>7
\* A charge of the budget, and the room it needs.
BudgetCharged(v, ip) ==
  /\ \A m \in A!LiveMinutes, i \in Ips :
       bud'.ips[m][i] = bud.ips[m][i] + IF v = "transaction" /\ m = minute /\ i = ip THEN 1 ELSE 0
  /\ \A d \in A!LiveDays :
       /\ bud'.transactions[d] = bud.transactions[d] + IF v = "transaction" /\ d = A!Day(minute) THEN 1 ELSE 0
       /\ bud'.calls[d] = bud.calls[d] + IF v = "call" /\ d = A!Day(minute) THEN 1 ELSE 0
       /\ bud'.keys[d] = bud.keys[d] + IF v = "key" /\ d = A!Day(minute) THEN 1 ELSE 0
BudgetRoom(v, ip) ==
  /\ v = "transaction" => /\ bud.transactions[A!Day(minute)] < TransactionLimit
                          /\ bud.ips[minute][ip] < PerIdentity
  /\ v = "call" => bud.calls[A!Day(minute)] < CallLimit
  /\ v = "key" => bud.keys[A!Day(minute)] < KeyLimit

LEMMA BudgetCounts ==
  ASSUME A!AdmissionAssumption, AdmissionInv, minute' = minute, adm' = adm, NEW r \in Asking,
         NEW v \in {"transaction", "call", "key"}, Pays(r, v), requests[r].ask \in Asks,
         A!Day(requests[r].minute) = A!Day(minute), v = "transaction" => requests[r].minute = minute,
         BudgetCharged(v, requests[r].ask.ip), BudgetRoom(v, requests[r].ask.ip)
  PROVE  (\A m \in A!Minutes : MinuteKept(m)') /\ \A d \in A!Days : DayKept(d)'
<1>. DEFINE ask == requests[r].ask
            at == requests[r].minute
<1>1. /\ ask \in Asks /\ ask.ip \in Ips /\ AdmissionTyped /\ at \in A!Minutes /\ v # "request"
      /\ minute \in A!LiveMinutes /\ A!Day(minute) \in A!LiveDays /\ A!LiveMinutes' = A!LiveMinutes
      /\ A!LiveDays' = A!LiveDays /\ A!LiveMinutes \subseteq A!Minutes /\ A!LiveDays \subseteq A!Days
  BY TimeFacts DEF AdmissionInv, AdmissionTyped, Asks, Request, A!LiveMinutes, A!LiveDays
<1>2. BudgetCharged(v, ask.ip) /\ BudgetRoom(v, ask.ip) /\ A!Day(at) = A!Day(minute) /\ (v = "transaction" => at = minute)
  OBVIOUS
<1>3. ASSUME NEW what, NEW S, NEW K
      PROVE  /\ N(what, S, K) \in Nat
             /\ N(what, S, K)' = N(what, S, K) + IF what = v /\ at \in S /\ ask \in K THEN 1 ELSE 0
  BY CountType, CountPlus
<1>. HIDE DEF ask, at
<1>4. ASSUME NEW S, NEW K
      PROVE  N("request", S, K)' = N("request", S, K)
  BY <1>1, <1>3
<1>5. ASSUME NEW m \in A!Minutes
      PROVE  MinuteKept(m)'
  <2>1. MinuteKept(m)
    BY DEF AdmissionInv
  <2>2. ASSUME NEW ip \in Ips
        PROVE  /\ N("transaction", {m}, OfIp(ip))' <= PerIdentity
               /\ m \in A!LiveMinutes => N("transaction", {m}, OfIp(ip))' <= bud'.ips[m][ip]
    <3>1. /\ N("transaction", {m}, OfIp(ip)) \in Nat
          /\ N("transaction", {m}, OfIp(ip))' = N("transaction", {m}, OfIp(ip))
               + IF v = "transaction" /\ m = minute /\ ip = ask.ip THEN 1 ELSE 0
      BY <1>1, <1>2, <1>3 DEF OfIp
    <3>2. /\ N("transaction", {m}, OfIp(ip)) <= PerIdentity
          /\ m \in A!LiveMinutes => N("transaction", {m}, OfIp(ip)) <= bud.ips[m][ip]
      BY <2>1 DEF MinuteKept
    <3>3. m \in A!LiveMinutes => bud.ips[m][ip] \in Nat
      BY <1>1 DEF AdmissionTyped
    <3>4. v = "transaction" => bud.ips[minute][ask.ip] < PerIdentity
      BY <1>2 DEF BudgetRoom
    <3>5. m \in A!LiveMinutes =>
            bud'.ips[m][ip] = bud.ips[m][ip] + IF v = "transaction" /\ m = minute /\ ip = ask.ip THEN 1 ELSE 0
      BY <1>2 DEF BudgetCharged
    <3>. QED BY <1>1, <3>1, <3>2, <3>3, <3>4, <3>5 DEF A!AdmissionAssumption
  <2>3. ASSUME NEW ip \in Ips, NEW lane \in A!Lanes
        PROVE  N("request", {m}, OfLane(ip, lane))' = N("request", {m}, OfLane(ip, lane))
    BY <1>4
  <2>4. /\ N("request", {m}, Asks)' = N("request", {m}, Asks)
        /\ N("request", {m}, Regular)' = N("request", {m}, Regular)
        /\ N("request", {m}, EndAsks)' = N("request", {m}, EndAsks)
    BY <1>4
  <2>. QED BY <1>1, <2>1, <2>2, <2>3, <2>4 DEF MinuteKept
<1>6. ASSUME NEW d \in A!Days
      PROVE  DayKept(d)'
  <2>. DEFINE S == A!MinutesOf(d)
  <2>1. DayKept(d) /\ (at \in S <=> d = A!Day(minute))
    BY <1>1, <1>2 DEF AdmissionInv, A!MinutesOf
  <2>2. d \in A!LiveDays => bud.transactions[d] \in Nat /\ bud.calls[d] \in Nat /\ bud.keys[d] \in Nat
    BY <1>1 DEF AdmissionTyped
  <2>3. {TransactionLimit, CallLimit, KeyLimit} \subseteq Nat
    BY DEF A!AdmissionAssumption
  <2>. HIDE DEF S
  <2>4. /\ N("request", S, Asks)' = N("request", S, Asks)
        /\ N("request", S, Regular)' = N("request", S, Regular)
        /\ N("request", S, EndAsks)' = N("request", S, EndAsks)
    BY <1>4
  <2>5. N("transaction", S, Asks)' <= TransactionLimit
        /\ (d \in A!LiveDays => N("transaction", S, Asks)' <= bud'.transactions[d])
    <3>1. /\ N("transaction", S, Asks) \in Nat
          /\ N("transaction", S, Asks)' = N("transaction", S, Asks) + IF v = "transaction" /\ d = A!Day(minute) THEN 1 ELSE 0
      BY <1>1, <1>3, <2>1
    <3>. QED BY <1>1, <1>2, <2>1, <2>2, <2>3, <3>1 DEF DayKept, BudgetCharged, BudgetRoom, S
  <2>6. N("call", S, Asks)' <= CallLimit /\ (d \in A!LiveDays => N("call", S, Asks)' <= bud'.calls[d])
    <3>1. /\ N("call", S, Asks) \in Nat
          /\ N("call", S, Asks)' = N("call", S, Asks) + IF v = "call" /\ d = A!Day(minute) THEN 1 ELSE 0
      BY <1>1, <1>3, <2>1
    <3>. QED BY <1>1, <1>2, <2>1, <2>2, <2>3, <3>1 DEF DayKept, BudgetCharged, BudgetRoom, S
  <2>7. N("key", S, Asks)' <= KeyLimit /\ (d \in A!LiveDays => N("key", S, Asks)' <= bud'.keys[d])
    <3>1. /\ N("key", S, Asks) \in Nat
          /\ N("key", S, Asks)' = N("key", S, Asks) + IF v = "key" /\ d = A!Day(minute) THEN 1 ELSE 0
      BY <1>1, <1>3, <2>1
    <3>. QED BY <1>1, <1>2, <2>1, <2>2, <2>3, <3>1 DEF DayKept, BudgetCharged, BudgetRoom, S
  <2>. QED BY <1>1, <2>1, <2>4, <2>5, <2>6, <2>7 DEF DayKept, S
<1>. QED BY <1>5, <1>6
(***************************************************************************)
(* The steps.                                                              *)
(***************************************************************************)
LEMMA StepFacts ==
  ASSUME AdmissionTyped, NEW r \in Asking, NEW pc \in Phases, A!Step(r, pc)
  PROVE  /\ requests' \in [Asking -> Request] /\ \A s \in Asking \ {r} : requests'[s] = requests[s]
         /\ requests'[r].pc = pc /\ requests'[r].ask = requests[r].ask /\ requests'[r].minute = requests[r].minute
         /\ requests'[r].paid = requests[r].paid /\ requests'[r].answer = requests[r].answer
BY DEF AdmissionTyped, A!Step, Request

LEMMA AnswerFacts ==
  ASSUME AdmissionTyped, NEW r \in Asking, NEW what \in Answers, A!Answer(r, what)
  PROVE  /\ requests' \in [Asking -> Request] /\ \A s \in Asking \ {r} : requests'[s] = requests[s]
         /\ requests'[r].pc = "end" /\ requests'[r].ask = requests[r].ask /\ requests'[r].minute = requests[r].minute
         /\ requests'[r].paid = requests[r].paid /\ requests'[r].answer = what
BY DEF AdmissionTyped, A!Answer, Request, Phases

LEMMA PaidFacts ==
  ASSUME AdmissionTyped, NEW r \in Asking, NEW pc \in Phases, NEW v \in Charges, A!Paid(r, v, pc)
  PROVE  /\ requests' \in [Asking -> Request] /\ \A s \in Asking \ {r} : requests'[s] = requests[s]
         /\ requests'[r].pc = pc /\ requests'[r].ask = requests[r].ask /\ requests'[r].minute = requests[r].minute
         /\ requests'[r].paid = requests[r].paid \cup {v} /\ requests'[r].answer = requests[r].answer
BY DEF AdmissionTyped, A!Paid, Request

\* A descriptor that may still be asked for is kept.
IndexKept(s) == idx[s] = requests[s].minute + 2 /\ minute' < idx[s] => idx'[s] = idx[s]

LEMMA OthersStay ==
  ASSUME A!AdmissionAssumption, AdmissionInv, minute' \in A!Minutes, minute <= minute', NEW s \in Asking,
         requests'[s] = requests[s], children'[s] = children[s], IndexKept(s)
  PROVE  RequestAt(s)'
<1>1. /\ RequestAt(s) /\ minute \in Nat /\ minute' \in Nat /\ requests[s].minute \in Nat
  BY TimeFacts DEF AdmissionInv, AdmissionTyped, Request
<1>. QED BY <1>1 DEF RequestAt, IndexKept

LEMMA AnswersAlike ==
  ASSUME A!AdmissionAssumption, AdmissionInv, AdmissionTyped', minute' = minute, NEW r \in Asking,
         requests'[r].pc = "end", requests'[r].ask = requests[r].ask, requests'[r].minute = requests[r].minute,
         requests'[r].paid = requests[r].paid, children'[r] = children[r], IndexKept(r),
         requests'[r].answer = "forwarded" => requests[r].pc = "forward"
  PROVE  RequestAt(r)'
<1>1. RequestAt(r) /\ minute \in Nat /\ requests[r].minute \in Nat
  BY TimeFacts DEF AdmissionInv, AdmissionTyped, Request
<1>. QED BY <1>1 DEF RequestAt, IndexKept

LEMMA QuietStep ==
  ASSUME A!AdmissionAssumption, AdmissionInv, AdmissionTyped', minute' = minute, NEW r \in Asking,
         \A s \in Asking \ {r} : requests'[s] = requests[s] /\ children'[s] = children[s] /\ IndexKept(s),
         KeepsPaid, TablesKept, RequestAt(r)'
  PROVE  AdmissionInv'
<1>1. minute \in A!Minutes /\ minute <= minute'
  BY TimeFacts DEF AdmissionInv, AdmissionTyped
<1>2. \A s \in Asking : RequestAt(s)'
  BY <1>1, OthersStay
<1>3. (\A m \in A!Minutes : MinuteKept(m)') /\ \A d \in A!Days : DayKept(d)'
  BY <1>1, QuietCounts
<1>. QED BY <1>2, <1>3 DEF AdmissionInv

\* The step of a request that neither charges nor sweeps.
LEMMA PlainStep ==
  ASSUME A!AdmissionAssumption, AdmissionInv, NEW r \in Asking, UNCHANGED <<adm, bud, minute>>,
         requests' \in [Asking -> Request], idx' \in [Asking -> Nat \cup {None}],
         children' \in [Asking -> Nat \cup {None}],
         \A s \in Asking \ {r} : requests'[s] = requests[s] /\ children'[s] = children[s] /\ IndexKept(s),
         KeepsPaid, RequestAt(r)'
  PROVE  AdmissionInv'
<1>1. AdmissionTyped'
  BY DEF AdmissionInv, AdmissionTyped
<1>2. /\ A!LiveMinutes' = A!LiveMinutes /\ A!LiveDays' = A!LiveDays
      /\ A!LiveMinutes \subseteq A!Minutes /\ A!LiveDays \subseteq A!Days
  BY DEF A!LiveMinutes, A!LiveDays
<1>3. TablesKept
  BY <1>2, TimeFacts DEF TablesKept, AdmissionInv, AdmissionTyped
<1>. QED BY <1>1, <1>3, QuietStep

LEMMA AskStep ==
  ASSUME A!AdmissionAssumption, AdmissionInv, NEW r \in Asking, A!Ask(r)
  PROVE  AdmissionInv'
<1>1. PICK ask \in AsksOf[r] :
        requests' = [requests EXCEPT ![r].ask = ask, ![r].minute = minute, ![r].pc = "admit"]
  BY DEF A!Ask
<1>2. /\ AdmissionTyped /\ RequestAt(r) /\ requests[r].pc = "idle" /\ ask \in Asks /\ idx' = idx
      /\ UNCHANGED <<adm, bud, minute, children>> /\ minute \in A!Minutes
  BY AskedIsAsks DEF A!Ask, AdmissionInv, AdmissionTyped
<1>3. /\ requests' \in [Asking -> Request] /\ \A s \in Asking \ {r} : requests'[s] = requests[s]
      /\ requests'[r].pc = "admit" /\ requests'[r].ask = ask /\ requests'[r].minute = minute
      /\ requests'[r].paid = requests[r].paid /\ requests'[r].answer = requests[r].answer
  BY <1>1, <1>2 DEF AdmissionTyped, Request, Phases
<1>4. requests[r].paid = {} /\ children[r] = None /\ requests[r].answer = None /\ None # "forwarded" /\ minute \in Nat
  BY <1>2, TimeFacts DEF RequestAt, A!AdmissionAssumption
<1>5. RequestAt(r)'
  BY <1>2, <1>3, <1>4 DEF RequestAt
<1>6. KeepsPaid
  BY <1>3, <1>4 DEF KeepsPaid
<1>. QED BY <1>2, <1>3, <1>5, <1>6, PlainStep DEF AdmissionTyped, IndexKept

\* A request goes from one step to another.
LEMMA Walks ==
  ASSUME A!AdmissionAssumption, AdmissionInv, NEW r \in Asking, NEW pc \in Phases, A!Step(r, pc),
         UNCHANGED <<adm, bud, minute, children, idx>>,
         requests[r].pc \notin {"idle", "end"}, pc \notin {"idle", "end"},
         LET paid == requests[r].paid
         IN /\ pc \in {"admit", "admitting"} => paid = {}
            /\ pc \in {"admitted", "allocate", "lookup", "budget", "budgeting", "call", "calling"} => paid = {"request"}
            /\ pc \in {"indexing", "child", "created"} => paid = {"request", "transaction"}
            /\ pc \in {"key", "keying"} => paid = {"request", "call"},
         pc \in {"child", "created"} => requests[r].pc \in {"indexed", "child", "created"},
         pc \notin {"forward", "indexed"}
  PROVE  AdmissionInv'
<1>1. /\ requests' \in [Asking -> Request] /\ \A s \in Asking \ {r} : requests'[s] = requests[s]
      /\ requests'[r].pc = pc /\ requests'[r].ask = requests[r].ask /\ requests'[r].minute = requests[r].minute
      /\ requests'[r].paid = requests[r].paid /\ requests'[r].answer = requests[r].answer
  BY StepFacts DEF AdmissionInv
<1>2. RequestAt(r) /\ None # "forwarded"
  BY DEF AdmissionInv, A!AdmissionAssumption
<1>3. RequestAt(r)'
  BY <1>1, <1>2 DEF RequestAt
<1>4. KeepsPaid
  BY <1>1 DEF KeepsPaid
<1>. QED BY <1>1, <1>3, <1>4, PlainStep DEF AdmissionInv, AdmissionTyped, IndexKept
LEMMA EnterStep ==
  ASSUME A!AdmissionAssumption, AdmissionInv, NEW r \in Asking,
         A!EnterAdmission(r) \/ A!Dispatch(r) \/ A!EnterIndex(r) \/ A!CallChild(r) \/ A!EnterBudget(r)
  PROVE  AdmissionInv'
<1>1. RequestAt(r)
  BY DEF AdmissionInv
<1>2. CASE A!EnterAdmission(r)
  BY <1>1, <1>2, Walks DEF A!EnterAdmission, RequestAt, Phases
<1>3. CASE A!Dispatch(r)
  <2>1. PICK pc \in {"allocate", "lookup", "call"} : A!Step(r, pc)
    BY <1>3 DEF A!Dispatch
  <2>. QED BY <1>1, <1>3, <2>1, Walks DEF A!Dispatch, RequestAt, Phases
<1>4. CASE A!EnterIndex(r)
  BY <1>1, <1>4, Walks DEF A!EnterIndex, RequestAt, Phases
<1>5. CASE A!CallChild(r)
  BY <1>1, <1>5, Walks DEF A!CallChild, RequestAt, Phases
<1>6. CASE A!EnterBudget(r)
  <2>1. CASE requests[r].pc = "budget"
    BY <1>1, <1>6, <2>1, Walks DEF A!EnterBudget, RequestAt, Phases
  <2>2. CASE requests[r].pc = "call"
    BY <1>1, <1>6, <2>2, Walks DEF A!EnterBudget, RequestAt, Phases
  <2>3. CASE requests[r].pc = "key"
    BY <1>1, <1>6, <2>3, Walks DEF A!EnterBudget, RequestAt, Phases
  <2>. QED BY <1>6, <2>1, <2>2, <2>3 DEF A!EnterBudget
<1>. QED BY <1>2, <1>3, <1>4, <1>5, <1>6

\* A request is answered, and nothing else changes.
LEMMA Ends ==
  ASSUME A!AdmissionAssumption, AdmissionInv, NEW r \in Asking, NEW what \in Answers, A!Answer(r, what),
         UNCHANGED <<adm, bud, minute, children, idx>>, what = "forwarded" => requests[r].pc = "forward"
  PROVE  AdmissionInv'
<1>1. /\ requests' \in [Asking -> Request] /\ \A s \in Asking \ {r} : requests'[s] = requests[s]
      /\ requests'[r].pc = "end" /\ requests'[r].ask = requests[r].ask /\ requests'[r].minute = requests[r].minute
      /\ requests'[r].paid = requests[r].paid /\ requests'[r].answer = what
  BY AnswerFacts DEF AdmissionInv
<1>2. AdmissionTyped'
  BY <1>1 DEF AdmissionInv, AdmissionTyped
<1>3. RequestAt(r)'
  BY <1>1, <1>2, AnswersAlike DEF IndexKept
<1>4. KeepsPaid
  BY <1>1 DEF KeepsPaid
<1>. QED BY <1>1, <1>3, <1>4, PlainStep DEF AdmissionInv, AdmissionTyped, IndexKept

LEMMA EndStep ==
  ASSUME A!AdmissionAssumption, AdmissionInv, NEW r \in Asking,
         A!Created(r) \/ A!Lookup(r) \/ A!Forward(r) \/ A!Fail(r)
  PROVE  AdmissionInv'
<1>1. CASE A!Lookup(r)
  <2>1. PICK what \in {"routed", "invalid", "expired"} : A!Answer(r, what)
    BY <1>1 DEF A!Lookup
  <2>. QED BY <1>1, <2>1, Ends DEF A!Lookup, Answers
<1>2. CASE A!Created(r) \/ A!Forward(r) \/ A!Fail(r)
  BY <1>2, Ends DEF A!Created, A!Forward, A!Fail, Answers
<1>. QED BY <1>1, <1>2

LEMMA CreateStep ==
  ASSUME A!AdmissionAssumption, AdmissionInv, NEW r \in Asking, A!Create(r)
  PROVE  AdmissionInv'
<1>1. /\ requests' \in [Asking -> Request] /\ \A s \in Asking \ {r} : requests'[s] = requests[s]
      /\ requests'[r].pc = "created" /\ requests'[r].ask = requests[r].ask /\ requests'[r].minute = requests[r].minute
      /\ requests'[r].paid = requests[r].paid /\ requests'[r].answer = requests[r].answer
  BY StepFacts DEF A!Create, AdmissionInv, Phases
<1>2. /\ RequestAt(r) /\ requests[r].pc = "child" /\ children' = [children EXCEPT ![r] = requests[r].minute]
      /\ UNCHANGED <<adm, bud, idx, minute>> /\ requests[r].minute \in Nat /\ None # "forwarded" /\ AdmissionTyped
  BY TimeFacts DEF A!Create, AdmissionInv, AdmissionTyped, Request, A!AdmissionAssumption
<1>3. children' \in [Asking -> Nat \cup {None}] /\ children'[r] = requests[r].minute
      /\ \A s \in Asking \ {r} : children'[s] = children[s]
  BY <1>2 DEF AdmissionTyped
<1>4. RequestAt(r)'
  BY <1>1, <1>2, <1>3 DEF RequestAt
<1>5. KeepsPaid
  BY <1>1 DEF KeepsPaid
<1>. QED BY <1>1, <1>2, <1>3, <1>4, <1>5, PlainStep DEF AdmissionTyped, IndexKept

LEMMA SweptIndex ==
  ASSUME A!AdmissionAssumption, AdmissionInv, NEW s \in Asking
  PROVE  LET live == A!Kept(idx, A!Listed, None)
         IN /\ live \in [Asking -> Nat \cup {None}]
            /\ idx[s] = requests[s].minute + 2 /\ minute < idx[s] => live[s] = idx[s]
<1>1. idx \in [Asking -> Nat \cup {None}] /\ requests[s].minute + 2 \in Nat /\ None \notin Nat
  BY TimeFacts DEF AdmissionInv, AdmissionTyped, Request, A!AdmissionAssumption
<1>. QED BY <1>1 DEF A!Kept, A!Listed

LEMMA IndexStep ==
  ASSUME A!AdmissionAssumption, AdmissionInv, NEW r \in Asking, A!Index(r)
  PROVE  AdmissionInv'
<1>1. CASE A!Answer(r, "rate_limited") /\ idx' = idx
  BY <1>1, Ends DEF A!Index, Answers
<1>2. CASE A!Step(r, "indexed") /\ idx' = [A!Kept(idx, A!Listed, None) EXCEPT ![r] = minute + 2]
  <2>1. /\ requests' \in [Asking -> Request] /\ \A s \in Asking \ {r} : requests'[s] = requests[s]
        /\ requests'[r].pc = "indexed" /\ requests'[r].ask = requests[r].ask /\ requests'[r].minute = requests[r].minute
        /\ requests'[r].paid = requests[r].paid /\ requests'[r].answer = requests[r].answer
    BY <1>2, StepFacts DEF AdmissionInv, Phases
  <2>2. /\ RequestAt(r) /\ requests[r].pc = "indexing" /\ requests[r].minute = minute /\ minute \in Nat
        /\ UNCHANGED <<adm, bud, children, minute>> /\ None # "forwarded" /\ AdmissionTyped
    <3>1. AdmissionTyped /\ RequestAt(r)
      BY DEF AdmissionInv
    <3>2. requests[r].pc = "indexing" /\ requests[r].minute = minute /\ UNCHANGED <<adm, bud, children, minute>>
      BY DEF A!Index, A!IsCurrent
    <3>. QED BY <3>1, <3>2, TimeFacts DEF A!AdmissionAssumption, AdmissionTyped
  <2>3. /\ idx' \in [Asking -> Nat \cup {None}] /\ idx'[r] = minute + 2
        /\ \A s \in Asking \ {r} : idx'[s] = A!Kept(idx, A!Listed, None)[s]
    BY <1>2, <2>2, SweptIndex
  <2>4. \A s \in Asking \ {r} : IndexKept(s)
    BY <2>2, <2>3, SweptIndex DEF IndexKept
  <2>5. RequestAt(r)'
    BY <2>1, <2>2, <2>3 DEF RequestAt
  <2>6. KeepsPaid
    BY <2>1 DEF KeepsPaid
  <2>. QED BY <2>1, <2>2, <2>3, <2>4, <2>5, <2>6, PlainStep DEF AdmissionTyped
<1>. QED BY <1>1, <1>2 DEF A!Index
\* Sweeping keeps what lives.
LEMMA SweptKept ==
  ASSUME A!AdmissionAssumption, AdmissionInv, minute' = minute, adm' \in {adm, A!SweptRequests},
         bud' \in {bud, A!SweptBudget}
  PROVE  /\ TablesKept
         /\ adm' \in [days : [A!Days -> Nat], minutes : [A!Minutes -> Nat], endDays : [A!Days -> Nat],
                      endMinutes : [A!Minutes -> Nat], ips : [A!Minutes -> [Ips -> [A!Lanes -> Nat]]]]
         /\ bud' \in [transactions : [A!Days -> Nat], keys : [A!Days -> Nat], calls : [A!Days -> Nat],
                      ips : [A!Minutes -> [Ips -> Nat]]]
<1>1. /\ AdmissionTyped /\ A!LiveMinutes' = A!LiveMinutes /\ A!LiveDays' = A!LiveDays
      /\ A!LiveMinutes \subseteq A!Minutes /\ A!LiveDays \subseteq A!Days
  BY DEF AdmissionInv, A!LiveMinutes, A!LiveDays
<1>2. adm' \in [days : [A!Days -> Nat], minutes : [A!Minutes -> Nat], endDays : [A!Days -> Nat],
                endMinutes : [A!Minutes -> Nat], ips : [A!Minutes -> [Ips -> [A!Lanes -> Nat]]]]
  BY <1>1, SweptRequestsFacts DEF AdmissionTyped
<1>3. bud' \in [transactions : [A!Days -> Nat], keys : [A!Days -> Nat], calls : [A!Days -> Nat],
                ips : [A!Minutes -> [Ips -> Nat]]]
  BY <1>1, SweptBudgetFacts DEF AdmissionTyped
<1>4. ASSUME NEW m \in A!LiveMinutes
      PROVE  /\ adm'.minutes[m] = adm.minutes[m] /\ adm'.endMinutes[m] = adm.endMinutes[m]
             /\ adm'.ips[m] = adm.ips[m] /\ \A ip \in Ips : bud.ips[m][ip] <= bud'.ips[m][ip]
  <2>1. adm'.minutes[m] = adm.minutes[m] /\ adm'.endMinutes[m] = adm.endMinutes[m] /\ adm'.ips[m] = adm.ips[m]
    BY <1>1, SweptRequestsFacts
  <2>2. bud'.ips[m] = bud.ips[m] /\ \A ip \in Ips : bud.ips[m][ip] \in Nat
    BY <1>1, SweptBudgetFacts DEF AdmissionTyped
  <2>. QED BY <2>1, <2>2
<1>5. ASSUME NEW d \in A!LiveDays
      PROVE  /\ adm'.days[d] = adm.days[d] /\ adm'.endDays[d] = adm.endDays[d]
             /\ bud.transactions[d] <= bud'.transactions[d]
             /\ bud.calls[d] <= bud'.calls[d] /\ bud.keys[d] <= bud'.keys[d]
  <2>1. adm'.days[d] = adm.days[d] /\ adm'.endDays[d] = adm.endDays[d]
    BY <1>1, SweptRequestsFacts
  <2>2. /\ bud'.transactions[d] = bud.transactions[d] /\ bud'.calls[d] = bud.calls[d] /\ bud'.keys[d] = bud.keys[d]
        /\ bud.transactions[d] \in Nat /\ bud.calls[d] \in Nat /\ bud.keys[d] \in Nat
    BY <1>1, SweptBudgetFacts DEF AdmissionTyped
  <2>. QED BY <2>1, <2>2
<1>. QED BY <1>1, <1>2, <1>3, <1>4, <1>5 DEF TablesKept

\* A request is answered after a sweep, or after a charge that is lost.
LEMMA EndsSwept ==
  ASSUME A!AdmissionAssumption, AdmissionInv, NEW r \in Asking, NEW what \in Answers, A!Answer(r, what),
         what # "forwarded", UNCHANGED <<minute, children, idx>>, TablesKept,
         adm' \in [days : [A!Days -> Nat], minutes : [A!Minutes -> Nat], endDays : [A!Days -> Nat],
                   endMinutes : [A!Minutes -> Nat], ips : [A!Minutes -> [Ips -> [A!Lanes -> Nat]]]],
         bud' \in [transactions : [A!Days -> Nat], keys : [A!Days -> Nat], calls : [A!Days -> Nat],
                   ips : [A!Minutes -> [Ips -> Nat]]]
  PROVE  AdmissionInv'
<1>1. /\ requests' \in [Asking -> Request] /\ \A s \in Asking \ {r} : requests'[s] = requests[s]
      /\ requests'[r].pc = "end" /\ requests'[r].ask = requests[r].ask /\ requests'[r].minute = requests[r].minute
      /\ requests'[r].paid = requests[r].paid /\ requests'[r].answer = what
  BY AnswerFacts DEF AdmissionInv
<1>2. AdmissionTyped'
  BY <1>1 DEF AdmissionInv, AdmissionTyped
<1>3. RequestAt(r)'
  BY <1>1, <1>2, AnswersAlike DEF IndexKept
<1>4. KeepsPaid
  BY <1>1 DEF KeepsPaid
<1>. QED BY <1>1, <1>2, <1>3, <1>4, QuietStep DEF IndexKept

LEMMA AdmitStep ==
  ASSUME A!AdmissionAssumption, AdmissionInv, NEW r \in Asking, A!Admit(r)
  PROVE  AdmissionInv'
<1>1. /\ RequestAt(r) /\ requests[r].pc = "admitting" /\ requests[r].minute = minute /\ requests[r].ask \in Asks
      /\ requests[r].paid = {} /\ AdmissionTyped /\ UNCHANGED <<bud, idx, children, minute>> /\ None # "forwarded"
  BY DEF A!Admit, A!IsCurrent, AdmissionInv, RequestAt, A!AdmissionAssumption
<1>2. CASE adm' = A!SweptRequests /\ A!Answer(r, "rate_limited")
  BY <1>1, <1>2, SweptKept, EndsSwept DEF Answers
<1>3. CASE /\ ~A!IsDenied(A!SweptRequests, minute, requests[r].ask.ip, A!LaneOf(requests[r].ask))
           /\ adm' = A!Charged(A!SweptRequests, minute, requests[r].ask.ip, A!LaneOf(requests[r].ask))
           /\ A!Paid(r, "request", "admitted")
  <2>1. /\ requests' \in [Asking -> Request] /\ \A s \in Asking \ {r} : requests'[s] = requests[s]
        /\ requests'[r].pc = "admitted" /\ requests'[r].ask = requests[r].ask
        /\ requests'[r].minute = requests[r].minute /\ requests'[r].answer = requests[r].answer
        /\ requests'[r].paid = requests[r].paid \cup {"request"}
    BY <1>1, <1>3, PaidFacts DEF Phases, Charges
  <2>2. Pays(r, "request")
    BY <1>1, <2>1 DEF Pays
  <2>3. requests[r].ask.ip \in Ips /\ A!LaneOf(requests[r].ask) \in A!Lanes
    BY <1>1, LaneFacts DEF Asks
  <2>4. AdmissionTyped'
    BY <1>1, <1>3, <2>1, <2>3, ChargedFacts DEF AdmissionTyped
  <2>5. (\A m \in A!Minutes : MinuteKept(m)') /\ \A d \in A!Days : DayKept(d)'
    BY <1>1, <1>3, <2>2, AdmitCounts
  <2>6. RequestAt(r)'
    BY <1>1, <2>1 DEF RequestAt
  <2>7. minute' \in A!Minutes /\ minute <= minute'
    BY <1>1, TimeFacts DEF AdmissionTyped
  <2>8. \A s \in Asking \ {r} : RequestAt(s)'
    BY <1>1, <2>1, <2>7, OthersStay DEF IndexKept
  <2>. QED BY <2>4, <2>5, <2>6, <2>8 DEF AdmissionInv
<1>. QED BY <1>1, <1>2, <1>3 DEF A!Admit
\* What a charge makes of the budget.
LEMMA BudgetChargedFacts ==
  ASSUME A!AdmissionAssumption, AdmissionInv, minute' = minute, NEW ip \in Ips,
         NEW v \in {"transaction", "call", "key"},
         LET t == A!SweptBudget
             d == A!Day(minute)
         IN /\ v = "transaction" =>
                 bud' = [t EXCEPT !.transactions[d] = @ + 1, !.ips[minute][ip] = @ + 1]
            /\ v = "call" => bud' = [t EXCEPT !.calls[d] = @ + 1]
            /\ v = "key" => bud' = [t EXCEPT !.keys[d] = @ + 1]
  PROVE  /\ bud' \in [transactions : [A!Days -> Nat], keys : [A!Days -> Nat], calls : [A!Days -> Nat],
                      ips : [A!Minutes -> [Ips -> Nat]]]
         /\ BudgetCharged(v, ip)
<1>. DEFINE t == A!SweptBudget
            d == A!Day(minute)
            one(b) == IF b THEN 1 ELSE 0
<1>1. /\ t \in [transactions : [A!Days -> Nat], keys : [A!Days -> Nat], calls : [A!Days -> Nat],
                ips : [A!Minutes -> [Ips -> Nat]]]
      /\ \A m \in A!LiveMinutes : t.ips[m] = bud.ips[m]
      /\ \A e \in A!LiveDays : /\ t.transactions[e] = bud.transactions[e]
                               /\ t.keys[e] = bud.keys[e] /\ t.calls[e] = bud.calls[e]
  BY SweptBudgetFacts DEF AdmissionInv
<1>2. /\ A!LiveMinutes \subseteq A!Minutes /\ A!LiveDays \subseteq A!Days
      /\ minute \in A!Minutes /\ d \in A!Days /\ AdmissionTyped
  BY TimeFacts DEF A!LiveMinutes, A!LiveDays, AdmissionInv, AdmissionTyped
<1>3. t = [transactions |-> t.transactions, keys |-> t.keys, calls |-> t.calls, ips |-> t.ips]
  BY <1>1
<1>4. /\ v = "transaction" => bud' = [t EXCEPT !.transactions[d] = @ + 1, !.ips[minute][ip] = @ + 1]
      /\ v = "call" => bud' = [t EXCEPT !.calls[d] = @ + 1]
      /\ v = "key" => bud' = [t EXCEPT !.keys[d] = @ + 1]
  OBVIOUS
<1>. HIDE DEF t, d
<1>5. bud' = [transactions |-> bud'.transactions, keys |-> bud'.keys, calls |-> bud'.calls, ips |-> bud'.ips]
      /\ bud'.transactions = (IF v = "transaction" THEN [t.transactions EXCEPT ![d] = @ + 1] ELSE t.transactions)
      /\ bud'.calls = (IF v = "call" THEN [t.calls EXCEPT ![d] = @ + 1] ELSE t.calls)
      /\ bud'.keys = (IF v = "key" THEN [t.keys EXCEPT ![d] = @ + 1] ELSE t.keys)
      /\ bud'.ips = (IF v = "transaction" THEN [t.ips EXCEPT ![minute][ip] = @ + 1] ELSE t.ips)
  BY <1>3, <1>4
<1>6. /\ bud'.transactions \in [A!Days -> Nat] /\ bud'.calls \in [A!Days -> Nat] /\ bud'.keys \in [A!Days -> Nat]
      /\ bud'.ips \in [A!Minutes -> [Ips -> Nat]]
  BY <1>1, <1>2, <1>5
<1>7. ASSUME NEW m \in A!LiveMinutes, NEW i \in Ips
      PROVE  bud'.ips[m][i] = bud.ips[m][i] + IF v = "transaction" /\ m = minute /\ i = ip THEN 1 ELSE 0
  BY <1>1, <1>2, <1>5 DEF AdmissionTyped
<1>8. ASSUME NEW e \in A!LiveDays
      PROVE  /\ bud'.transactions[e] = bud.transactions[e] + IF v = "transaction" /\ e = d THEN 1 ELSE 0
             /\ bud'.calls[e] = bud.calls[e] + IF v = "call" /\ e = d THEN 1 ELSE 0
             /\ bud'.keys[e] = bud.keys[e] + IF v = "key" /\ e = d THEN 1 ELSE 0
  BY <1>1, <1>2, <1>5 DEF AdmissionTyped
<1>. QED BY <1>5, <1>6, <1>7, <1>8 DEF BudgetCharged, d

\* A charge keeps what the budget counts.
LEMMA ChargedKept ==
  ASSUME A!AdmissionAssumption, AdmissionInv, minute' = minute, adm' = adm, NEW ip, NEW v, BudgetCharged(v, ip)
  PROVE  TablesKept
<1>1. /\ AdmissionTyped /\ A!LiveMinutes' = A!LiveMinutes /\ A!LiveDays' = A!LiveDays
      /\ A!LiveMinutes \subseteq A!Minutes /\ A!LiveDays \subseteq A!Days
  BY DEF AdmissionInv, A!LiveMinutes, A!LiveDays
<1>2. ASSUME NEW m \in A!LiveMinutes, NEW i \in Ips
      PROVE  bud.ips[m][i] <= bud'.ips[m][i]
  <2>1. bud.ips[m][i] \in Nat
    BY <1>1 DEF AdmissionTyped
  <2>2. bud'.ips[m][i] = bud.ips[m][i] + IF v = "transaction" /\ m = minute /\ i = ip THEN 1 ELSE 0
    BY DEF BudgetCharged
  <2>. QED BY <2>1, <2>2
<1>3. ASSUME NEW d \in A!LiveDays
      PROVE  /\ bud.transactions[d] <= bud'.transactions[d]
             /\ bud.calls[d] <= bud'.calls[d] /\ bud.keys[d] <= bud'.keys[d]
  <2>1. bud.transactions[d] \in Nat /\ bud.calls[d] \in Nat /\ bud.keys[d] \in Nat
    BY <1>1 DEF AdmissionTyped
  <2>2. /\ bud'.transactions[d] = bud.transactions[d] + IF v = "transaction" /\ d = A!Day(minute) THEN 1 ELSE 0
        /\ bud'.calls[d] = bud.calls[d] + IF v = "call" /\ d = A!Day(minute) THEN 1 ELSE 0
        /\ bud'.keys[d] = bud.keys[d] + IF v = "key" /\ d = A!Day(minute) THEN 1 ELSE 0
    BY DEF BudgetCharged
  <2>. QED BY <2>1, <2>2
<1>. QED BY <1>1, <1>2, <1>3 DEF TablesKept

\* A request pays the budget, and goes on.
LEMMA PayStep ==
  ASSUME A!AdmissionAssumption, AdmissionInv, UNCHANGED <<adm, idx, children, minute>>, NEW r \in Asking,
         NEW v \in {"transaction", "call", "key"}, NEW pc \in Phases, A!Paid(r, v, pc),
         v \notin requests[r].paid, requests[r].ask \in Asks,
         bud' \in [transactions : [A!Days -> Nat], keys : [A!Days -> Nat], calls : [A!Days -> Nat],
                   ips : [A!Minutes -> [Ips -> Nat]]],
         A!Day(requests[r].minute) = A!Day(minute), v = "transaction" => requests[r].minute = minute,
         BudgetCharged(v, requests[r].ask.ip), BudgetRoom(v, requests[r].ask.ip),
         RequestAt(r)'
  PROVE  AdmissionInv'
<1>1. /\ requests' \in [Asking -> Request] /\ \A s \in Asking \ {r} : requests'[s] = requests[s]
      /\ requests'[r].ask = requests[r].ask /\ requests'[r].minute = requests[r].minute
      /\ requests'[r].paid = requests[r].paid \cup {v}
  BY PaidFacts DEF AdmissionInv, Charges
<1>2. Pays(r, v)
  BY <1>1 DEF Pays
<1>3. AdmissionTyped'
  BY <1>1 DEF AdmissionInv, AdmissionTyped
<1>4. (\A m \in A!Minutes : MinuteKept(m)') /\ \A d \in A!Days : DayKept(d)'
  BY <1>2, BudgetCounts
<1>5. minute' \in A!Minutes /\ minute <= minute'
  BY TimeFacts DEF AdmissionInv, AdmissionTyped
<1>6. \A s \in Asking \ {r} : RequestAt(s)'
  BY <1>1, <1>5, OthersStay DEF IndexKept
<1>. QED BY <1>3, <1>4, <1>6 DEF AdmissionInv

\* What a request that is about to pay knows.
LEMMA Payer ==
  ASSUME A!AdmissionAssumption, AdmissionInv, NEW r \in Asking, NEW pc \in {"budgeting", "calling", "keying"},
         requests[r].pc = pc
  PROVE  /\ requests[r].ask \in Asks /\ requests[r].ask.ip \in Ips /\ requests[r].answer = None
         /\ requests[r].paid = IF pc = "keying" THEN {"request", "call"} ELSE {"request"}
         /\ RequestAt(r) /\ AdmissionTyped /\ None # "forwarded" /\ children[r] = None
BY DEF AdmissionInv, RequestAt, A!AdmissionAssumption, Asks

LEMMA ChargeTransactionStep ==
  ASSUME A!AdmissionAssumption, AdmissionInv, NEW r \in Asking, A!ChargeTransaction(r)
  PROVE  AdmissionInv'
<1>. DEFINE ip == requests[r].ask.ip
            t == A!SweptBudget
<1>1. /\ requests[r].pc = "budgeting" /\ requests[r].minute = minute /\ UNCHANGED <<adm, idx, children, minute>>
  BY DEF A!ChargeTransaction, A!IsCurrent
<1>2. /\ requests[r].ask \in Asks /\ ip \in Ips /\ requests[r].answer = None /\ requests[r].paid = {"request"}
      /\ RequestAt(r) /\ AdmissionTyped /\ None # "forwarded" /\ children[r] = None
  BY <1>1, Payer
<1>3. CASE bud' = t /\ A!Answer(r, "rate_limited")
  BY <1>1, <1>3, SweptKept, EndsSwept DEF Answers
<1>4. CASE /\ ~A!IsOverdrawn(t, ip)
           /\ bud' = [t EXCEPT !.transactions[A!Day(minute)] = @ + 1, !.ips[minute][ip] = @ + 1]
           /\ A!Paid(r, "transaction", "indexing") \/ A!Answer(r, "unavailable")
  <2>1. /\ bud' \in [transactions : [A!Days -> Nat], keys : [A!Days -> Nat], calls : [A!Days -> Nat],
                     ips : [A!Minutes -> [Ips -> Nat]]]
        /\ BudgetCharged("transaction", ip)
    BY <1>1, <1>2, <1>4, BudgetChargedFacts
  <2>2. CASE A!Answer(r, "unavailable")
    <3>1. TablesKept
      BY <1>1, <2>1, ChargedKept
    <3>. QED BY <1>1, <1>2, <2>1, <2>2, <3>1, EndsSwept DEF Answers, AdmissionTyped
  <2>3. CASE A!Paid(r, "transaction", "indexing")
    <3>1. BudgetRoom("transaction", ip)
      <4>1. /\ minute \in A!LiveMinutes /\ A!Day(minute) \in A!LiveDays
            /\ minute \in A!Minutes /\ A!Day(minute) \in A!Days
        BY <1>2, TimeFacts DEF AdmissionTyped
      <4>2. t.transactions[A!Day(minute)] = bud.transactions[A!Day(minute)] /\ t.ips[minute] = bud.ips[minute]
        BY <1>2, <4>1, SweptBudgetFacts
      <4>3. bud.transactions[A!Day(minute)] \in Nat /\ bud.ips[minute][ip] \in Nat
        BY <1>2, <4>1 DEF AdmissionTyped
      <4>4. TransactionLimit \in Nat /\ PerIdentity \in Nat
        BY DEF A!AdmissionAssumption
      <4>. QED BY <1>4, <4>2, <4>3, <4>4 DEF A!IsOverdrawn, BudgetRoom
    <3>2. /\ requests'[r].pc = "indexing" /\ requests'[r].ask = requests[r].ask
          /\ requests'[r].minute = requests[r].minute /\ requests'[r].answer = requests[r].answer
          /\ requests'[r].paid = requests[r].paid \cup {"transaction"}
      BY <1>2, <2>3, PaidFacts DEF Phases, Charges
    <3>3. RequestAt(r)'
      BY <1>1, <1>2, <3>2 DEF RequestAt
    <3>. QED BY <1>1, <1>2, <2>1, <2>3, <3>1, <3>3, PayStep DEF Phases
  <2>. QED BY <1>4, <2>2, <2>3
<1>. QED BY <1>1, <1>3, <1>4 DEF A!ChargeTransaction
LEMMA ChargeCallStep ==
  ASSUME A!AdmissionAssumption, AdmissionInv, NEW r \in Asking, A!ChargeCall(r)
  PROVE  AdmissionInv'
<1>. DEFINE ip == requests[r].ask.ip
            t == A!SweptBudget
            next == IF requests[r].ask.kind = "register" THEN "key" ELSE "forward"
<1>1. /\ requests[r].pc = "calling" /\ A!Day(requests[r].minute) = A!Day(minute)
      /\ UNCHANGED <<adm, idx, children, minute>>
  BY DEF A!ChargeCall
<1>2. /\ requests[r].ask \in Asks /\ ip \in Ips /\ requests[r].answer = None /\ requests[r].paid = {"request"}
      /\ RequestAt(r) /\ AdmissionTyped /\ None # "forwarded" /\ children[r] = None
  BY <1>1, Payer
<1>3. CASE bud' = t /\ A!Answer(r, "rate_limited")
  BY <1>1, <1>3, SweptKept, EndsSwept DEF Answers
<1>4. CASE /\ ~(t.calls[A!Day(minute)] >= CallLimit)
           /\ bud' = [t EXCEPT !.calls[A!Day(minute)] = @ + 1]
           /\ A!Paid(r, "call", next)
  <2>1. /\ bud' \in [transactions : [A!Days -> Nat], keys : [A!Days -> Nat], calls : [A!Days -> Nat],
                     ips : [A!Minutes -> [Ips -> Nat]]]
        /\ BudgetCharged("call", ip)
    BY <1>1, <1>2, <1>4, BudgetChargedFacts
  <2>2. BudgetRoom("call", ip)
    <3>1. A!Day(minute) \in A!LiveDays /\ A!Day(minute) \in A!Days
      BY <1>2, TimeFacts
    <3>2. t.calls[A!Day(minute)] = bud.calls[A!Day(minute)] /\ bud.calls[A!Day(minute)] \in Nat
      BY <1>2, <3>1, SweptBudgetFacts DEF AdmissionTyped
    <3>3. CallLimit \in Nat
      BY DEF A!AdmissionAssumption
    <3>. QED BY <1>4, <3>2, <3>3 DEF BudgetRoom
  <2>3. next \in Phases /\ next \in {"key", "forward"} /\ (next = "forward" => requests[r].ask.kind # "register")
    BY DEF Phases
  <2>. HIDE DEF next
  <2>4. /\ requests'[r].pc = next /\ requests'[r].ask = requests[r].ask
        /\ requests'[r].minute = requests[r].minute /\ requests'[r].answer = requests[r].answer
        /\ requests'[r].paid = requests[r].paid \cup {"call"}
    BY <1>2, <1>4, <2>3, PaidFacts DEF Charges
  <2>5. RequestAt(r)'
    BY <1>1, <1>2, <2>3, <2>4 DEF RequestAt
  <2>. QED BY <1>1, <1>2, <1>4, <2>1, <2>2, <2>3, <2>5, PayStep
<1>. QED BY <1>1, <1>3, <1>4 DEF A!ChargeCall

LEMMA ChargeKeyStep ==
  ASSUME A!AdmissionAssumption, AdmissionInv, NEW r \in Asking, A!ChargeKey(r)
  PROVE  AdmissionInv'
<1>. DEFINE ip == requests[r].ask.ip
            t == A!SweptBudget
<1>1. /\ requests[r].pc = "keying" /\ requests[r].minute = minute /\ UNCHANGED <<adm, idx, children, minute>>
  BY DEF A!ChargeKey, A!IsCurrent
<1>2. /\ requests[r].ask \in Asks /\ ip \in Ips /\ requests[r].answer = None /\ requests[r].paid = {"request", "call"}
      /\ RequestAt(r) /\ AdmissionTyped /\ None # "forwarded" /\ children[r] = None
  BY <1>1, Payer
<1>3. CASE bud' = t /\ A!Answer(r, "rate_limited")
  BY <1>1, <1>3, SweptKept, EndsSwept DEF Answers
<1>4. CASE /\ ~(t.keys[A!Day(minute)] >= KeyLimit)
           /\ bud' = [t EXCEPT !.keys[A!Day(minute)] = @ + 1]
           /\ A!Paid(r, "key", "forward")
  <2>1. /\ bud' \in [transactions : [A!Days -> Nat], keys : [A!Days -> Nat], calls : [A!Days -> Nat],
                     ips : [A!Minutes -> [Ips -> Nat]]]
        /\ BudgetCharged("key", ip)
    BY <1>1, <1>2, <1>4, BudgetChargedFacts
  <2>2. BudgetRoom("key", ip)
    <3>1. A!Day(minute) \in A!LiveDays /\ A!Day(minute) \in A!Days
      BY <1>2, TimeFacts
    <3>2. t.keys[A!Day(minute)] = bud.keys[A!Day(minute)] /\ bud.keys[A!Day(minute)] \in Nat
      BY <1>2, <3>1, SweptBudgetFacts DEF AdmissionTyped
    <3>3. KeyLimit \in Nat
      BY DEF A!AdmissionAssumption
    <3>. QED BY <1>4, <3>2, <3>3 DEF BudgetRoom
  <2>3. /\ requests'[r].pc = "forward" /\ requests'[r].ask = requests[r].ask
        /\ requests'[r].minute = requests[r].minute /\ requests'[r].answer = requests[r].answer
        /\ requests'[r].paid = requests[r].paid \cup {"key"}
    BY <1>2, <1>4, PaidFacts DEF Charges, Phases
  <2>4. RequestAt(r)'
    BY <1>1, <1>2, <2>3 DEF RequestAt
  <2>. QED BY <1>1, <1>2, <1>4, <2>1, <2>2, <2>4, PayStep DEF Phases
<1>. QED BY <1>1, <1>3, <1>4 DEF A!ChargeKey

\* Cleanups, and what happens to nobody in particular.
LEMMA IdleStep ==
  ASSUME A!AdmissionAssumption, AdmissionInv, UNCHANGED <<requests, children>>, AdmissionTyped', minute <= minute',
         TablesKept, \A s \in Asking : IndexKept(s)
  PROVE  AdmissionInv'
<1>1. KeepsPaid
  BY DEF KeepsPaid
<1>2. minute' \in A!Minutes
  BY DEF AdmissionTyped
<1>3. \A s \in Asking : RequestAt(s)'
  BY <1>2, OthersStay
<1>4. (\A m \in A!Minutes : MinuteKept(m)') /\ \A d \in A!Days : DayKept(d)'
  BY <1>1, QuietCounts
<1>. QED BY <1>3, <1>4 DEF AdmissionInv

LEMMA UntouchedTables ==
  ASSUME A!AdmissionAssumption, AdmissionInv, UNCHANGED <<adm, bud>>, minute' \in A!Minutes, minute <= minute'
  PROVE  TablesKept
<1>1. /\ A!LiveMinutes' \subseteq A!LiveMinutes /\ A!LiveDays' \subseteq A!LiveDays
      /\ A!LiveMinutes \subseteq A!Minutes /\ A!LiveDays \subseteq A!Days
  BY LiveShrinks DEF A!LiveMinutes, A!LiveDays, AdmissionInv
<1>2. ASSUME NEW m \in A!LiveMinutes', NEW ip \in Ips
      PROVE  bud.ips[m][ip] \in Nat
  BY <1>1 DEF AdmissionInv, AdmissionTyped
<1>3. ASSUME NEW d \in A!LiveDays'
      PROVE  bud.transactions[d] \in Nat /\ bud.calls[d] \in Nat /\ bud.keys[d] \in Nat
  BY <1>1 DEF AdmissionInv, AdmissionTyped
<1>. QED BY <1>2, <1>3 DEF TablesKept

LEMMA CleanStep ==
  ASSUME A!AdmissionAssumption, AdmissionInv, NEW o \in A!Objects, A!Alarm(o)
  PROVE  AdmissionInv'
<1>1. /\ UNCHANGED <<requests, children, minute>> /\ adm' \in {adm, A!SweptRequests} /\ bud' \in {bud, A!SweptBudget}
      /\ idx' \in {idx, A!Kept(idx, A!Listed, None)} /\ minute \in Nat /\ AdmissionTyped
  BY TimeFacts DEF A!Alarm, AdmissionInv, AdmissionTyped
<1>2. TablesKept
  BY <1>1, SweptKept
<1>3. \A s \in Asking : IndexKept(s)
  BY <1>1, SweptIndex DEF IndexKept
<1>4. idx' \in [Asking -> Nat \cup {None}]
  <2>1. CASE Asking = {}
    BY <1>1, <2>1 DEF AdmissionTyped, A!Kept
  <2>2. CASE Asking # {}
    BY <1>1, <2>2, SweptIndex DEF AdmissionTyped
  <2>. QED BY <2>1, <2>2
<1>5. AdmissionTyped'
  BY <1>1, <1>4, SweptKept DEF AdmissionTyped
<1>. QED BY <1>1, <1>2, <1>3, <1>5, IdleStep

LEMMA OutsideStep ==
  ASSUME A!AdmissionAssumption, AdmissionInv, UNCHANGED <<adm, bud, idx, children, requests>>,
         minute' = minute \/ A!Tick
  PROVE  AdmissionInv'
<1>1. minute' \in A!Minutes /\ minute <= minute' /\ AdmissionTyped
  <2>1. AdmissionTyped /\ minute \in 0 .. MaxMinute /\ MaxMinute \in Nat
    BY DEF AdmissionInv, AdmissionTyped, A!Minutes, A!AdmissionAssumption
  <2>2. minute' = minute \/ (minute < MaxMinute /\ minute' = minute + 1)
    BY DEF A!Tick
  <2>. QED BY <2>1, <2>2 DEF A!Minutes
<1>2. AdmissionTyped'
  BY <1>1 DEF AdmissionTyped
<1>3. \A s \in Asking : IndexKept(s)
  BY DEF IndexKept
<1>. QED BY <1>1, <1>2, <1>3, UntouchedTables, IdleStep

LEMMA RestartAdmissionStep ==
  ASSUME A!AdmissionAssumption, AdmissionInv, NEW o \in A!Objects, A!Restart(o)
  PROVE  AdmissionInv'
<1>1. UNCHANGED <<adm, bud, idx, children, minute>>
  BY DEF A!Restart
<1>2. CASE objects[o] \in Asking /\ A!Answer(objects[o], "unavailable")
  BY <1>1, <1>2, Ends DEF Answers
<1>3. CASE UNCHANGED requests
  BY <1>1, <1>3, OutsideStep
<1>. QED BY <1>2, <1>3 DEF A!Restart

LEMMA AdmissionStep ==
  ASSUME A!AdmissionAssumption, AdmissionInv, [A!Next]_(A!vars)
  PROVE  AdmissionInv'
<1>1. ASSUME NEW r \in Asking, A!Ask(r)
      PROVE  AdmissionInv'
  BY <1>1, AskStep
<1>2. ASSUME NEW r \in Asking,
             A!EnterAdmission(r) \/ A!Dispatch(r) \/ A!EnterIndex(r) \/ A!CallChild(r) \/ A!EnterBudget(r)
      PROVE  AdmissionInv'
  BY <1>2, EnterStep
<1>3. ASSUME NEW r \in Asking, A!Admit(r) \/ A!Index(r) \/ A!Create(r)
      PROVE  AdmissionInv'
  BY <1>3, AdmitStep, IndexStep, CreateStep
<1>4. ASSUME NEW r \in Asking, A!Created(r) \/ A!Lookup(r) \/ A!Forward(r) \/ A!Fail(r)
      PROVE  AdmissionInv'
  BY <1>4, EndStep
<1>5. ASSUME NEW r \in Asking, A!ChargeTransaction(r) \/ A!ChargeCall(r) \/ A!ChargeKey(r)
      PROVE  AdmissionInv'
  BY <1>5, ChargeTransactionStep, ChargeCallStep, ChargeKeyStep
<1>6. ASSUME NEW o \in A!Objects, A!Alarm(o) \/ A!Restart(o)
      PROVE  AdmissionInv'
  BY <1>6, CleanStep, RestartAdmissionStep
<1>7. ASSUME NEW o \in A!Objects, A!Rearmed(o)
      PROVE  AdmissionInv'
  BY <1>7, OutsideStep DEF A!Rearmed
<1>8. CASE A!Disable \/ A!Tick \/ UNCHANGED A!vars
  BY <1>8, OutsideStep DEF A!Disable, A!Tick, A!vars
<1>. QED BY <1>1, <1>2, <1>3, <1>4, <1>5, <1>6, <1>7, <1>8 DEF A!Next

LEMMA AdmissionHolds ==
  ASSUME A!AdmissionAssumption
  PROVE  A!Spec => []AdmissionInv
<1>1. A!Init => AdmissionInv
  BY AdmissionStart
<1>2. AdmissionInv /\ [A!Next]_(A!vars) => AdmissionInv'
  BY AdmissionStep
<1>. QED BY <1>1, <1>2, PTL DEF A!Spec

LEMMA AdmissionCard ==
  ASSUME NEW S
  PROVE  A!Cardinality(S) = Cardinality(S)
BY DEF A!Cardinality, Cardinality

\* Those who paid, and what was counted of them.
LEMMA PayersCounted ==
  ASSUME AdmissionInv, NEW what, NEW S
  PROVE  /\ A!Payers(what, S) = Paying(what, S, Asks)
         /\ A!Ending(A!Payers(what, S)) = Paying(what, S, EndAsks)
         /\ A!Payers(what, S) \ A!Ending(A!Payers(what, S)) = Paying(what, S, Regular)
         /\ \A ip : {r \in A!Payers(what, S) : requests[r].ask.ip = ip} = Paying(what, S, OfIp(ip))
         /\ \A ip, lane : {r \in A!Payers(what, S) : requests[r].ask.ip = ip /\ A!LaneOf(requests[r].ask) = lane}
                            = Paying(what, S, OfLane(ip, lane))
         /\ \A ip : {r \in A!Ending(A!Payers(what, S)) : requests[r].ask.ip = ip}
                      = Paying(what, S, OfLane(ip, "terminal"))
<1>1. \A r \in Asking : requests[r].paid # {} => requests[r].ask \in Asks
  BY DEF AdmissionInv, RequestAt
<1>. QED BY <1>1 DEF A!Payers, A!Ending, Paying, EndAsks, Regular, OfIp, OfLane

\* What exists was paid for, and however cleanups, restarts and ends of minutes
\* come between, no limit of a minute, a day or an identity is exceeded
\* (request-admission.ts, allocation-budget.ts, allocation-index.ts).
THEOREM RequestsStayWithinMeans ==
  ASSUME A!AdmissionAssumption
  PROVE  A!Spec => []WithinMeans
<1>1. AdmissionInv => WithinMeans
  <2>. SUFFICES ASSUME AdmissionInv
                PROVE  A!WithinLimits /\ A!Provisioned
    BY DEF WithinMeans, A!WithinMeans
  <2>1. ASSUME NEW m \in A!Minutes
        PROVE  LET all == A!Payers("request", {m})
               IN /\ A!Cardinality(all) <= TotalMinute /\ A!Cardinality(all \ A!Ending(all)) <= RegularMinute
                  /\ \A ip \in Ips, lane \in A!Lanes :
                       A!Cardinality({r \in all : requests[r].ask.ip = ip /\ A!LaneOf(requests[r].ask) = lane})
                         <= LaneLimit[lane]
                  /\ \A ip \in Ips :
                       A!Cardinality({r \in A!Payers("transaction", {m}) : requests[r].ask.ip = ip}) <= PerIdentity
    <3>1. MinuteKept(m)
      BY DEF AdmissionInv
    <3>. DEFINE all == A!Payers("request", {m})
    <3>2. A!Cardinality(all) <= TotalMinute /\ A!Cardinality(all \ A!Ending(all)) <= RegularMinute
      BY <3>1, PayersCounted, AdmissionCard DEF MinuteKept, N
    <3>3. ASSUME NEW ip \in Ips, NEW lane \in A!Lanes
          PROVE  A!Cardinality({r \in all : requests[r].ask.ip = ip /\ A!LaneOf(requests[r].ask) = lane})
                   <= LaneLimit[lane]
      <4>1. {r \in all : requests[r].ask.ip = ip /\ A!LaneOf(requests[r].ask) = lane}
              = Paying("request", {m}, OfLane(ip, lane))
        BY PayersCounted
      <4>. HIDE DEF all
      <4>. QED BY <3>1, <4>1, AdmissionCard DEF MinuteKept, N
    <3>4. ASSUME NEW ip \in Ips
          PROVE  A!Cardinality({r \in A!Payers("transaction", {m}) : requests[r].ask.ip = ip}) <= PerIdentity
      <4>1. {r \in A!Payers("transaction", {m}) : requests[r].ask.ip = ip} = Paying("transaction", {m}, OfIp(ip))
        BY PayersCounted
      <4>. QED BY <3>1, <4>1, AdmissionCard DEF MinuteKept, N
    <3>. QED BY <3>2, <3>3, <3>4
  <2>2. ASSUME NEW d \in A!Days
        PROVE  LET all == A!Payers("request", A!MinutesOf(d))
               IN /\ A!Cardinality(all) <= TotalDay /\ A!Cardinality(all \ A!Ending(all)) <= RegularDay
                  /\ A!Cardinality(A!Payers("transaction", A!MinutesOf(d))) <= TransactionLimit
                  /\ A!Cardinality(A!Payers("call", A!MinutesOf(d))) <= CallLimit
                  /\ A!Cardinality(A!Payers("key", A!MinutesOf(d))) <= KeyLimit
    <3>1. DayKept(d)
      BY DEF AdmissionInv
    <3>. QED BY <3>1, PayersCounted, AdmissionCard DEF DayKept, N
  <2>3. ASSUME NEW r \in Asking, children[r] # None
        PROVE  {"request", "transaction"} \subseteq requests[r].paid /\ (minute < children[r] + 2 => r \in A!Listed)
    <3>1. /\ RequestAt(r) /\ minute \in Nat /\ requests[r].minute \in Nat /\ None \notin Nat
      BY TimeFacts DEF AdmissionInv, AdmissionTyped, Request, A!AdmissionAssumption
    <3>. QED BY <2>3, <3>1 DEF RequestAt, A!Listed
  <2>4. ASSUME NEW r \in Asking, requests[r].answer = "forwarded"
        PROVE  /\ {"request", "call"} \subseteq requests[r].paid
               /\ requests[r].ask.kind = "register" => "key" \in requests[r].paid
    BY <2>4 DEF AdmissionInv, RequestAt
  <2>5. A!WithinLimits
    BY <2>1, <2>2 DEF A!WithinLimits
  <2>6. A!Provisioned
    BY <2>3, <2>4 DEF A!Provisioned
  <2>. QED BY <2>5, <2>6
<1>. QED BY <1>1, AdmissionHolds, PTL

\* Whoever is turned away with a request that ends a transaction meets limits
\* that such requests, or its own identity, or all identities have used.
LEMMA ReserveStep ==
  ASSUME A!AdmissionAssumption, AdmissionInv, [A!Next]_(A!vars), NEW r \in Asking,
         requests[r].pc = "admitting", requests'[r].answer = "rate_limited",
         A!LaneOf(requests[r].ask) = "terminal"
  PROVE  \/ A!Cardinality(A!Ending(A!Payers("request", A!MinutesOf(A!Day(minute))))) >= TotalDay - RegularDay
         \/ A!Cardinality(A!Ending(A!Payers("request", {minute}))) >= TotalMinute - RegularMinute
         \/ A!Cardinality({s \in A!Ending(A!Payers("request", {minute})) : requests[s].ask.ip = requests[r].ask.ip})
              >= LaneLimit["terminal"]
         \/ A!Cardinality(A!Known(A!SweptRequests)) >= Identities
<1>. DEFINE t == A!SweptRequests
            ip == requests[r].ask.ip
            D == A!Day(minute)
<1>1. /\ AdmissionTyped /\ requests[r].answer = None /\ ip \in Ips /\ None # "rate_limited"
  BY DEF AdmissionInv, RequestAt, Asks, A!AdmissionAssumption
<1>2. A!Admit(r)
  <2>1. ASSUME NEW s \in Asking, A!Ask(s) \/ A!EnterAdmission(s) \/ A!Dispatch(s) \/ A!EnterIndex(s)
                 \/ A!CallChild(s) \/ A!Create(s) \/ A!EnterBudget(s)
        PROVE  requests'[r].answer = requests[r].answer
    BY <1>1, <2>1 DEF A!Ask, A!EnterAdmission, A!Dispatch, A!EnterIndex, A!CallChild, A!Create, A!EnterBudget,
       A!Step, AdmissionTyped, Request
  <2>2. ASSUME NEW s \in Asking, A!Admit(s) \/ A!Index(s) \/ A!ChargeTransaction(s) \/ A!ChargeCall(s) \/ A!ChargeKey(s),
               s # r
        PROVE  requests'[r].answer = requests[r].answer
    BY <1>1, <2>2 DEF A!Admit, A!Index, A!ChargeTransaction, A!ChargeCall, A!ChargeKey, A!Step, A!Paid, A!Answer,
       AdmissionTyped, Request
  <2>3. ASSUME NEW s \in Asking, A!Created(s) \/ A!Lookup(s) \/ A!Forward(s) \/ A!Fail(s)
        PROVE  requests'[r].answer # "rate_limited"
    <3>1. PICK what \in {"created", "routed", "invalid", "expired", "unavailable", "forwarded"} : A!Answer(s, what)
      BY <2>3 DEF A!Created, A!Lookup, A!Forward, A!Fail
    <3>2. requests \in [Asking -> Request]
      BY <1>1 DEF AdmissionTyped
    <3>3. requests'[r].answer \in {requests[r].answer, what}
      BY <3>1, <3>2 DEF A!Answer, Request
    <3>. QED BY <1>1, <3>1, <3>3
  <2>4. ASSUME NEW o \in A!Objects, A!Alarm(o) \/ A!Rearmed(o) \/ A!Restart(o)
        PROVE  requests'[r].answer # "rate_limited"
    <3>1. CASE UNCHANGED requests
      BY <1>1, <3>1
    <3>2. CASE A!Answer(objects[o], "unavailable") /\ objects[o] \in Asking
      BY <1>1, <3>2 DEF A!Answer, AdmissionTyped, Request
    <3>. QED BY <2>4, <3>1, <3>2 DEF A!Alarm, A!Rearmed, A!Restart
  <2>5. CASE A!Disable \/ A!Tick \/ UNCHANGED A!vars
    BY <1>1, <2>5 DEF A!Disable, A!Tick, A!vars
  <2>6. ~A!Index(r) /\ ~A!ChargeTransaction(r) /\ ~A!ChargeCall(r) /\ ~A!ChargeKey(r)
    BY DEF A!Index, A!ChargeTransaction, A!ChargeCall, A!ChargeKey
  <2>. QED BY <1>1, <2>1, <2>2, <2>3, <2>4, <2>5, <2>6 DEF A!Next
<1>3. A!IsDenied(t, minute, ip, "terminal")
  <2>1. CASE A!Paid(r, "request", "admitted")
    BY <1>1, <2>1 DEF A!Paid, AdmissionTyped, Request
  <2>. QED BY <1>2, <2>1 DEF A!Admit
<1>4. /\ minute \in A!LiveMinutes /\ D \in A!LiveDays /\ minute \in A!Minutes /\ D \in A!Days
      /\ "terminal" \in A!Lanes /\ "poll" \in A!Lanes /\ "create" \in A!Lanes /\ "native" \in A!Lanes
  BY <1>1, TimeFacts DEF AdmissionTyped, A!Lanes
<1>5. /\ t.minutes[minute] = adm.minutes[minute] /\ t.days[D] = adm.days[D] /\ t.ips[minute] = adm.ips[minute]
  BY <1>1, <1>4, SweptRequestsFacts
<1>6. MinuteKept(minute) /\ DayKept(D)
  BY <1>4 DEF AdmissionInv
<1>. HIDE DEF t, ip, D
<1>7. CASE t.days[D] >= TotalDay
  <2>1. /\ adm.days[D] = N("request", A!MinutesOf(D), Asks) /\ adm.endDays[D] = N("request", A!MinutesOf(D), EndAsks)
        /\ adm.days[D] - adm.endDays[D] = N("request", A!MinutesOf(D), Regular)
        /\ N("request", A!MinutesOf(D), Regular) <= RegularDay
    BY <1>4, <1>6 DEF DayKept
  <2>2. /\ adm.days[D] \in Nat /\ adm.endDays[D] \in Nat /\ TotalDay \in Nat /\ RegularDay \in Nat
    BY <1>1, <1>4 DEF AdmissionTyped, A!AdmissionAssumption
  <2>3. N("request", A!MinutesOf(D), EndAsks) >= TotalDay - RegularDay
    BY <1>5, <1>7, <2>1, <2>2
  <2>. QED BY <2>3, PayersCounted, AdmissionCard DEF N, D
<1>8. CASE t.minutes[minute] >= TotalMinute
  <2>1. /\ adm.minutes[minute] = N("request", {minute}, Asks) /\ adm.endMinutes[minute] = N("request", {minute}, EndAsks)
        /\ adm.minutes[minute] - adm.endMinutes[minute] = N("request", {minute}, Regular)
        /\ N("request", {minute}, Regular) <= RegularMinute
    BY <1>4, <1>6 DEF MinuteKept
  <2>2. /\ adm.minutes[minute] \in Nat /\ adm.endMinutes[minute] \in Nat /\ TotalMinute \in Nat /\ RegularMinute \in Nat
    BY <1>1, <1>4 DEF AdmissionTyped, A!AdmissionAssumption
  <2>3. N("request", {minute}, EndAsks) >= TotalMinute - RegularMinute
    BY <1>5, <1>8, <2>1, <2>2
  <2>. QED BY <2>3, PayersCounted, AdmissionCard DEF N
<1>9. CASE t.ips[minute][ip]["terminal"] >= LaneLimit["terminal"] \/ A!TotalOf(t.ips[minute][ip]) >= IdentityLimit
  <2>1. \A lane \in A!Lanes : /\ adm.ips[minute][ip][lane] = N("request", {minute}, OfLane(ip, lane))
                              /\ N("request", {minute}, OfLane(ip, lane)) <= LaneLimit[lane]
                              /\ adm.ips[minute][ip][lane] \in Nat /\ LaneLimit[lane] \in Nat
    <3>1. LaneLimit \in [A!Lanes -> Nat]
      BY DEF A!AdmissionAssumption
    <3>2. adm.ips[minute][ip] \in [A!Lanes -> Nat] /\ ip \in Ips
      BY <1>1, <1>4 DEF AdmissionTyped, ip
    <3>. QED BY <1>4, <1>6, <3>1, <3>2 DEF MinuteKept
  <2>2. adm.ips[minute][ip]["terminal"] >= LaneLimit["terminal"]
    <3>1. CASE A!TotalOf(t.ips[minute][ip]) >= IdentityLimit
      <4>1. adm.ips[minute][ip]["poll"] + adm.ips[minute][ip]["create"] + adm.ips[minute][ip]["native"]
              + adm.ips[minute][ip]["terminal"] >= IdentityLimit
        BY <1>5, <3>1 DEF A!TotalOf
      <4>2. /\ IdentityLimit \in Nat
            /\ LaneLimit["poll"] + LaneLimit["create"] + LaneLimit["native"] + LaneLimit["terminal"] <= IdentityLimit
        BY DEF A!AdmissionAssumption
      <4>3. \A lane \in A!Lanes : /\ adm.ips[minute][ip][lane] <= LaneLimit[lane]
                                  /\ adm.ips[minute][ip][lane] \in Nat /\ LaneLimit[lane] \in Nat
        BY <2>1
      <4>. QED BY <1>4, <4>1, <4>2, <4>3
    <3>. QED BY <1>5, <1>9, <3>1
  <2>3. N("request", {minute}, OfLane(ip, "terminal")) >= LaneLimit["terminal"]
    BY <1>4, <2>1, <2>2
  <2>4. {s \in A!Ending(A!Payers("request", {minute})) : requests[s].ask.ip = ip}
          = Paying("request", {minute}, OfLane(ip, "terminal"))
    BY PayersCounted
  <2>5. A!Cardinality({s \in A!Ending(A!Payers("request", {minute})) : requests[s].ask.ip = ip})
          >= LaneLimit["terminal"]
    BY <2>3, <2>4, AdmissionCard DEF N
  <2>. QED BY <2>5 DEF ip
<1>10. CASE A!Cardinality(A!Known(t)) >= Identities
  BY <1>10 DEF t
<1>11. \/ t.days[D] >= TotalDay \/ t.minutes[minute] >= TotalMinute
       \/ t.ips[minute][ip]["terminal"] >= LaneLimit["terminal"] \/ A!TotalOf(t.ips[minute][ip]) >= IdentityLimit
       \/ A!Cardinality(A!Known(t)) >= Identities
  BY <1>3 DEF A!IsDenied, D
<1>. QED BY <1>7, <1>8, <1>9, <1>10, <1>11

\* The reserve of the limits is for requests that end a transaction
\* (request-admission.ts).
THEOREM EndsKeepTheirReserve ==
  ASSUME A!AdmissionAssumption
  PROVE  A!Spec => EndsHaveReserve
<1>. DEFINE Reserved ==
       \A r \in Asking :
         /\ requests[r].pc = "admitting" /\ requests'[r].answer = "rate_limited" /\ A!LaneOf(requests[r].ask) = "terminal"
         => \/ A!Cardinality(A!Ending(A!Payers("request", A!MinutesOf(A!Day(minute))))) >= TotalDay - RegularDay
            \/ A!Cardinality(A!Ending(A!Payers("request", {minute}))) >= TotalMinute - RegularMinute
            \/ A!Cardinality({s \in A!Ending(A!Payers("request", {minute})) : requests[s].ask.ip = requests[r].ask.ip})
                 >= LaneLimit["terminal"]
            \/ A!Cardinality(A!Known(A!SweptRequests)) >= Identities
<1>1. AdmissionInv /\ [A!Next]_(A!vars) => [Reserved]_(A!vars)
  BY ReserveStep
<1>. QED BY <1>1, AdmissionHolds, PTL DEF A!Spec, EndsHaveReserve, A!EndsHaveReserve

(***************************************************************************)
(* Transactions and keys.                                                  *)
(***************************************************************************)
USE NoneAssumption, ParameterAssumption

Under == {"authorize", "verify", "reply", "granted", "accepted"}

\* A call has the fields of its kind; what it was granted the key admitted.
Shape(c) ==
  LET q == calls[c]
      grant == ops[q.challenge]
  IN /\ q.pc \in Under =>
          /\ q.key \in Keys /\ q.challenge \in Challenges /\ q.counter \in Counters
          /\ ActionOf[c] = "submit" => q.tx \in Transactions /\ q.envelope \in Envelopes
     /\ q.pc \in {"granted", "accepted"} => ActionOf[c] = "submit"
     /\ q.pc = "granted" =>
          /\ grant.admitted # None /\ grant.action = "submit"
          /\ grant.key = q.key /\ grant.counter = q.counter

\* An operation is admitted once, by a key that was born before and had not
\* ended; a grant of a submission lasts no longer than its lease.
Drawn(ch) ==
  LET op == ops[ch]
  IN /\ op.status \in {"reserved", "challenge"} => op.key \in Keys
     /\ op.status \in {"unused", "reserved", "challenge"} => op.admitted = None
     /\ op.status = "authorized" => op.admitted # None
     /\ op.admitted # None =>
          /\ op.key \in Keys /\ op.admitted <= now
          /\ op.action = "submit" => op.until <= op.admitted + Lease
          /\ keys[op.key] = None => op.born < now
          /\ keys[op.key] # None => op.born <= keys[op.key].created
          /\ ended[op.key] # None => op.admitted <= ended[op.key]

\* A key that ended is not active again before it is enrolled anew.
Living(k) ==
  /\ keys[k] # None => keys[k].created <= now /\ keys[k].created < keys[k].expires
  /\ ended[k] # None => ended[k] <= now /\ (keys[k] # None => keys[k].status = "revoked")

\* The grant under which a transaction accepted.
Covered(t) ==
  LET body == accepted[t].body
      grant == ops[body.challenge]
  IN /\ accepted[t].at <= now
     /\ grant.envelope = body.envelope /\ grant.tx = t /\ grant.key = body.key
     /\ grant.counter = body.counter /\ grant.admitted # None /\ grant.admitted <= accepted[t].at

\* The row of a transaction and its history tell the same.
Outcome(t) ==
  /\ tx[t] = None =>
       now >= Deadline[t] \/ (accepted[t] = None /\ delivered[t] = <<>> /\ ~stopped[t])
  /\ tx[t] # None =>
       /\ accepted[t] = None => tx[t].body = None
       /\ accepted[t] # None => tx[t].body = accepted[t].body
       /\ tx[t].state = "pending" => accepted[t] = None
       /\ tx[t].state = "ready" => accepted[t] # None /\ tx[t].envelope = accepted[t].body.envelope
       /\ tx[t].state # "cancelled" => ~stopped[t]
       /\ tx[t].state # "consumed" => delivered[t] = <<>>
  /\ delivered[t] # <<>> =>
       accepted[t] # None /\ ~stopped[t] /\ delivered[t] = <<accepted[t].body.envelope>>
  /\ accepted[t] # None => Covered(t)

Shapes == \A c \in Calls : Shape(c)
Draws == \A ch \in Challenges : Drawn(ch)
Lives == \A k \in Keys : Living(k)
Outcomes == \A t \in Transactions : Outcome(t)

\* The inductive invariant: of the keys, and of what the transactions do with
\* their grants.
KeyInv == Draws /\ Lives /\ CounterOnce
IInv == TypeOK /\ Shapes /\ KeyInv /\ Outcomes /\ OneWinner /\ LeaseBounded

-----------------------------------------------------------------------------
\* The operations of a key after a sweep.
Same(p, q) ==
  /\ q.action = p.action /\ q.key = p.key /\ q.tx = p.tx /\ q.envelope = p.envelope
  /\ q.expires = p.expires /\ q.counter = p.counter /\ q.born = p.born
  /\ q.admitted = p.admitted /\ q.until = p.until
Erases(p, q) ==
  Same(p, q) /\ (q.status = p.status \/ (p.status \in {"challenge", "authorized"} /\ q.status = "erased"))

LEMMA WithoutFacts ==
  ASSUME TypeOK, NEW k, NEW gone
  PROVE  /\ Without(k, gone) \in [Challenges -> Operation]
         /\ \A ch \in Challenges : Erases(ops[ch], Without(k, gone)[ch])
<1>1. ASSUME NEW ch \in Challenges
      PROVE  Without(k, gone)[ch] \in Operation /\ Erases(ops[ch], Without(k, gone)[ch])
  <2> DEFINE p == ops[ch]
             q == [p EXCEPT !.status = "erased"]
  <2>1. p \in Operation
    BY DEF TypeOK
  <2>2. q \in Operation /\ Same(p, q) /\ q.status = "erased"
    BY <2>1 DEF Operation, Same
  <2>3. Without(k, gone)[ch] = IF IsStored(ch) /\ p.key = k /\ ch \in gone THEN q ELSE p
    BY DEF Without
  <2>4. IsStored(ch) => p.status \in {"challenge", "authorized"}
    BY DEF IsStored
  <2>5. Same(p, p)
    BY DEF Same
  <2> HIDE DEF p, q
  <2> QED BY <2>1, <2>2, <2>3, <2>4, <2>5 DEF Erases, p
<1>2. Without(k, gone) = [ch \in Challenges |-> Without(k, gone)[ch]]
  BY DEF Without
<1> QED BY <1>1, <1>2

LEMMA SweptFacts ==
  ASSUME TypeOK, NEW k
  PROVE  /\ Swept(k) \in [Challenges -> Operation]
         /\ \A ch \in Challenges : Erases(ops[ch], Swept(k)[ch])
BY WithoutFacts DEF Swept

LEMMA SmallestFacts ==
  ASSUME NEW a \in Nat, NEW b \in Nat
  PROVE  Smallest({a, b}) \in Nat /\ Smallest({a, b}) <= a /\ Smallest({a, b}) <= b
<1>1. \E x \in {a, b} : \A y \in {a, b} : x <= y
  BY SMT
<1> QED BY <1>1 DEF Smallest

LEMMA ExpiredFacts ==
  ASSUME TypeOK, NEW k \in Keys
  PROVE  /\ keys[k] = None => ExpiredRow(k) = None
         /\ keys[k] # None =>
              /\ ExpiredRow(k) \in Key
              /\ ExpiredRow(k).created = keys[k].created /\ ExpiredRow(k).expires = keys[k].expires
              /\ ExpiredRow(k).counter = keys[k].counter
              /\ ExpiredRow(k).status = "active" => keys[k].status = "active"
              /\ keys[k].status = "revoked" => ExpiredRow(k).status = "revoked"
<1>1. keys[k] \in Key \cup {None}
  BY DEF TypeOK
<1>2. ASSUME keys[k] # None
      PROVE  LET r == [keys[k] EXCEPT !.status = "revoked"]
             IN /\ r \in Key /\ r.created = keys[k].created /\ r.expires = keys[k].expires
                /\ r.counter = keys[k].counter /\ r.status = "revoked"
  BY <1>1, <1>2 DEF Key
<1> QED BY <1>1, <1>2 DEF ExpiredRow, Revoked

\* The operation as a commit writes it.
LEMMA AuthorizedFacts ==
  ASSUME TypeOK, NEW c \in Calls, Shape(c), calls[c].pc = "verify", IsUnchanged(c)
  PROVE  LET op == ops[calls[c].challenge]
             new == Authorized(c)
         IN /\ op.status = "challenge" /\ op.key = calls[c].key /\ op.action = ActionOf[c]
            /\ new \in Operation /\ new.status = "authorized"
            /\ new.action = op.action /\ new.key = op.key /\ new.tx = op.tx
            /\ new.envelope = op.envelope /\ new.counter = calls[c].counter
            /\ new.born = keys[calls[c].key].created /\ new.admitted = now
            /\ ActionOf[c] = "submit" => new.until <= now + Lease
<1> DEFINE op == ops[calls[c].challenge]
           row == keys[calls[c].key]
           expires == Smallest({op.expires, row.expires})
           until == IF ActionOf[c] = "submit" THEN Smallest({now + Lease, expires}) ELSE expires
           new == [op EXCEPT !.status = "authorized", !.counter = calls[c].counter,
                             !.born = row.created, !.admitted = now, !.expires = expires, !.until = until]
<1>1. calls[c].key \in Keys /\ calls[c].challenge \in Challenges /\ calls[c].counter \in Nat /\ now \in Nat
  BY DEF Shape, Under, TypeOK, Counters
<1>2. op \in Operation /\ row \in Key
  BY <1>1 DEF TypeOK, IsUnchanged, IsUsable, IsActive
<1>3. op.status = "challenge" /\ op.key = calls[c].key /\ op.action = ActionOf[c]
  BY DEF IsUnchanged, IsUsable
<1>4. op.expires \in Nat /\ row.expires \in Nat /\ row.created \in Nat
  BY <1>2 DEF Operation, Key
<1>5. expires \in Nat
  BY <1>4, SmallestFacts
<1>6. now + Lease \in Nat
  BY <1>1
<1>7. until \in Nat /\ (ActionOf[c] = "submit" => until <= now + Lease)
  <2> HIDE DEF expires
  <2> QED BY <1>5, <1>6, SmallestFacts
<1>8. Authorized(c) = new
  BY DEF Authorized
<1> HIDE DEF op, row, expires, until
<1>9. /\ new \in Operation /\ new.status = "authorized"
      /\ new.action = op.action /\ new.key = op.key /\ new.tx = op.tx /\ new.envelope = op.envelope
      /\ new.counter = calls[c].counter /\ new.born = row.created /\ new.admitted = now
      /\ new.until = until
  BY <1>1, <1>2, <1>4, <1>5, <1>7 DEF Operation
<1> HIDE DEF new
<1> QED BY <1>3, <1>7, <1>8, <1>9 DEF op, row

-----------------------------------------------------------------------------
\* The turns of the keys and their operations.
Erasing == \A ch \in Challenges : Erases(ops[ch], ops'[ch])
ErasingBut(one) == \A ch \in Challenges \ {one} : Erases(ops[ch], ops'[ch])

Ages(k) ==
  /\ keys[k] = None => keys'[k] = None
  /\ keys[k] # None /\ keys'[k] # None =>
       /\ keys'[k].created = keys[k].created /\ keys'[k].expires = keys[k].expires
       /\ keys'[k].counter = keys[k].counter
       /\ keys[k].status = "revoked" => keys'[k].status = "revoked"
  /\ keys[k] # None /\ keys'[k] = None => keys[k].created < now
Aging == \A k \in Keys : Ages(k)

Quiet == Erasing /\ Aging /\ ended' = ended /\ now' = now
Ticks == ops' = ops /\ keys' = keys /\ ended' = ended /\ now' = now + 1
Draw(ch) ==
  /\ ops[ch].status \in {"unused", "reserved"} /\ ops'[ch].status \in {"reserved", "challenge"}
  /\ ops'[ch].admitted = None /\ ops'[ch].key \in Keys
  /\ ErasingBut(ch) /\ Aging /\ ended' = ended /\ now' = now
Admit(c) ==
  /\ calls[c].pc = "verify" /\ IsUnchanged(c) /\ ops'[calls[c].challenge] = Authorized(c)
  /\ ErasingBut(calls[c].challenge) /\ ended' = ended /\ now' = now
  /\ keys' = [keys EXCEPT ![calls[c].key].counter = calls[c].counter]
Finish(c) ==
  /\ calls[c].pc = "verify" /\ IsUnchanged(c) /\ Erasing /\ now' = now
  /\ keys' = [keys EXCEPT ![calls[c].key] = Revoked(keys[calls[c].key])]
  /\ ended' = [ended EXCEPT ![calls[c].key] = now]
Begin(k) ==
  /\ keys[k] = None /\ ops' = ops /\ now' = now /\ ended' = [ended EXCEPT ![k] = None]
  /\ keys' = [keys EXCEPT ![k] =
       [status |-> "active", created |-> now, expires |-> now + KeyLife, counter |-> 0]]

KeyTurn ==
  \/ Quiet \/ Ticks
  \/ \E ch \in Challenges : Draw(ch)
  \/ \E c \in Calls : Admit(c) \/ Finish(c)
  \/ \E k \in Keys : Begin(k)

LEMMA Still ==
  ASSUME TypeOK
  PROVE  /\ ops' = ops => Erasing
         /\ keys' = keys => Aging
<1>1. \A ch : Erases(ops[ch], ops[ch])
  BY DEF Erases, Same
<1> QED BY <1>1 DEF Erasing, Aging, Ages

LEMMA SweptErases ==
  ASSUME TypeOK, NEW k
  PROVE  /\ ops' = Swept(k) => Erasing
         /\ \A ch \in Challenges : \A new : ops' = [Swept(k) EXCEPT ![ch] = new] => ErasingBut(ch) /\ ops'[ch] = new
<1>1. Swept(k) \in [Challenges -> Operation] /\ \A ch \in Challenges : Erases(ops[ch], Swept(k)[ch])
  BY SweptFacts
<1> HIDE DEF Erases
<1> QED BY <1>1 DEF Erasing, ErasingBut

LEMMA ExpiredAges ==
  ASSUME TypeOK, NEW k \in Keys, keys' = [keys EXCEPT ![k] = ExpiredRow(k)]
  PROVE  Aging
<1>1. /\ keys[k] = None => ExpiredRow(k) = None
      /\ keys[k] # None =>
           /\ ExpiredRow(k) \in Key
           /\ ExpiredRow(k).created = keys[k].created /\ ExpiredRow(k).expires = keys[k].expires
           /\ ExpiredRow(k).counter = keys[k].counter
           /\ keys[k].status = "revoked" => ExpiredRow(k).status = "revoked"
  BY ExpiredFacts
<1>2. keys \in [Keys -> Key \cup {None}]
  BY DEF TypeOK
<1> SUFFICES ASSUME NEW j \in Keys PROVE Ages(j)
  BY DEF Aging
<1>3. CASE j = k
  <2>1. keys'[j] = ExpiredRow(k)
    BY <1>2, <1>3
  <2>2. None \notin Key
    OBVIOUS
  <2> QED BY <1>1, <1>3, <2>1, <2>2 DEF Ages
<1>4. CASE j # k
  <2>1. keys'[j] = keys[j]
    BY <1>2, <1>4
  <2> QED BY <2>1 DEF Ages
<1> QED BY <1>3, <1>4

LEMMA Turn ==
  ASSUME TypeOK, Shapes, Draws, Lives, [Next]_vars
  PROVE  KeyTurn
<1> DEFINE Rest == UNCHANGED <<ops, keys, ended, now>>
<1>0. ASSUME Rest PROVE KeyTurn
  <2>1. Erasing /\ Aging
    BY <1>0, Still
  <2> QED BY <1>0, <2>1 DEF KeyTurn, Quiet
<1>1. ASSUME NEW t \in Transactions, Create(t) \/ Consume(t) \/ Cancel(t) \/ Erase(t) PROVE Rest
  BY <1>1 DEF Create, Consume, Cancel, Erase, histories
<1>2. ASSUME NEW k \in Keys, Enroll(k) PROVE KeyTurn
  BY <1>2 DEF Enroll, KeyTurn, Begin
<1>3. ASSUME NEW k \in Keys, SweepKey(k) PROVE Quiet
  <2> DEFINE row == ExpiredRow(k)
             purged == row # None /\ row.status = "revoked" /\ now >= row.expires + ChallengeLife
  <2>1. /\ keys' = [keys EXCEPT ![k] = IF purged THEN None ELSE row]
        /\ ops' = Swept(k) /\ ended' = ended /\ now' = now
    BY <1>3 DEF SweepKey, histories
  <2>2. Erasing
    BY <2>1, SweptErases
  <2>3. CASE ~purged
    <3>1. keys' = [keys EXCEPT ![k] = ExpiredRow(k)]
      BY <2>1, <2>3
    <3> QED BY <2>1, <2>2, <3>1, ExpiredAges DEF Quiet
  <2>4. CASE purged
    <3>1. /\ keys[k] # None => row.expires = keys[k].expires
          /\ keys[k] = None => row = None
      BY ExpiredFacts
    <3>2. keys \in [Keys -> Key \cup {None}] /\ now \in Nat
      BY DEF TypeOK
    <3>3. keys[k] # None /\ keys[k] \in Key /\ keys[k].created < keys[k].expires
      BY <2>4, <3>1, <3>2 DEF Lives, Living
    <3>4. keys[k].created < now
      <4>1. keys[k].expires \in Nat /\ keys[k].created \in Nat
        BY <3>3 DEF Key
      <4>2. now >= keys[k].expires + ChallengeLife
        BY <2>4, <3>1, <3>3
      <4> HIDE DEF row
      <4> QED BY <3>2, <3>3, <4>1, <4>2
    <3>5. \A j \in Keys : keys'[j] = IF j = k THEN None ELSE keys[j]
      BY <2>1, <2>4, <3>2
    <3>6. Aging
      BY <3>3, <3>4, <3>5 DEF Aging, Ages
    <3> QED BY <2>1, <2>2, <3>6 DEF Quiet
  <2> QED BY <2>3, <2>4
<1>4. ASSUME NEW ch \in Challenges, Reserve(ch) PROVE KeyTurn
  <2>1. PICK t \in Transactions, k \in Keys, e \in Envelopes :
          ops' = [ops EXCEPT ![ch] =
            [status |-> "reserved", action |-> "submit", key |-> k, tx |-> t, envelope |-> e,
             expires |-> Deadline[t], counter |-> 0, born |-> 0, admitted |-> None, until |-> 0]]
    BY <1>4 DEF Reserve
  <2>2. ops \in [Challenges -> Operation] /\ keys' = keys /\ ended' = ended /\ now' = now
        /\ ops[ch].status = "unused"
    BY <1>4 DEF Reserve, TypeOK, histories
  <2>3. ops'[ch].status = "reserved" /\ ops'[ch].admitted = None /\ ops'[ch].key \in Keys
    BY <2>1, <2>2
  <2>4. ErasingBut(ch)
    BY <2>1, <2>2 DEF ErasingBut, Erases, Same
  <2> QED BY <2>2, <2>3, <2>4, Still DEF KeyTurn, Draw
<1>5. ASSUME NEW ch \in Challenges, IssueSubmit(ch) PROVE KeyTurn
  <2> DEFINE k == ops[ch].key
             new == [ops[ch] EXCEPT !.status = "challenge"]
  <2>1. /\ ops[ch].status = "reserved" /\ keys' = [keys EXCEPT ![k] = ExpiredRow(k)]
        /\ ops' = [Swept(k) EXCEPT ![ch] = new] /\ ended' = ended /\ now' = now
    BY <1>5 DEF IssueSubmit, histories
  <2>2. ops[ch] \in Operation /\ k \in Keys /\ ops[ch].admitted = None
    BY <2>1 DEF TypeOK, Draws, Drawn
  <2>3. new.status = "challenge" /\ new.admitted = None /\ new.key = k
    BY <2>2 DEF Operation
  <2>4. Aging
    BY <2>1, <2>2, ExpiredAges
  <2> HIDE DEF new
  <2>5. ErasingBut(ch) /\ ops'[ch] = new
    BY <2>1, SweptErases
  <2> QED BY <2>1, <2>2, <2>3, <2>4, <2>5 DEF KeyTurn, Draw
<1>6. ASSUME NEW ch \in Challenges, IssueOther(ch) PROVE KeyTurn
  <2>1. PICK k \in Keys, action \in Actions \ {"submit"} :
          /\ keys' = [keys EXCEPT ![k] = ExpiredRow(k)]
          /\ ops' = [Swept(k) EXCEPT ![ch] =
               [status |-> "challenge", action |-> action, key |-> k, tx |-> None,
                envelope |-> None, expires |-> now + ChallengeLife, counter |-> 0,
                born |-> 0, admitted |-> None, until |-> 0]]
    BY <1>6 DEF IssueOther
  <2> DEFINE new == [status |-> "challenge", action |-> action, key |-> k, tx |-> None,
                     envelope |-> None, expires |-> now + ChallengeLife, counter |-> 0,
                     born |-> 0, admitted |-> None, until |-> 0]
  <2>2. ops[ch].status = "unused" /\ ended' = ended /\ now' = now
    BY <1>6 DEF IssueOther, histories
  <2>3. new.status = "challenge" /\ new.admitted = None /\ new.key = k
    OBVIOUS
  <2>4. Aging
    BY <2>1, ExpiredAges
  <2>5. ops' = [Swept(k) EXCEPT ![ch] = new]
    BY <2>1
  <2> HIDE DEF new
  <2>6. ErasingBut(ch) /\ ops'[ch] = new
    BY <2>5, SweptErases
  <2> QED BY <2>2, <2>3, <2>4, <2>6 DEF KeyTurn, Draw
<1>7. ASSUME NEW c \in Calls, Submit(c) \/ Manage(c) \/ Refuse(c) \/ Restart(c) \/ Accept(c) PROVE Rest
  BY <1>7 DEF Submit, Manage, Refuse, Restart, Accept, histories
<1>8. ASSUME NEW c \in Calls, Authorize(c) \/ Reply(c) PROVE Quiet
  <2>1. ops' = Swept(calls[c].key) /\ keys' = keys /\ ended' = ended /\ now' = now
    BY <1>8 DEF Authorize, Reply, histories
  <2> QED BY <2>1, SweptErases, Still DEF Quiet
<1>9. ASSUME NEW c \in Calls, Commit(c) PROVE Admit(c)
  <2>1. /\ calls[c].pc = "verify" /\ IsUnchanged(c)
        /\ keys' = [keys EXCEPT ![calls[c].key].counter = calls[c].counter]
        /\ ops' = [Swept(calls[c].key) EXCEPT ![calls[c].challenge] = Authorized(c)]
        /\ ended' = ended /\ now' = now
    BY <1>9 DEF Commit, histories
  <2>2. calls[c].challenge \in Challenges
    BY <2>1 DEF Shapes, Shape, Under
  <2> QED BY <2>1, <2>2, SweptErases DEF Admit
<1>10. ASSUME NEW c \in Calls, Delete(c) PROVE Finish(c)
  <2>1. /\ calls[c].pc = "verify" /\ IsUnchanged(c)
        /\ keys' = [keys EXCEPT ![calls[c].key] = Revoked(keys[calls[c].key])]
        /\ ops' = Without(calls[c].key, Challenges)
        /\ ended' = [ended EXCEPT ![calls[c].key] = now] /\ now' = now
    BY <1>10 DEF Delete
  <2> QED BY <2>1, WithoutFacts DEF Finish, Erasing
<1>11. ASSUME Tick PROVE Ticks
  BY <1>11 DEF Tick, Ticks, histories
<1>12. ASSUME UNCHANGED vars PROVE Rest
  BY <1>12 DEF vars, histories
<1> HIDE DEF Rest
<1> QED
  BY <1>0, <1>1, <1>2, <1>3, <1>4, <1>5, <1>6, <1>7, <1>8, <1>9, <1>10, <1>11, <1>12 DEF Next, KeyTurn

-----------------------------------------------------------------------------
\* What was admitted stays as it was.
GrantsKept ==
  \A ch \in Challenges : ops[ch].admitted # None => Same(ops[ch], ops'[ch])

LEMMA TurnKeepsGrants ==
  ASSUME Draws, KeyTurn, Shapes
  PROVE  GrantsKept
<1> SUFFICES ASSUME NEW ch \in Challenges, ops[ch].admitted # None
             PROVE  Same(ops[ch], ops'[ch])
  BY DEF GrantsKept
<1>1. ops[ch].status \notin {"unused", "reserved", "challenge"}
  BY DEF Draws, Drawn
<1>2. ASSUME Erases(ops[ch], ops'[ch]) PROVE Same(ops[ch], ops'[ch])
  BY <1>2 DEF Erases
<1>3. CASE Quiet
  BY <1>2, <1>3 DEF Quiet, Erasing
<1>4. CASE Ticks
  BY <1>4 DEF Ticks, Same
<1>5. ASSUME NEW one \in Challenges, Draw(one) PROVE Same(ops[ch], ops'[ch])
  BY <1>1, <1>2, <1>5 DEF Draw, ErasingBut
<1>6. ASSUME NEW c \in Calls, Admit(c) PROVE Same(ops[ch], ops'[ch])
  <2>1. ops[calls[c].challenge].status = "challenge"
    BY <1>6 DEF Admit, IsUnchanged
  <2> QED BY <1>1, <1>2, <1>6, <2>1 DEF Admit, ErasingBut
<1>7. ASSUME NEW c \in Calls, Finish(c) PROVE Same(ops[ch], ops'[ch])
  BY <1>2, <1>7 DEF Finish, Erasing
<1>8. ASSUME NEW k \in Keys, Begin(k) PROVE Same(ops[ch], ops'[ch])
  BY <1>8 DEF Begin, Same
<1> QED BY <1>3, <1>4, <1>5, <1>6, <1>7, <1>8 DEF KeyTurn

\* What an erasure, or none, leaves of an operation, given what becomes of its key.
LEMMA ErasedDrawn ==
  ASSUME TypeOK, TypeOK', NEW ch \in Challenges, Drawn(ch), Erases(ops[ch], ops'[ch]), now <= now',
         \A k \in Keys : ops[ch].admitted # None /\ k = ops[ch].key =>
           /\ keys'[k] = None => ops[ch].born < now'
           /\ keys'[k] # None => ops[ch].born <= keys'[k].created
           /\ ended'[k] # None => ops[ch].admitted <= ended'[k]
  PROVE  Drawn(ch)'
<1> DEFINE p == ops[ch]
           q == ops'[ch]
<1>1. Same(p, q) /\ (q.status = p.status \/ (p.status \in {"challenge", "authorized"} /\ q.status = "erased"))
  BY DEF Erases
<1>2. p.admitted \in Nat \cup {None} /\ now \in Nat /\ now' \in Nat
  BY DEF TypeOK, Operation
<1>3. p.admitted # None => p.admitted <= now'
  <2>1. p.admitted # None => p.admitted <= now
    BY DEF Drawn
  <2> HIDE DEF p
  <2> QED BY <1>2, <2>1
<1>4. q.status \in {"reserved", "challenge"} => q.key \in Keys
  BY <1>1 DEF Drawn, Same
<1>5. q.status \in {"unused", "reserved", "challenge"} => q.admitted = None
  BY <1>1 DEF Drawn, Same
<1>6. q.status = "authorized" => q.admitted # None
  BY <1>1 DEF Drawn, Same
<1>7. q.admitted # None =>
          /\ q.key \in Keys /\ q.admitted <= now'
          /\ q.action = "submit" => q.until <= q.admitted + Lease
          /\ keys'[q.key] = None => q.born < now'
          /\ keys'[q.key] # None => q.born <= keys'[q.key].created
          /\ ended'[q.key] # None => q.admitted <= ended'[q.key]
  BY <1>1, <1>3 DEF Drawn, Same
<1> QED BY <1>4, <1>5, <1>6, <1>7 DEF Drawn

LEMMA AgedDrawn ==
  ASSUME TypeOK, TypeOK', NEW ch \in Challenges, Drawn(ch), Erases(ops[ch], ops'[ch]), Aging,
         now' = now, ended' = ended
  PROVE  Drawn(ch)'
<1>1. now \in Nat /\ now' \in Nat /\ now <= now'
  BY DEF TypeOK
<1>2. ASSUME NEW k \in Keys, ops[ch].admitted # None, k = ops[ch].key
      PROVE  /\ keys'[k] = None => ops[ch].born < now'
             /\ keys'[k] # None => ops[ch].born <= keys'[k].created
             /\ ended'[k] # None => ops[ch].admitted <= ended'[k]
  <2>1. /\ keys[k] = None => ops[ch].born < now
        /\ keys[k] # None => ops[ch].born <= keys[k].created
        /\ ended[k] # None => ops[ch].admitted <= ended[k]
    BY <1>2 DEF Drawn
  <2>2. Ages(k) /\ ops[ch].born \in Nat
    BY DEF Aging, TypeOK, Operation
  <2>3. keys'[k] # None => keys[k] # None /\ keys'[k].created = keys[k].created
    BY <2>2 DEF Ages
  <2>4. keys'[k] = None /\ keys[k] # None => keys[k].created < now /\ keys[k].created \in Nat
    BY <2>2 DEF Ages, TypeOK, Key
  <2> QED BY <1>1, <2>1, <2>2, <2>3, <2>4
<1> QED BY <1>1, <1>2, ErasedDrawn

LEMMA DrawsInv ==
  ASSUME TypeOK, TypeOK', Shapes, Draws, Lives, KeyTurn
  PROVE  Draws'
<1> SUFFICES ASSUME NEW ch \in Challenges PROVE Drawn(ch)'
  BY DEF Draws
<1>0. Drawn(ch) /\ now \in Nat /\ now' \in Nat /\ ops[ch] \in Operation /\ ops'[ch] \in Operation
      /\ keys \in [Keys -> Key \cup {None}] /\ ended \in [Keys -> Nat \cup {None}]
  BY DEF Draws, TypeOK
<1>1. CASE Quiet
  BY <1>0, <1>1, AgedDrawn DEF Quiet, Erasing
<1>2. CASE Ticks
  <2>1. Erases(ops[ch], ops'[ch]) /\ now <= now'
    BY <1>0, <1>2 DEF Ticks, Erases, Same
  <2>2. ASSUME NEW k \in Keys, ops[ch].admitted # None, k = ops[ch].key
        PROVE  /\ keys'[k] = None => ops[ch].born < now'
               /\ keys'[k] # None => ops[ch].born <= keys'[k].created
               /\ ended'[k] # None => ops[ch].admitted <= ended'[k]
    <3>1. /\ keys[k] = None => ops[ch].born < now
          /\ keys[k] # None => ops[ch].born <= keys[k].created
          /\ ended[k] # None => ops[ch].admitted <= ended[k]
      BY <1>0, <2>2 DEF Drawn
    <3>2. ops[ch].born \in Nat
      BY <1>0 DEF Operation
    <3> QED BY <1>0, <1>2, <3>1, <3>2 DEF Ticks
  <2> QED BY <1>0, <2>1, <2>2, ErasedDrawn
<1>3. ASSUME NEW one \in Challenges, Draw(one) PROVE Drawn(ch)'
  <2>1. CASE ch = one
    <3>1. ops'[ch].status \in {"reserved", "challenge"} /\ ops'[ch].admitted = None /\ ops'[ch].key \in Keys
      BY <1>3, <2>1 DEF Draw
    <3> QED BY <3>1 DEF Drawn
  <2>2. CASE ch # one
    BY <1>0, <1>3, <2>2, AgedDrawn DEF Draw, ErasingBut
  <2> QED BY <2>1, <2>2
<1>4. ASSUME NEW c \in Calls, Admit(c) PROVE Drawn(ch)'
  <2> DEFINE k == calls[c].key
  <2>1. /\ Shape(c) /\ calls[c].pc = "verify" /\ IsUnchanged(c) /\ k \in Keys
        /\ keys' = [keys EXCEPT ![k].counter = calls[c].counter]
    BY <1>4 DEF Admit, Shapes, Shape, Under
  <2>2. keys[k] # None /\ keys[k] \in Key /\ keys[k].status = "active"
    BY <1>0, <2>1 DEF IsUnchanged, IsUsable, IsActive
  <2>3. /\ keys'[k] # None /\ keys'[k].created = keys[k].created /\ ended[k] = None
        /\ \A j \in Keys : j # k => keys'[j] = keys[j]
    <3>1. keys'[k] = [keys[k] EXCEPT !.counter = calls[c].counter]
      BY <1>0, <2>1
    <3>2. calls[c].counter \in Nat
      BY <2>1 DEF Shape, Under, Counters
    <3>3. keys'[k] \in Key /\ keys'[k].created = keys[k].created
      BY <2>2, <3>1, <3>2 DEF Key
    <3>4. ended[k] = None
      BY <2>1, <2>2 DEF Lives, Living
    <3>5. \A j \in Keys : j # k => keys'[j] = keys[j]
      BY <1>0, <2>1
    <3> QED BY <3>3, <3>4, <3>5
  <2>4. CASE ch = calls[c].challenge
    <3> DEFINE op == ops[ch]
               new == ops'[ch]
    <3>1. /\ new.status = "authorized" /\ new.key = k /\ new.action = ActionOf[c]
          /\ new.born = keys[k].created /\ new.admitted = now
          /\ ActionOf[c] = "submit" => new.until <= now + Lease
      BY <1>4, <2>1, <2>4, AuthorizedFacts DEF Admit
    <3>2. now' = now /\ ended' = ended
      BY <1>4 DEF Admit
    <3>3. keys[k].created <= keys'[k].created
      BY <2>2, <2>3 DEF Key
    <3>4. now # None /\ now <= now'
      BY <1>0, <3>2
    <3> HIDE DEF k, new
    <3>5. /\ new.status \in {"reserved", "challenge"} => FALSE
          /\ new.status \in {"unused", "reserved", "challenge"} => FALSE
          /\ new.admitted # None
      BY <3>1, <3>4
    <3>6. /\ new.key \in Keys /\ new.admitted <= now'
          /\ new.action = "submit" => new.until <= new.admitted + Lease
          /\ keys'[new.key] # None /\ new.born <= keys'[new.key].created
          /\ ended'[new.key] = None
      BY <2>1, <2>3, <3>1, <3>2, <3>3, <3>4
    <3> QED BY <3>5, <3>6 DEF Drawn, new
  <2>5. CASE ch # calls[c].challenge
    <3>1. Erases(ops[ch], ops'[ch]) /\ now' = now /\ ended' = ended
      BY <1>4, <2>5 DEF Admit, ErasingBut
    <3>2. now <= now'
      BY <1>0, <3>1
    <3>3. ASSUME NEW j \in Keys, ops[ch].admitted # None, j = ops[ch].key
          PROVE  /\ keys'[j] = None => ops[ch].born < now'
                 /\ keys'[j] # None => ops[ch].born <= keys'[j].created
                 /\ ended'[j] # None => ops[ch].admitted <= ended'[j]
      <4>1. /\ keys[j] = None => ops[ch].born < now
            /\ keys[j] # None => ops[ch].born <= keys[j].created
            /\ ended[j] # None => ops[ch].admitted <= ended[j]
        BY <1>0, <3>3 DEF Drawn
      <4> QED BY <2>2, <2>3, <3>1, <4>1
    <3> QED BY <1>0, <3>1, <3>2, <3>3, ErasedDrawn
  <2> QED BY <2>4, <2>5
<1>5. ASSUME NEW c \in Calls, Finish(c) PROVE Drawn(ch)'
  <2> DEFINE k == calls[c].key
  <2>1. /\ calls[c].pc = "verify" /\ IsUnchanged(c) /\ k \in Keys /\ Erases(ops[ch], ops'[ch]) /\ now' = now
        /\ keys' = [keys EXCEPT ![k] = Revoked(keys[k])] /\ ended' = [ended EXCEPT ![k] = now]
    BY <1>5 DEF Finish, Shapes, Shape, Under, Erasing
  <2>2. keys[k] # None /\ keys[k] \in Key
    BY <1>0, <2>1 DEF IsUnchanged, IsUsable, IsActive
  <2>3. Revoked(keys[k]) \in Key /\ Revoked(keys[k]).created = keys[k].created
    BY <2>2 DEF Revoked, Key
  <2>4. /\ keys'[k] = Revoked(keys[k]) /\ ended'[k] = now
        /\ \A j \in Keys : j # k => keys'[j] = keys[j] /\ ended'[j] = ended[j]
    BY <1>0, <2>1
  <2>5. ASSUME NEW j \in Keys, ops[ch].admitted # None, j = ops[ch].key
        PROVE  /\ keys'[j] = None => ops[ch].born < now'
               /\ keys'[j] # None => ops[ch].born <= keys'[j].created
               /\ ended'[j] # None => ops[ch].admitted <= ended'[j]
    <3>1. /\ keys[j] = None => ops[ch].born < now
          /\ keys[j] # None => ops[ch].born <= keys[j].created
          /\ ended[j] # None => ops[ch].admitted <= ended[j]
          /\ ops[ch].admitted <= now
      BY <1>0, <2>5 DEF Drawn
    <3> HIDE DEF k
    <3>2. CASE j = k
      BY <2>1, <2>2, <2>3, <2>4, <3>1, <3>2
    <3>3. CASE j # k
      BY <2>1, <2>4, <3>1, <3>3
    <3> QED BY <3>2, <3>3
  <2>6. now <= now'
    BY <1>0, <2>1
  <2> QED BY <1>0, <2>1, <2>5, <2>6, ErasedDrawn
<1>6. ASSUME NEW k \in Keys, Begin(k) PROVE Drawn(ch)'
  <2>1. keys[k] = None /\ now' = now /\ Erases(ops[ch], ops'[ch])
    BY <1>6 DEF Begin, Erases, Same
  <2>2. /\ keys'[k].created = now /\ ended'[k] = None /\ keys'[k] # None
        /\ \A j \in Keys : j # k => keys'[j] = keys[j] /\ ended'[j] = ended[j]
    <3> DEFINE row == [status |-> "active", created |-> now, expires |-> now + KeyLife, counter |-> 0]
    <3>1. row \in Key
      BY <1>0 DEF Key
    <3> QED BY <1>0, <1>6, <3>1 DEF Begin
  <2>3. ASSUME NEW j \in Keys, ops[ch].admitted # None, j = ops[ch].key
        PROVE  /\ keys'[j] = None => ops[ch].born < now'
               /\ keys'[j] # None => ops[ch].born <= keys'[j].created
               /\ ended'[j] # None => ops[ch].admitted <= ended'[j]
    <3>1. /\ keys[j] = None => ops[ch].born < now
          /\ keys[j] # None => ops[ch].born <= keys[j].created
          /\ ended[j] # None => ops[ch].admitted <= ended[j]
          /\ ops[ch].born \in Nat
      BY <1>0, <2>3 DEF Drawn, Operation
    <3>2. CASE j = k
      BY <1>0, <2>1, <2>2, <3>1, <3>2
    <3>3. CASE j # k
      BY <2>1, <2>2, <3>1, <3>3
    <3> QED BY <3>2, <3>3
  <2>4. now <= now'
    BY <1>0, <2>1
  <2> QED BY <1>0, <2>1, <2>3, <2>4, ErasedDrawn
<1> QED BY <1>1, <1>2, <1>3, <1>4, <1>5, <1>6 DEF KeyTurn

\* Only a commit admits, and it admits what was a challenge.
LEMMA AdmittedBefore ==
  ASSUME TypeOK, Shapes, Draws, KeyTurn,
         NEW ch \in Challenges, ops'[ch].admitted # None
  PROVE  \/ ops[ch].admitted # None /\ Same(ops[ch], ops'[ch])
         \/ \E c \in Calls : Admit(c) /\ ch = calls[c].challenge
<1>1. ASSUME Erases(ops[ch], ops'[ch]) PROVE ops[ch].admitted # None /\ Same(ops[ch], ops'[ch])
  BY <1>1 DEF Erases, Same
<1>2. CASE Quiet
  BY <1>1, <1>2 DEF Quiet, Erasing
<1>3. CASE Ticks
  BY <1>3 DEF Ticks, Same
<1>4. ASSUME NEW one \in Challenges, Draw(one) PROVE ops[ch].admitted # None /\ Same(ops[ch], ops'[ch])
  BY <1>1, <1>4 DEF Draw, ErasingBut
<1>5. ASSUME NEW c \in Calls, Admit(c), ch # calls[c].challenge
      PROVE  ops[ch].admitted # None /\ Same(ops[ch], ops'[ch])
  BY <1>1, <1>5 DEF Admit, ErasingBut
<1>6. ASSUME NEW c \in Calls, Finish(c) PROVE ops[ch].admitted # None /\ Same(ops[ch], ops'[ch])
  BY <1>1, <1>6 DEF Finish, Erasing
<1>7. ASSUME NEW k \in Keys, Begin(k) PROVE ops[ch].admitted # None /\ Same(ops[ch], ops'[ch])
  BY <1>7 DEF Begin, Same
<1> QED BY <1>2, <1>3, <1>4, <1>5, <1>6, <1>7 DEF KeyTurn

\* What the counter of a key becomes.
LEMMA AdmitKey ==
  ASSUME TypeOK, Shapes, NEW c \in Calls, Admit(c)
  PROVE  LET k == calls[c].key
         IN /\ k \in Keys /\ calls[c].counter \in Nat /\ calls[c].challenge \in Challenges
            /\ keys[k] \in Key /\ keys[k] # None /\ keys[k].status = "active"
            /\ keys'[k] \in Key /\ keys'[k] # None /\ keys'[k].created = keys[k].created
            /\ keys'[k].expires = keys[k].expires /\ keys'[k].status = keys[k].status
            /\ keys'[k].counter = calls[c].counter /\ calls[c].counter > keys[k].counter
            /\ \A j \in Keys \ {k} : keys'[j] = keys[j]
<1> DEFINE k == calls[c].key
<1>1. /\ k \in Keys /\ calls[c].counter \in Nat /\ calls[c].challenge \in Challenges
      /\ IsUnchanged(c) /\ keys' = [keys EXCEPT ![k].counter = calls[c].counter]
  BY DEF Admit, Shapes, Shape, Under, Counters
<1>2. keys \in [Keys -> Key \cup {None}]
  BY DEF TypeOK
<1>3. keys[k] \in Key /\ keys[k] # None /\ keys[k].status = "active" /\ calls[c].counter > keys[k].counter
  BY <1>1, <1>2 DEF IsUnchanged, IsUsable, IsActive
<1>4. keys'[k] = [keys[k] EXCEPT !.counter = calls[c].counter] /\ \A j \in Keys \ {k} : keys'[j] = keys[j]
  BY <1>1, <1>2
<1> HIDE DEF k
<1>5. /\ keys'[k] \in Key /\ keys'[k] # None /\ keys'[k].created = keys[k].created
      /\ keys'[k].expires = keys[k].expires /\ keys'[k].status = keys[k].status
      /\ keys'[k].counter = calls[c].counter
  BY <1>1, <1>3, <1>4 DEF Key
<1> QED BY <1>1, <1>3, <1>4, <1>5 DEF k

LEMMA FinishKey ==
  ASSUME TypeOK, Shapes, NEW c \in Calls, Finish(c)
  PROVE  LET k == calls[c].key
         IN /\ k \in Keys /\ keys[k] \in Key /\ keys[k] # None
            /\ keys'[k] \in Key /\ keys'[k] # None /\ keys'[k].status = "revoked"
            /\ keys'[k].created = keys[k].created /\ keys'[k].expires = keys[k].expires
            /\ keys'[k].counter = keys[k].counter /\ ended'[k] = now
            /\ \A j \in Keys \ {k} : keys'[j] = keys[j] /\ ended'[j] = ended[j]
<1> DEFINE k == calls[c].key
<1>1. /\ k \in Keys /\ IsUnchanged(c) /\ ended' = [ended EXCEPT ![k] = now]
      /\ keys' = [keys EXCEPT ![k] = Revoked(keys[k])]
  BY DEF Finish, Shapes, Shape, Under
<1>2. keys \in [Keys -> Key \cup {None}] /\ ended \in [Keys -> Nat \cup {None}]
  BY DEF TypeOK
<1>3. keys[k] \in Key /\ keys[k] # None
  BY <1>1, <1>2 DEF IsUnchanged, IsUsable, IsActive
<1>4. /\ keys'[k] = Revoked(keys[k]) /\ ended'[k] = now
      /\ \A j \in Keys \ {k} : keys'[j] = keys[j] /\ ended'[j] = ended[j]
  BY <1>1, <1>2
<1> HIDE DEF k
<1>5. /\ keys'[k] \in Key /\ keys'[k] # None /\ keys'[k].status = "revoked"
      /\ keys'[k].created = keys[k].created /\ keys'[k].expires = keys[k].expires
      /\ keys'[k].counter = keys[k].counter
  BY <1>3, <1>4 DEF Revoked, Key
<1> QED BY <1>1, <1>3, <1>4, <1>5 DEF k

LEMMA BeginKey ==
  ASSUME TypeOK, NEW k \in Keys, Begin(k)
  PROVE  /\ keys[k] = None /\ keys'[k] \in Key /\ keys'[k] # None /\ keys'[k].created = now
         /\ keys'[k].expires = now + KeyLife /\ keys'[k].counter = 0 /\ ended'[k] = None
         /\ \A j \in Keys \ {k} : keys'[j] = keys[j] /\ ended'[j] = ended[j]
<1> DEFINE row == [status |-> "active", created |-> now, expires |-> now + KeyLife, counter |-> 0]
<1>1. row \in Key /\ row.created = now /\ row.expires = now + KeyLife /\ row.counter = 0
  BY DEF Key, TypeOK
<1>2. keys \in [Keys -> Key \cup {None}] /\ ended \in [Keys -> Nat \cup {None}]
  BY DEF TypeOK
<1>3. keys[k] = None /\ keys' = [keys EXCEPT ![k] = row] /\ ended' = [ended EXCEPT ![k] = None]
  BY DEF Begin
<1> HIDE DEF row
<1> QED BY <1>1, <1>2, <1>3

LEMMA LivesInv ==
  ASSUME TypeOK, TypeOK', Shapes, Lives, KeyTurn
  PROVE  Lives'
<1> SUFFICES ASSUME NEW k \in Keys PROVE Living(k)'
  BY DEF Lives
<1>0. Living(k) /\ now \in Nat /\ now' \in Nat /\ ended[k] \in Nat \cup {None}
      /\ (keys[k] # None => keys[k].created \in Nat /\ keys[k].expires \in Nat)
  BY DEF Lives, TypeOK, Key
<1>1. ASSUME Aging, ended' = ended, now' = now PROVE Living(k)'
  <2>1. Ages(k)
    BY <1>1 DEF Aging
  <2> QED BY <1>0, <1>1, <2>1 DEF Living, Ages
<1>2. CASE Quiet
  BY <1>1, <1>2 DEF Quiet
<1>3. CASE Ticks
  BY <1>0, <1>3 DEF Ticks, Living
<1>4. ASSUME NEW one \in Challenges, Draw(one) PROVE Living(k)'
  BY <1>1, <1>4 DEF Draw
<1>5. ASSUME NEW c \in Calls, Admit(c) PROVE Living(k)'
  <2>1. ended' = ended /\ now' = now
    BY <1>5 DEF Admit
  <2>2. CASE k = calls[c].key
    BY <1>0, <1>5, <2>1, <2>2, AdmitKey DEF Living
  <2>3. CASE k # calls[c].key
    BY <1>0, <1>5, <2>1, <2>3, AdmitKey DEF Living
  <2> QED BY <2>2, <2>3
<1>6. ASSUME NEW c \in Calls, Finish(c) PROVE Living(k)'
  <2>1. now' = now
    BY <1>6 DEF Finish
  <2>2. CASE k = calls[c].key
    BY <1>0, <1>6, <2>1, <2>2, FinishKey DEF Living
  <2>3. CASE k # calls[c].key
    BY <1>0, <1>6, <2>1, <2>3, FinishKey DEF Living
  <2> QED BY <2>2, <2>3
<1>7. ASSUME NEW one \in Keys, Begin(one) PROVE Living(k)'
  <2>1. now' = now
    BY <1>7 DEF Begin
  <2>2. CASE k = one
    BY <1>0, <1>7, <2>1, <2>2, BeginKey DEF Living
  <2>3. CASE k # one
    BY <1>0, <1>7, <2>1, <2>3, BeginKey DEF Living
  <2> QED BY <2>2, <2>3
<1> QED BY <1>2, <1>3, <1>4, <1>5, <1>6, <1>7 DEF KeyTurn

LEMMA CounterInv ==
  ASSUME TypeOK, TypeOK', Shapes, Draws, Lives, CounterOnce, KeyTurn
  PROVE  CounterOnce'
<1> DEFINE Was(ch) == ops[ch].admitted # None /\ Same(ops[ch], ops'[ch])
           Differ(a, b) == ops'[b].key = ops'[a].key /\ ops'[b].born = ops'[a].born =>
                             ops'[b].counter # ops'[a].counter
           Counted(a) == LET k == ops'[a].key
                         IN keys'[k] # None /\ keys'[k].created = ops'[a].born => ops'[a].counter <= keys'[k].counter
<1>1. ASSUME NEW a \in Challenges, NEW b \in Challenges \ {a}, Was(a), Was(b) PROVE Differ(a, b)
  <2>1. ops[b].key = ops[a].key /\ ops[b].born = ops[a].born => ops[b].counter # ops[a].counter
    BY <1>1 DEF CounterOnce
  <2> QED BY <1>1, <2>1 DEF Same
<1>2. ASSUME NEW a \in Challenges, Was(a)
      PROVE  /\ ops'[a].key \in Keys /\ ops'[a].born \in Nat /\ ops'[a].counter \in Nat
             /\ keys[ops'[a].key] = None => ops'[a].born < now
             /\ LET k == ops'[a].key
                IN keys[k] # None /\ keys[k].created = ops'[a].born => ops'[a].counter <= keys[k].counter
  <2>1. /\ ops[a].key \in Keys /\ (keys[ops[a].key] = None => ops[a].born < now)
        /\ LET k == ops[a].key
           IN keys[k] # None /\ keys[k].created = ops[a].born => ops[a].counter <= keys[k].counter
    BY <1>2 DEF Draws, Drawn, CounterOnce
  <2>2. ops[a].born \in Nat /\ ops[a].counter \in Nat
    BY DEF TypeOK, Operation
  <2> QED BY <1>2, <2>1, <2>2 DEF Same
<1>3. CASE \E c \in Calls : Admit(c)
  <2>1. PICK c \in Calls : Admit(c)
    BY <1>3
  <2> DEFINE k == calls[c].key
             one == calls[c].challenge
  <2>2. /\ k \in Keys /\ calls[c].counter \in Nat /\ keys[k] # None /\ keys[k].counter \in Nat
        /\ keys'[k].created = keys[k].created /\ keys'[k].counter = calls[c].counter
        /\ calls[c].counter > keys[k].counter /\ \A j \in Keys \ {k} : keys'[j] = keys[j]
    BY <2>1, AdmitKey DEF Key
  <2>3. ops'[one].key = k /\ ops'[one].born = keys[k].created /\ ops'[one].counter = calls[c].counter
    BY <2>1, AuthorizedFacts DEF Admit, Shapes
  <2>4. ASSUME NEW a \in Challenges, ops'[a].admitted # None, a # one PROVE Was(a)
    <3>1. Erases(ops[a], ops'[a])
      BY <2>1, <2>4 DEF Admit, ErasingBut
    <3> QED BY <2>4, <3>1 DEF Erases, Same
  <2> HIDE DEF k, one, Was, Differ
  <2>5. ASSUME NEW a \in Challenges, Was(a), ops'[a].key = k, ops'[a].born = keys[k].created
        PROVE  ops'[a].counter < calls[c].counter
    BY <1>2, <2>2, <2>5
  <2>6. ASSUME NEW a \in Challenges, ops'[a].admitted # None PROVE Counted(a)
    <3>1. CASE a = one
      BY <2>2, <2>3, <3>1
    <3>2. CASE a # one
      <4>1. Was(a)
        BY <2>4, <2>6, <3>2
      <4>2. CASE ops'[a].key = k
        BY <1>2, <2>2, <2>5, <4>1, <4>2
      <4>3. CASE ops'[a].key # k
        BY <1>2, <2>2, <4>1, <4>3
      <4> QED BY <4>2, <4>3
    <3> QED BY <3>1, <3>2
  <2>7. ASSUME NEW a \in Challenges, NEW b \in Challenges \ {a}, ops'[a].admitted # None, ops'[b].admitted # None
        PROVE  Differ(a, b)
    <3>1. CASE a # one /\ b # one
      BY <1>1, <2>4, <2>7, <3>1
    <3>2. ASSUME NEW x \in Challenges, Was(x), ops'[x].key = k, ops'[x].born = keys[k].created
          PROVE  ops'[x].counter # calls[c].counter
      BY <1>2, <2>2, <2>5, <3>2
    <3>3. CASE a = one \/ b = one
      BY <2>3, <2>4, <2>7, <3>2, <3>3 DEF Differ
    <3> QED BY <3>1, <3>3
  <2> QED BY <2>6, <2>7 DEF CounterOnce, Differ
<1>4. CASE ~ \E c \in Calls : Admit(c)
  <2>1. ASSUME NEW a \in Challenges, ops'[a].admitted # None PROVE Was(a)
    BY <1>4, <2>1, AdmittedBefore
  <2>2. ASSUME NEW a \in Challenges, ops'[a].admitted # None, Aging PROVE Counted(a)
    <3> DEFINE k == ops'[a].key
    <3>1. k \in Keys /\ (keys[k] # None /\ keys[k].created = ops'[a].born => ops'[a].counter <= keys[k].counter)
      BY <1>2, <2>1, <2>2
    <3>2. Ages(k)
      BY <2>2, <3>1 DEF Aging
    <3> HIDE DEF k
    <3>3. keys'[k] # None => keys[k] # None /\ keys'[k].created = keys[k].created /\ keys'[k].counter = keys[k].counter
      BY <3>2 DEF Ages
    <3>4. keys'[k] # None /\ keys'[k].created = ops'[a].born => ops'[a].counter <= keys'[k].counter
      BY <3>1, <3>3
    <3> QED BY <3>4 DEF k
  <2>3. ASSUME NEW a \in Challenges, ops'[a].admitted # None PROVE Counted(a)
    <3>0. Was(a)
      BY <2>1, <2>3
    <3>1. CASE Quiet \/ \E one \in Challenges : Draw(one)
      BY <2>2, <2>3, <3>1 DEF Quiet, Draw
    <3>2. CASE Ticks
      <4>1. keys' = keys
        BY <3>2 DEF Ticks
      <4> HIDE DEF Was
      <4> QED BY <1>2, <3>0, <4>1
    <3>3. ASSUME NEW c \in Calls, Finish(c) PROVE Counted(a)
      <4> DEFINE k == calls[c].key
      <4>1. /\ keys[k] # None /\ keys'[k].created = keys[k].created /\ keys'[k].counter = keys[k].counter
            /\ \A j \in Keys \ {k} : keys'[j] = keys[j]
        BY <3>3, FinishKey
      <4> HIDE DEF k, Was
      <4>2. CASE ops'[a].key = k
        BY <1>2, <3>0, <4>1, <4>2
      <4>3. CASE ops'[a].key # k
        BY <1>2, <3>0, <4>1, <4>3
      <4> QED BY <4>2, <4>3
    <3>4. ASSUME NEW k \in Keys, Begin(k) PROVE Counted(a)
      <4>1. keys[k] = None /\ keys'[k].created = now /\ \A j \in Keys \ {k} : keys'[j] = keys[j]
        BY <3>4, BeginKey
      <4>2. now \in Nat
        BY DEF TypeOK
      <4> HIDE DEF Was
      <4>3. CASE ops'[a].key = k
        BY <1>2, <3>0, <4>1, <4>2, <4>3
      <4>4. CASE ops'[a].key # k
        BY <1>2, <3>0, <4>1, <4>4
      <4> QED BY <4>3, <4>4
    <3> QED BY <1>4, <3>1, <3>2, <3>3, <3>4 DEF KeyTurn
  <2>4. ASSUME NEW a \in Challenges, NEW b \in Challenges \ {a}, ops'[a].admitted # None, ops'[b].admitted # None
        PROVE  Differ(a, b)
    BY <1>1, <2>1, <2>4
  <2> QED BY <2>3, <2>4 DEF CounterOnce
<1> QED BY <1>3, <1>4

-----------------------------------------------------------------------------
\* Types, action by action.
Types ==
  /\ tx \in [Transactions -> Row \cup {None}] /\ keys \in [Keys -> Key \cup {None}]
  /\ ops \in [Challenges -> Operation] /\ calls \in [Calls -> Call] /\ now \in Nat
  /\ accepted \in [Transactions -> Acceptance \cup {None}]
  /\ delivered \in [Transactions -> Seq(Envelopes)]
  /\ stopped \in [Transactions -> BOOLEAN] /\ ended \in [Keys -> Nat \cup {None}]
Sealed(t) == tx[t] # None => (tx[t].envelope # None <=> tx[t].state = "ready")

LEMMA TypeOKIs == TypeOK <=> Types /\ \A t \in Transactions : Sealed(t)
BY DEF TypeOK, Types, Sealed

LEMMA EndType ==
  ASSUME TypeOK, NEW c \in Calls, NEW pc \in {"done", "refused", "lost"}, End(c, pc)
  PROVE  calls' \in [Calls -> Call] /\ calls'[c] = [Idle EXCEPT !.pc = pc]
         /\ calls'[c].pc = pc /\ \A d \in Calls \ {c} : calls'[d] = calls[d]
<1>1. [Idle EXCEPT !.pc = pc] \in Call /\ [Idle EXCEPT !.pc = pc].pc = pc
  BY DEF Idle, Call
<1>2. calls \in [Calls -> Call] /\ calls' = [calls EXCEPT ![c] = [Idle EXCEPT !.pc = pc]]
  BY DEF TypeOK, End
<1> QED BY <1>1, <1>2

LEMMA GotoType ==
  ASSUME TypeOK, NEW c \in Calls, NEW pc \in {"reply", "granted", "accepted"}, Goto(c, pc)
  PROVE  /\ calls' \in [Calls -> Call] /\ calls'[c] = [calls[c] EXCEPT !.pc = pc] /\ calls'[c].pc = pc
         /\ calls'[c].tx = calls[c].tx /\ calls'[c].key = calls[c].key
         /\ calls'[c].challenge = calls[c].challenge /\ calls'[c].counter = calls[c].counter
         /\ calls'[c].envelope = calls[c].envelope
         /\ \A d \in Calls \ {c} : calls'[d] = calls[d]
<1>1. calls \in [Calls -> Call] /\ calls' = [calls EXCEPT ![c] = [calls[c] EXCEPT !.pc = pc]]
  BY DEF TypeOK, Goto
<1>2. calls[c] \in Call /\ calls'[c] = [calls[c] EXCEPT !.pc = pc] /\ \A d \in Calls \ {c} : calls'[d] = calls[d]
  BY <1>1
<1>3. LET q == [calls[c] EXCEPT !.pc = pc]
      IN /\ q \in Call /\ q.pc = pc /\ q.tx = calls[c].tx /\ q.key = calls[c].key
         /\ q.challenge = calls[c].challenge /\ q.counter = calls[c].counter /\ q.envelope = calls[c].envelope
  BY <1>2 DEF Call
<1> QED BY <1>1, <1>2, <1>3

\* What a call asks, as it begins.
LEMMA SubmitFacts ==
  ASSUME TypeOK, NEW c \in Calls, Submit(c)
  PROVE  \E t \in Transactions, body \in Body, pc \in {"authorize", "accepted"} :
           /\ calls' = [calls EXCEPT ![c] =
                [pc |-> pc, tx |-> t, key |-> body.key, challenge |-> body.challenge, counter |-> body.counter,
                 envelope |-> body.envelope, born |-> 0, waiting |-> TRUE]]
           /\ ActionOf[c] = "submit" /\ tx[t] # None
           /\ pc = "accepted" => tx[t].body = body
<1>1. PICK t \in Transactions, body \in [key : Keys, challenge : Known, counter : Counters, envelope : Envelopes] :
        /\ IsOpen(t) /\ (tx[t].body = body \/ (tx[t].body = None /\ tx[t].state = "pending"))
        /\ calls' = [calls EXCEPT ![c] =
             [pc |-> IF tx[t].body = None THEN "authorize" ELSE "accepted",
              tx |-> t, key |-> body.key, challenge |-> body.challenge,
              counter |-> body.counter, envelope |-> body.envelope, born |-> 0, waiting |-> TRUE]]
  BY DEF Submit
<1>2. body \in Body
  BY DEF Known, Body
<1>3. ActionOf[c] = "submit" /\ tx[t] # None
  BY <1>1 DEF Submit, IsOpen
<1> WITNESS t \in Transactions, body \in Body
<1> WITNESS (IF tx[t].body = None THEN "authorize" ELSE "accepted") \in {"authorize", "accepted"}
<1> QED BY <1>1, <1>3

LEMMA CallType ==
  ASSUME NEW pc \in {"authorize", "accepted"}, NEW t \in Transactions \cup {None}, NEW k \in Keys,
         NEW ch \in Challenges, NEW n \in Counters, NEW e \in Envelopes \cup {None}
  PROVE  [pc |-> pc, tx |-> t, key |-> k, challenge |-> ch, counter |-> n, envelope |-> e,
          born |-> 0, waiting |-> TRUE] \in Call
BY DEF Call, Counters

\* The keys and their operations.
LEMMA KeyTypes ==
  ASSUME TypeOK, Shapes, Draws, Lives, [Next]_vars
  PROVE  keys' \in [Keys -> Key \cup {None}] /\ ops' \in [Challenges -> Operation]
         /\ now' \in Nat /\ ended' \in [Keys -> Nat \cup {None}]
<1> DEFINE Rest == UNCHANGED <<ops, keys, ended, now>>
           Typed == keys' \in [Keys -> Key \cup {None}] /\ ops' \in [Challenges -> Operation]
                    /\ now' \in Nat /\ ended' \in [Keys -> Nat \cup {None}]
<1>a. keys \in [Keys -> Key \cup {None}] /\ ops \in [Challenges -> Operation]
      /\ now \in Nat /\ ended \in [Keys -> Nat \cup {None}] /\ calls \in [Calls -> Call]
  BY DEF TypeOK
<1>0. ASSUME Rest PROVE Typed
  BY <1>0, <1>a
<1>1. ASSUME NEW t \in Transactions, Create(t) \/ Consume(t) \/ Cancel(t) \/ Erase(t) PROVE Rest
  BY <1>1 DEF Create, Consume, Cancel, Erase, histories
<1>2. ASSUME NEW k \in Keys, Enroll(k) PROVE Typed
  <2>1. [status |-> "active", created |-> now, expires |-> now + KeyLife, counter |-> 0] \in Key
    BY <1>a DEF Key
  <2> QED BY <1>2, <1>a, <2>1 DEF Enroll
<1>b. \A k \in Keys : ExpiredRow(k) \in Key \cup {None}
  BY ExpiredFacts
<1>3. ASSUME NEW k \in Keys, SweepKey(k) PROVE Typed
  <2>1. /\ \E row \in {ExpiredRow(k), None} : keys' = [keys EXCEPT ![k] = row]
        /\ ops' = Swept(k) /\ ended' = ended /\ now' = now
    BY <1>3 DEF SweepKey, histories
  <2> QED BY <1>a, <1>b, <2>1, SweptFacts
<1>4. ASSUME NEW ch \in Challenges, Reserve(ch) PROVE Typed
  <2>1. PICK t \in Transactions, k \in Keys, e \in Envelopes :
          ops' = [ops EXCEPT ![ch] =
            [status |-> "reserved", action |-> "submit", key |-> k, tx |-> t, envelope |-> e,
             expires |-> Deadline[t], counter |-> 0, born |-> 0, admitted |-> None, until |-> 0]]
    BY <1>4 DEF Reserve
  <2>2. [status |-> "reserved", action |-> "submit", key |-> k, tx |-> t, envelope |-> e,
         expires |-> Deadline[t], counter |-> 0, born |-> 0, admitted |-> None, until |-> 0] \in Operation
    BY DEF Operation, Actions
  <2>3. keys' = keys /\ ended' = ended /\ now' = now
    BY <1>4 DEF Reserve, histories
  <2> QED BY <1>a, <2>1, <2>2, <2>3
<1>5. ASSUME NEW ch \in Challenges, IssueSubmit(ch) PROVE Typed
  <2> DEFINE k == ops[ch].key
             new == [ops[ch] EXCEPT !.status = "challenge"]
  <2>1. /\ ops[ch].status = "reserved" /\ keys' = [keys EXCEPT ![k] = ExpiredRow(k)]
        /\ ops' = [Swept(k) EXCEPT ![ch] = new] /\ ended' = ended /\ now' = now
    BY <1>5 DEF IssueSubmit, histories
  <2>2. k \in Keys
    BY <2>1 DEF Draws, Drawn
  <2>3. new \in Operation
    BY <1>a DEF Operation
  <2> HIDE DEF k, new
  <2> QED BY <1>a, <1>b, <2>1, <2>2, <2>3, SweptFacts
<1>6. ASSUME NEW ch \in Challenges, IssueOther(ch) PROVE Typed
  <2>1. PICK k \in Keys, action \in Actions \ {"submit"} :
          /\ keys' = [keys EXCEPT ![k] = ExpiredRow(k)]
          /\ ops' = [Swept(k) EXCEPT ![ch] =
               [status |-> "challenge", action |-> action, key |-> k, tx |-> None,
                envelope |-> None, expires |-> now + ChallengeLife, counter |-> 0,
                born |-> 0, admitted |-> None, until |-> 0]]
    BY <1>6 DEF IssueOther
  <2> DEFINE new == [status |-> "challenge", action |-> action, key |-> k, tx |-> None,
                     envelope |-> None, expires |-> now + ChallengeLife, counter |-> 0,
                     born |-> 0, admitted |-> None, until |-> 0]
  <2>2. new \in Operation
    BY <1>a DEF Operation
  <2>3. ops' = [Swept(k) EXCEPT ![ch] = new] /\ ended' = ended /\ now' = now
    BY <1>6, <2>1 DEF IssueOther, histories
  <2> HIDE DEF new
  <2> QED BY <1>a, <1>b, <2>1, <2>2, <2>3, SweptFacts
<1>7. ASSUME NEW c \in Calls, Submit(c) \/ Manage(c) \/ Refuse(c) \/ Restart(c) \/ Accept(c) PROVE Rest
  BY <1>7 DEF Submit, Manage, Refuse, Restart, Accept, histories
<1>8. ASSUME NEW c \in Calls, Authorize(c) \/ Reply(c) PROVE Typed
  <2>1. ops' = Swept(calls[c].key) /\ keys' = keys /\ ended' = ended /\ now' = now
    BY <1>8 DEF Authorize, Reply, histories
  <2> QED BY <1>a, <2>1, SweptFacts
<1>9. ASSUME NEW c \in Calls, Commit(c) PROVE Typed
  <2>1. /\ calls[c].pc = "verify" /\ IsUnchanged(c)
        /\ keys' = [keys EXCEPT ![calls[c].key].counter = calls[c].counter]
        /\ ops' = [Swept(calls[c].key) EXCEPT ![calls[c].challenge] = Authorized(c)]
        /\ ended' = ended /\ now' = now
    BY <1>9 DEF Commit, histories
  <2>2. calls[c].challenge \in Challenges /\ calls[c].key \in Keys /\ calls[c].counter \in Nat /\ Shape(c)
    BY <2>1 DEF Shapes, Shape, Under, Counters
  <2>3. Authorized(c) \in Operation
    BY <2>1, <2>2, AuthorizedFacts
  <2>4. keys[calls[c].key] \in Key
    BY <1>a, <2>1, <2>2 DEF IsUnchanged, IsUsable, IsActive
  <2>5. [keys[calls[c].key] EXCEPT !.counter = calls[c].counter] \in Key
    BY <2>2, <2>4 DEF Key
  <2> QED BY <1>a, <2>1, <2>2, <2>3, <2>5, SweptFacts
<1>10. ASSUME NEW c \in Calls, Delete(c) PROVE Typed
  <2>1. /\ calls[c].pc = "verify" /\ IsUnchanged(c)
        /\ keys' = [keys EXCEPT ![calls[c].key] = Revoked(keys[calls[c].key])]
        /\ ops' = Without(calls[c].key, Challenges)
        /\ ended' = [ended EXCEPT ![calls[c].key] = now] /\ now' = now
    BY <1>10 DEF Delete
  <2>2. calls[c].key \in Keys
    BY <2>1 DEF Shapes, Shape, Under
  <2>3. keys[calls[c].key] \in Key
    BY <1>a, <2>1, <2>2 DEF IsUnchanged, IsUsable, IsActive
  <2>4. Revoked(keys[calls[c].key]) \in Key
    BY <2>3 DEF Revoked, Key
  <2> QED BY <1>a, <2>1, <2>2, <2>4, WithoutFacts
<1>11. ASSUME Tick PROVE Typed
  BY <1>11, <1>a DEF Tick, histories
<1>12. ASSUME UNCHANGED vars PROVE Rest
  BY <1>12 DEF vars, histories
<1> HIDE DEF Rest, Typed
<1>13. Typed
  BY <1>0, <1>1, <1>2, <1>3, <1>4, <1>5, <1>6, <1>7, <1>8, <1>9, <1>10, <1>11, <1>12 DEF Next
<1> QED BY <1>13 DEF Typed

-----------------------------------------------------------------------------
\* The calls.
Alone(c) == \A d \in Calls \ {c} : calls'[d] = calls[d]
Goes(c) == /\ calls'[c].tx = calls[c].tx /\ calls'[c].key = calls[c].key
           /\ calls'[c].challenge = calls[c].challenge /\ calls'[c].counter = calls[c].counter
           /\ calls'[c].envelope = calls[c].envelope

\* What the step of a call makes of it.
CallTurn(c) ==
  /\ calls' \in [Calls -> Call] /\ Alone(c)
  /\ \/ calls'[c].pc \in {"done", "refused", "lost"}
     \/ /\ calls'[c].pc = "authorize" /\ calls'[c].key \in Keys /\ calls'[c].challenge \in Challenges
        /\ calls'[c].counter \in Counters
        /\ ActionOf[c] = "submit" => calls'[c].tx \in Transactions /\ calls'[c].envelope \in Envelopes
     \/ /\ calls'[c].pc = "accepted" /\ ActionOf[c] = "submit" /\ calls'[c].tx \in Transactions
        /\ BodyOf(c)' \in Body /\ tx[calls'[c].tx] # None /\ tx[calls'[c].tx].body = BodyOf(c)'
        /\ tx' = tx /\ accepted' = accepted
     \/ calls[c].pc \in {"authorize", "verify", "reply"} /\ calls'[c].pc \in {"verify", "reply"} /\ Goes(c)
     \/ calls'[c].pc = calls[c].pc /\ Goes(c)
     \/ /\ calls[c].pc = "reply" /\ calls'[c].pc = "granted" /\ Goes(c)
        /\ ActionOf[c] = "submit" /\ IsCurrent(c)
     \/ /\ calls[c].pc = "granted" /\ calls'[c].pc = "accepted" /\ Goes(c) /\ Accept(c)

LEMMA CallTurns ==
  ASSUME TypeOK, Shapes, [Next]_vars
  PROVE  calls' = calls \/ \E c \in Calls : CallTurn(c)
<1>a. calls \in [Calls -> Call]
  BY DEF TypeOK
<1>1. ASSUME NEW t \in Transactions, Create(t) \/ Consume(t) \/ Cancel(t) \/ Erase(t) PROVE calls' = calls
  BY <1>1 DEF Create, Consume, Cancel, Erase
<1>2. ASSUME NEW k \in Keys, Enroll(k) \/ SweepKey(k) PROVE calls' = calls
  BY <1>2 DEF Enroll, SweepKey
<1>3. ASSUME NEW ch \in Challenges, Reserve(ch) \/ IssueSubmit(ch) \/ IssueOther(ch) PROVE calls' = calls
  BY <1>3 DEF Reserve, IssueSubmit, IssueOther
<1>4. ASSUME NEW c \in Calls, Submit(c) PROVE CallTurn(c)
  <2>1. PICK t \in Transactions, body \in Body, pc \in {"authorize", "accepted"} :
           /\ calls' = [calls EXCEPT ![c] =
                [pc |-> pc, tx |-> t, key |-> body.key, challenge |-> body.challenge, counter |-> body.counter,
                 envelope |-> body.envelope, born |-> 0, waiting |-> TRUE]]
           /\ ActionOf[c] = "submit" /\ tx[t] # None
           /\ pc = "accepted" => tx[t].body = body
    BY <1>4, SubmitFacts
  <2>2. body.key \in Keys /\ body.challenge \in Challenges /\ body.counter \in Counters /\ body.envelope \in Envelopes
        /\ body = [key |-> body.key, challenge |-> body.challenge, counter |-> body.counter, envelope |-> body.envelope]
    BY DEF Body
  <2> DEFINE q == [pc |-> pc, tx |-> t, key |-> body.key, challenge |-> body.challenge, counter |-> body.counter,
                   envelope |-> body.envelope, born |-> 0, waiting |-> TRUE]
  <2>3. q \in Call
    BY <2>2, CallType
  <2>4. /\ q.pc = pc /\ q.tx = t /\ q.key = body.key /\ q.challenge = body.challenge
        /\ q.counter = body.counter /\ q.envelope = body.envelope
    OBVIOUS
  <2>5. calls' = [calls EXCEPT ![c] = q]
    BY <2>1
  <2> HIDE DEF q
  <2>6. calls' \in [Calls -> Call] /\ calls'[c] = q /\ Alone(c)
    BY <1>a, <2>3, <2>5 DEF Alone
  <2>7. BodyOf(c)' = body
    BY <2>2, <2>4, <2>6 DEF BodyOf
  <2>8. tx' = tx /\ accepted' = accepted
    BY <1>4 DEF Submit, histories
  <2> QED BY <2>1, <2>2, <2>4, <2>6, <2>7, <2>8 DEF CallTurn
<1>5. ASSUME NEW c \in Calls, Manage(c) PROVE CallTurn(c)
  <2>1. PICK k \in Keys, ch \in Known, counter \in Counters :
          calls' = [calls EXCEPT ![c] =
            [pc |-> "authorize", tx |-> None, key |-> k, challenge |-> ch, counter |-> counter,
             envelope |-> None, born |-> 0, waiting |-> TRUE]]
    BY <1>5 DEF Manage
  <2> DEFINE q == [pc |-> "authorize", tx |-> None, key |-> k, challenge |-> ch, counter |-> counter,
                   envelope |-> None, born |-> 0, waiting |-> TRUE]
  <2>2. ch \in Challenges /\ ActionOf[c] # "submit"
    BY <1>5 DEF Manage, Known
  <2>3. q \in Call /\ q.pc = "authorize" /\ q.key = k /\ q.challenge = ch /\ q.counter = counter
    BY <2>2, CallType
  <2>4. calls' = [calls EXCEPT ![c] = q]
    BY <2>1
  <2> HIDE DEF q
  <2>5. calls' \in [Calls -> Call] /\ calls'[c] = q /\ Alone(c)
    BY <1>a, <2>3, <2>4 DEF Alone
  <2> QED BY <2>2, <2>3, <2>5 DEF CallTurn
<1>6. ASSUME NEW c \in Calls, Authorize(c) PROVE CallTurn(c)
  <2>1. PICK pc \in {"verify", "reply"} :
          calls' = [calls EXCEPT ![c].pc = pc, ![c].born = keys[calls[c].key].created]
    BY <1>6 DEF Authorize
  <2>2. calls[c].pc = "authorize" /\ keys[calls[c].key] # None /\ calls[c] \in Call
    BY <1>6, <1>a DEF Authorize, IsUsable, IsActive
  <2> DEFINE q == [calls[c] EXCEPT !.pc = pc, !.born = keys[calls[c].key].created]
  <2>3. calls' = [calls EXCEPT ![c] = q]
    BY <2>1, <2>2, <1>a
  <2>4. keys[calls[c].key].created \in Nat
    <3>1. calls[c].key \in Keys
      BY <2>2 DEF Shapes, Shape, Under
    <3> QED BY <2>2, <3>1 DEF TypeOK, Key
  <2>5. /\ q \in Call /\ q.pc = pc /\ q.tx = calls[c].tx /\ q.key = calls[c].key
        /\ q.challenge = calls[c].challenge /\ q.counter = calls[c].counter /\ q.envelope = calls[c].envelope
    BY <2>2, <2>4 DEF Call
  <2> HIDE DEF q
  <2>6. calls' \in [Calls -> Call] /\ calls'[c] = q /\ Alone(c)
    BY <1>a, <2>3, <2>5 DEF Alone
  <2> QED BY <2>2, <2>5, <2>6 DEF CallTurn, Goes
<1>7. ASSUME NEW c \in Calls, Commit(c) PROVE CallTurn(c)
  <2>1. calls[c].pc = "verify" /\ Goto(c, "reply")
    BY <1>7 DEF Commit
  <2> QED BY <2>1, GotoType DEF CallTurn, Alone, Goes
<1>8. ASSUME NEW c \in Calls, NEW pc \in {"done", "refused", "lost"}, End(c, pc) PROVE CallTurn(c)
  BY <1>8, EndType DEF CallTurn, Alone
<1>9. ASSUME NEW c \in Calls, Reply(c) PROVE CallTurn(c)
  <2>1. calls[c].pc = "reply" /\ IsCurrent(c)
        /\ (End(c, "lost") \/ End(c, "done") \/ (ActionOf[c] = "submit" /\ Goto(c, "granted")))
    BY <1>9 DEF Reply
  <2>2. CASE ActionOf[c] = "submit" /\ Goto(c, "granted")
    BY <2>1, <2>2, GotoType DEF CallTurn, Alone, Goes
  <2> QED BY <1>8, <2>1, <2>2
<1>10. ASSUME NEW c \in Calls, Accept(c) PROVE CallTurn(c)
  <2>1. calls[c].pc = "granted" /\ Goto(c, "accepted")
    BY <1>10 DEF Accept
  <2> QED BY <1>10, <2>1, GotoType DEF CallTurn, Alone, Goes
<1>11. ASSUME NEW c \in Calls, Delete(c) \/ Refuse(c) PROVE CallTurn(c)
  BY <1>8, <1>11 DEF Delete, Refuse
<1>12. ASSUME NEW c \in Calls, Restart(c) PROVE CallTurn(c)
  <2>1. CASE calls' = [calls EXCEPT ![c].waiting = FALSE]
    <3> DEFINE q == [calls[c] EXCEPT !.waiting = FALSE]
    <3>1. calls[c] \in Call /\ calls' = [calls EXCEPT ![c] = q]
      BY <1>a, <2>1
    <3>2. /\ q \in Call /\ q.pc = calls[c].pc /\ q.tx = calls[c].tx /\ q.key = calls[c].key
          /\ q.challenge = calls[c].challenge /\ q.counter = calls[c].counter /\ q.envelope = calls[c].envelope
      BY <3>1 DEF Call
    <3> HIDE DEF q
    <3>3. calls' \in [Calls -> Call] /\ calls'[c] = q /\ Alone(c)
      BY <1>a, <3>1, <3>2 DEF Alone
    <3> QED BY <3>2, <3>3 DEF CallTurn, Goes
  <2>2. End(c, "lost") \/ calls' = [calls EXCEPT ![c].waiting = FALSE]
    BY <1>12 DEF Restart
  <2> QED BY <1>8, <2>1, <2>2
<1>13. ASSUME Tick \/ UNCHANGED vars PROVE calls' = calls
  BY <1>13 DEF Tick, vars
<1> QED
  BY <1>1, <1>2, <1>3, <1>4, <1>5, <1>6, <1>7, <1>9, <1>10, <1>11, <1>12, <1>13 DEF Next

LEMMA ShapesInv ==
  ASSUME TypeOK, Shapes, Draws, [Next]_vars, GrantsKept
  PROVE  Shapes'
<1>1. ASSUME NEW d \in Calls, calls'[d] = calls[d] PROVE Shape(d)'
  <2>1. Shape(d)
    BY DEF Shapes
  <2>2. calls[d].pc \in Under =>
          /\ calls[d].key \in Keys /\ calls[d].challenge \in Challenges /\ calls[d].counter \in Counters
          /\ ActionOf[d] = "submit" => calls[d].tx \in Transactions /\ calls[d].envelope \in Envelopes
    BY <2>1 DEF Shape
  <2>3. calls[d].pc \in {"granted", "accepted"} => ActionOf[d] = "submit"
    BY <2>1 DEF Shape
  <2>4. ASSUME calls[d].pc = "granted"
        PROVE  LET grant == ops'[calls[d].challenge]
               IN /\ grant.admitted # None /\ grant.action = "submit"
                  /\ grant.key = calls[d].key /\ grant.counter = calls[d].counter
    <3>1. calls[d].challenge \in Challenges
      BY <2>2, <2>4 DEF Under
    <3> QED BY <2>1, <2>4, <3>1 DEF Shape, GrantsKept, Same
  <2> QED BY <1>1, <2>2, <2>3, <2>4 DEF Shape
<1>2. CASE calls' = calls
  BY <1>1, <1>2 DEF Shapes
<1>3. ASSUME NEW c \in Calls, CallTurn(c) PROVE Shape(c)'
  <2> USE DEF Under
  <2>0. Shape(c)
    BY DEF Shapes
  <2>1. CASE calls'[c].pc \in {"done", "refused", "lost"}
    BY <2>1 DEF Shape
  <2>2. CASE /\ calls'[c].pc = "authorize" /\ calls'[c].key \in Keys /\ calls'[c].challenge \in Challenges
             /\ calls'[c].counter \in Counters
             /\ ActionOf[c] = "submit" => calls'[c].tx \in Transactions /\ calls'[c].envelope \in Envelopes
    BY <2>2 DEF Shape
  <2>3. CASE /\ calls'[c].pc = "accepted" /\ ActionOf[c] = "submit" /\ calls'[c].tx \in Transactions
             /\ BodyOf(c)' \in Body
    <3>1. /\ calls'[c].key \in Keys /\ calls'[c].challenge \in Challenges
          /\ calls'[c].counter \in Counters /\ calls'[c].envelope \in Envelopes
      BY <2>3 DEF BodyOf, Body
    <3> QED BY <2>3, <3>1 DEF Shape
  <2>4. CASE calls[c].pc \in {"authorize", "verify", "reply"} /\ calls'[c].pc \in {"verify", "reply"} /\ Goes(c)
    BY <2>0, <2>4 DEF Shape, Goes
  <2>5. CASE calls'[c].pc = calls[c].pc /\ Goes(c)
    <3>1. calls[c].pc = "granted" =>
            LET grant == ops'[calls[c].challenge]
            IN /\ grant.admitted # None /\ grant.action = "submit"
               /\ grant.key = calls[c].key /\ grant.counter = calls[c].counter
      BY <2>0 DEF Shape, GrantsKept, Same
    <3> QED BY <2>0, <2>5, <3>1 DEF Shape, Goes
  <2>6. CASE /\ calls[c].pc = "reply" /\ calls'[c].pc = "granted" /\ Goes(c)
             /\ ActionOf[c] = "submit" /\ IsCurrent(c)
    <3> DEFINE ch == calls[c].challenge
    <3>1. ch \in Challenges
      BY <2>0, <2>6 DEF Shape
    <3>2. /\ ops[ch].status = "authorized" /\ ops[ch].counter = calls[c].counter
          /\ ops[ch].key = calls[c].key /\ ops[ch].action = "submit"
      BY <2>6 DEF IsCurrent, IsUsable
    <3>3. ops[ch].admitted # None
      BY <3>1, <3>2 DEF Draws, Drawn
    <3>4. /\ ops'[ch].admitted # None /\ ops'[ch].counter = calls[c].counter
          /\ ops'[ch].key = calls[c].key /\ ops'[ch].action = "submit"
      BY <3>1, <3>2, <3>3 DEF GrantsKept, Same
    <3> QED BY <2>0, <2>6, <3>4 DEF Shape, Goes
  <2>7. CASE calls[c].pc = "granted" /\ calls'[c].pc = "accepted" /\ Goes(c)
    BY <2>0, <2>7 DEF Shape, Goes
  <2> QED BY <1>3, <2>1, <2>2, <2>3, <2>4, <2>5, <2>6, <2>7 DEF CallTurn
<1>4. ASSUME NEW c \in Calls, CallTurn(c) PROVE Shapes'
  BY <1>1, <1>3, <1>4 DEF Shapes, CallTurn, Alone
<1> QED BY <1>2, <1>4, CallTurns

-----------------------------------------------------------------------------
\* The transactions.
Only(t) ==
  \A s \in Transactions \ {t} :
    tx'[s] = tx[s] /\ accepted'[s] = accepted[s] /\ delivered'[s] = delivered[s] /\ stopped'[s] = stopped[s]
Untold(t) == accepted'[t] = accepted[t] /\ delivered'[t] = delivered[t] /\ stopped'[t] = stopped[t]

Opens(t) ==
  /\ tx[t] = None /\ now < Deadline[t] /\ Untold(t)
  /\ tx'[t] # None /\ tx'[t].state = "pending" /\ tx'[t].envelope = None /\ tx'[t].body = None
Reserves(t) ==
  /\ tx[t] # None /\ tx'[t] # None /\ Untold(t)
  /\ tx'[t].state = tx[t].state /\ tx'[t].envelope = tx[t].envelope /\ tx'[t].body = tx[t].body
Delivers(t) ==
  /\ tx[t] # None /\ tx[t].state = "ready" /\ delivered'[t] = <<tx[t].envelope>>
  /\ tx'[t] # None /\ tx'[t].state = "consumed" /\ tx'[t].envelope = None /\ tx'[t].body = tx[t].body
  /\ accepted'[t] = accepted[t] /\ stopped'[t] = stopped[t]
Stops(t) ==
  /\ tx[t] # None /\ tx[t].state # "consumed" /\ stopped'[t] = TRUE
  /\ tx'[t] # None /\ tx'[t].state = "cancelled" /\ tx'[t].envelope = None /\ tx'[t].body = tx[t].body
  /\ accepted'[t] = accepted[t] /\ delivered'[t] = delivered[t]
Expires(t) == tx'[t] = None /\ now >= Deadline[t] /\ Untold(t)
Wins(t, c) ==
  /\ calls[c].pc = "granted" /\ calls[c].tx = t /\ tx[t] # None /\ tx[t].state = "pending" /\ Covers(c)
  /\ tx'[t] # None /\ tx'[t].state = "ready" /\ tx'[t].envelope = calls[c].envelope
  /\ tx'[t].body = BodyOf(c) /\ accepted'[t] = [body |-> BodyOf(c), at |-> now]
  /\ delivered'[t] = delivered[t] /\ stopped'[t] = stopped[t]
  /\ ops' = ops /\ ended' = ended /\ now' = now

RowTurn(t) ==
  /\ Only(t)
  /\ \/ Opens(t) \/ Reserves(t) \/ Delivers(t) \/ Stops(t) \/ Expires(t)
     \/ \E c \in Calls : Wins(t, c)

Told ==
  /\ tx \in [Transactions -> Row \cup {None}] /\ accepted \in [Transactions -> Acceptance \cup {None}]
  /\ delivered \in [Transactions -> Seq(Envelopes)] /\ stopped \in [Transactions -> BOOLEAN]

\* What a call that was granted says.
LEMMA GrantedBody ==
  ASSUME TypeOK, NEW c \in Calls, Shape(c), calls[c].pc = "granted"
  PROVE  BodyOf(c) \in Body /\ calls[c].tx \in Transactions /\ calls[c].envelope \in Envelopes
         /\ BodyOf(c).envelope = calls[c].envelope /\ BodyOf(c).key = calls[c].key
         /\ BodyOf(c).challenge = calls[c].challenge /\ BodyOf(c).counter = calls[c].counter
BY DEF Shape, Under, BodyOf, Body

LEMMA RowTurns ==
  ASSUME TypeOK, Shapes, Outcomes, [Next]_vars
  PROVE  Told' /\ (UNCHANGED <<tx, accepted, delivered, stopped>> \/ \E t \in Transactions : RowTurn(t))
<1> DEFINE Rest == UNCHANGED <<tx, accepted, delivered, stopped>>
           Turned == Told' /\ (Rest \/ \E t \in Transactions : RowTurn(t))
<1>a. Told
  BY DEF TypeOK, Told
<1>0. ASSUME Rest PROVE Turned
  BY <1>0, <1>a DEF Told
<1>b. ASSUME NEW t \in Transactions, NEW row \in Row, tx' = [tx EXCEPT ![t] = row]
      PROVE  /\ tx' \in [Transactions -> Row \cup {None}] /\ tx'[t] = row /\ tx'[t] # None
             /\ \A s \in Transactions \ {t} : tx'[s] = tx[s]
  BY <1>a, <1>b DEF Told
<1>1. ASSUME NEW t \in Transactions, Create(t) PROVE Turned
  <2> DEFINE row == [state |-> "pending", envelope |-> None, body |-> None, reserved |-> 0]
  <2>1. row \in Row /\ row.state = "pending" /\ row.envelope = None /\ row.body = None
    BY DEF Row
  <2>2. /\ now < Deadline[t] /\ tx[t] = None /\ tx' = [tx EXCEPT ![t] = row]
        /\ accepted' = accepted /\ delivered' = delivered /\ stopped' = stopped
    BY <1>1 DEF Create, histories
  <2> HIDE DEF row
  <2>3. Told' /\ Only(t)
    BY <1>a, <1>b, <2>1, <2>2 DEF Told, Only
  <2>4. Opens(t)
    BY <1>b, <2>1, <2>2 DEF Opens, Untold
  <2> QED BY <2>3, <2>4 DEF RowTurn
<1>2. ASSUME NEW t \in Transactions, Consume(t) PROVE Turned
  <2> DEFINE row == [tx[t] EXCEPT !.state = "consumed", !.envelope = None]
  <2>1. tx[t] \in Row /\ tx[t] # None /\ tx[t].state = "ready"
    BY <1>2, <1>a DEF Consume, IsOpen, Told
  <2>2. row \in Row /\ row.state = "consumed" /\ row.envelope = None /\ row.body = tx[t].body
    BY <2>1 DEF Row
  <2>3. /\ tx' = [tx EXCEPT ![t] = row] /\ accepted' = accepted /\ stopped' = stopped
        /\ delivered' = [delivered EXCEPT ![t] = Append(delivered[t], tx[t].envelope)]
    BY <1>2, <1>a DEF Consume, Told
  <2>4. tx[t].envelope \in Envelopes
    <3>1. tx[t].envelope # None
      BY <2>1 DEF TypeOK
    <3> QED BY <2>1, <3>1 DEF Row
  <2>5. delivered[t] = <<>>
    BY <2>1 DEF Outcomes, Outcome
  <2>6. Append(delivered[t], tx[t].envelope) = <<tx[t].envelope>> /\ <<tx[t].envelope>> \in Seq(Envelopes)
    BY <2>4, <2>5
  <2> HIDE DEF row
  <2>7. Told' /\ Only(t)
    BY <1>a, <1>b, <2>2, <2>3, <2>6 DEF Told, Only
  <2>8. delivered'[t] = <<tx[t].envelope>>
    BY <1>a, <2>3, <2>6 DEF Told
  <2>9. Delivers(t)
    BY <1>b, <2>1, <2>2, <2>3, <2>8 DEF Delivers
  <2> QED BY <2>7, <2>9 DEF RowTurn
<1>3. ASSUME NEW t \in Transactions, Cancel(t) PROVE Turned
  <2> DEFINE row == [tx[t] EXCEPT !.state = "cancelled", !.envelope = None]
  <2>1. tx[t] \in Row /\ tx[t] # None /\ tx[t].state # "consumed"
    BY <1>3, <1>a DEF Cancel, IsOpen, Told
  <2>2. row \in Row /\ row.state = "cancelled" /\ row.envelope = None /\ row.body = tx[t].body
    BY <2>1 DEF Row
  <2>3. /\ tx' = [tx EXCEPT ![t] = row] /\ accepted' = accepted /\ delivered' = delivered
        /\ stopped' = [stopped EXCEPT ![t] = TRUE]
    BY <1>3, <1>a DEF Cancel, Told
  <2> HIDE DEF row
  <2>4. Told' /\ Only(t)
    BY <1>a, <1>b, <2>2, <2>3 DEF Told, Only
  <2>5. stopped'[t] = TRUE
    BY <1>a, <2>3 DEF Told
  <2>6. Stops(t)
    BY <1>b, <2>1, <2>2, <2>3, <2>5 DEF Stops
  <2> QED BY <2>4, <2>6 DEF RowTurn
<1>4. ASSUME NEW t \in Transactions, Erase(t) PROVE Turned
  <2>1. /\ tx' = [tx EXCEPT ![t] = None] /\ now >= Deadline[t]
        /\ accepted' = accepted /\ delivered' = delivered /\ stopped' = stopped
    BY <1>4 DEF Erase, histories
  <2>2. Told' /\ Only(t) /\ Expires(t)
    BY <1>a, <2>1 DEF Told, Only, Expires, Untold
  <2> QED BY <2>2 DEF RowTurn
<1>5. ASSUME NEW ch \in Challenges, Reserve(ch) PROVE Turned
  <2>1. PICK t \in Transactions : tx[t] # None /\ tx' = [tx EXCEPT ![t].reserved = tx[t].reserved + 1]
    BY <1>5 DEF Reserve, IsOpen
  <2> DEFINE row == [tx[t] EXCEPT !.reserved = tx[t].reserved + 1]
  <2>2. tx[t] \in Row /\ tx' = [tx EXCEPT ![t] = row]
    BY <1>a, <2>1 DEF Told
  <2>3. row \in Row /\ row.state = tx[t].state /\ row.envelope = tx[t].envelope /\ row.body = tx[t].body
    BY <2>2 DEF Row
  <2>4. accepted' = accepted /\ delivered' = delivered /\ stopped' = stopped
    BY <1>5 DEF Reserve, histories
  <2> HIDE DEF row
  <2>5. Told' /\ Only(t)
    BY <1>a, <1>b, <2>2, <2>3, <2>4 DEF Told, Only
  <2>6. Reserves(t)
    BY <1>b, <2>1, <2>2, <2>3, <2>4 DEF Reserves, Untold
  <2> QED BY <2>5, <2>6 DEF RowTurn
<1>6. ASSUME NEW c \in Calls, Accept(c) PROVE Turned
  <2> DEFINE t == calls[c].tx
             row == [tx[t] EXCEPT !.state = "ready", !.envelope = calls[c].envelope, !.body = BodyOf(c)]
             won == [body |-> BodyOf(c), at |-> now]
  <2>0. Shape(c) /\ calls[c].pc = "granted" /\ now \in Nat
    BY <1>6 DEF Accept, Shapes, TypeOK
  <2>1. BodyOf(c) \in Body /\ t \in Transactions /\ calls[c].envelope \in Envelopes
    BY <2>0, GrantedBody
  <2>2. /\ tx[t] # None /\ tx[t].state = "pending" /\ Covers(c)
        /\ tx' = [tx EXCEPT ![t] = row] /\ accepted' = [accepted EXCEPT ![t] = won]
        /\ ops' = ops /\ now' = now /\ delivered' = delivered /\ stopped' = stopped /\ ended' = ended
    BY <1>6 DEF Accept, IsOpen
  <2>3. tx[t] \in Row
    BY <1>a, <2>1, <2>2 DEF Told
  <2>4. row \in Row /\ row.state = "ready" /\ row.envelope = calls[c].envelope /\ row.body = BodyOf(c)
    <3> DEFINE b == BodyOf(c)
    <3>1. b \in Body
      BY <2>1
    <3> HIDE DEF b, t
    <3>2. LET r == [tx[t] EXCEPT !.state = "ready", !.envelope = calls[c].envelope, !.body = b]
          IN r \in Row /\ r.state = "ready" /\ r.envelope = calls[c].envelope /\ r.body = b
      BY <2>1, <2>3, <3>1 DEF Row
    <3> QED BY <3>2 DEF b
  <2>5. won \in Acceptance
    BY <2>0, <2>1 DEF Acceptance
  <2> HIDE DEF t, row, won
  <2>6. Told' /\ Only(t) /\ accepted'[t] = won
    BY <1>a, <1>b, <2>1, <2>2, <2>4, <2>5 DEF Told, Only
  <2>7. Wins(t, c)
    BY <1>b, <2>0, <2>1, <2>2, <2>4, <2>6 DEF Wins, t, won
  <2> QED BY <2>1, <2>6, <2>7 DEF RowTurn
<1>7. ASSUME NEW k \in Keys, Enroll(k) \/ SweepKey(k) PROVE Rest
  BY <1>7 DEF Enroll, SweepKey, histories
<1>8. ASSUME NEW ch \in Challenges, IssueSubmit(ch) \/ IssueOther(ch) PROVE Rest
  BY <1>8 DEF IssueSubmit, IssueOther, histories
<1>9. ASSUME NEW c \in Calls,
             \/ Submit(c) \/ Manage(c) \/ Authorize(c) \/ Commit(c) \/ Delete(c)
             \/ Reply(c) \/ Refuse(c) \/ Restart(c)
      PROVE  Rest
  BY <1>9 DEF Submit, Manage, Authorize, Commit, Delete, Reply, Refuse, Restart, histories
<1>10. ASSUME Tick \/ UNCHANGED vars PROVE Rest
  BY <1>10 DEF Tick, vars, histories
<1> HIDE DEF Rest, Turned
<1>11. Turned
  BY <1>0, <1>1, <1>2, <1>3, <1>4, <1>5, <1>6, <1>7, <1>8, <1>9, <1>10 DEF Next
<1> QED BY <1>11 DEF Turned, Rest

LEMMA TypeInv ==
  ASSUME TypeOK, Shapes, Draws, Lives, Outcomes, [Next]_vars
  PROVE  TypeOK'
<1>1. calls' \in [Calls -> Call]
  <2>1. calls' = calls => calls' \in [Calls -> Call]
    BY DEF TypeOK
  <2> QED BY <2>1, CallTurns DEF CallTurn
<1>2. ASSUME NEW t \in Transactions PROVE Sealed(t)'
  <2>1. ASSUME tx'[t] = tx[t] PROVE Sealed(t)'
    BY <2>1 DEF TypeOK, Sealed
  <2>2. CASE UNCHANGED <<tx, accepted, delivered, stopped>>
    BY <2>1, <2>2
  <2>3. ASSUME NEW s \in Transactions, RowTurn(s) PROVE Sealed(t)'
    <3>1. CASE t # s
      BY <2>1, <2>3, <3>1 DEF RowTurn, Only
    <3>2. CASE t = s
      <4>1. CASE Opens(t) \/ Delivers(t) \/ Stops(t) \/ Expires(t)
        BY <4>1 DEF Opens, Delivers, Stops, Expires, Sealed
      <4>2. CASE Reserves(t)
        BY <4>2 DEF Reserves, Sealed, TypeOK
      <4>3. ASSUME NEW c \in Calls, Wins(t, c) PROVE Sealed(t)'
        <5>1. calls[c].envelope \in Envelopes
          BY <4>3, GrantedBody DEF Wins, Shapes
        <5>2. calls[c].envelope # None
          BY <5>1
        <5> QED BY <4>3, <5>2 DEF Wins, Sealed
      <4> QED BY <2>3, <3>2, <4>1, <4>2, <4>3 DEF RowTurn
    <3> QED BY <3>1, <3>2
  <2> QED BY <2>2, <2>3, RowTurns
<1>3. Told'
  BY RowTurns
<1>4. Types'
  BY <1>1, <1>3, KeyTypes DEF Types, Told
<1> QED BY <1>2, <1>4 DEF TypeOK, Types, Sealed

LEMMA Later ==
  ASSUME TypeOK, KeyTurn
  PROVE  now \in Nat /\ now' \in Nat /\ now <= now'
<1>1. now \in Nat
  BY DEF TypeOK
<1>2. now' = now \/ now' = now + 1
  <2>1. ASSUME NEW c \in Calls, Admit(c) \/ Finish(c) PROVE now' = now
    BY <2>1 DEF Admit, Finish
  <2>2. ASSUME NEW ch \in Challenges, Draw(ch) PROVE now' = now
    BY <2>2 DEF Draw
  <2>3. ASSUME NEW k \in Keys, Begin(k) PROVE now' = now
    BY <2>3 DEF Begin
  <2> QED BY <2>1, <2>2, <2>3 DEF KeyTurn, Quiet, Ticks
<1> QED BY <1>1, <1>2

\* An acceptance stays covered.
LEMMA CoveredKept ==
  ASSUME TypeOK, GrantsKept, now \in Nat, now' \in Nat, now <= now',
         NEW t \in Transactions, accepted[t] # None, Covered(t), accepted'[t] = accepted[t]
  PROVE  Covered(t)'
<1> DEFINE body == accepted[t].body
           ch == body.challenge
<1>1. body \in Body /\ accepted[t].at \in Nat
  BY DEF TypeOK, Acceptance
<1>2. ch \in Challenges
  BY <1>1 DEF Body
<1>3. /\ accepted[t].at <= now /\ ops[ch].envelope = body.envelope /\ ops[ch].tx = t
      /\ ops[ch].key = body.key /\ ops[ch].counter = body.counter
      /\ ops[ch].admitted # None /\ ops[ch].admitted <= accepted[t].at
  BY DEF Covered
<1>4. Same(ops[ch], ops'[ch])
  BY <1>2, <1>3 DEF GrantsKept
<1>5. /\ accepted'[t].at <= now' /\ ops'[ch].envelope = body.envelope /\ ops'[ch].tx = t
      /\ ops'[ch].key = body.key /\ ops'[ch].counter = body.counter
      /\ ops'[ch].admitted # None /\ ops'[ch].admitted <= accepted'[t].at
  <2>1. accepted'[t].at <= now'
    BY <1>1, <1>3
  <2> HIDE DEF body, ch
  <2> QED BY <1>3, <1>4, <2>1 DEF Same
<1>6. accepted'[t].body = body
  OBVIOUS
<1> QED BY <1>5, <1>6 DEF Covered

LEMMA OutcomesInv ==
  ASSUME TypeOK, TypeOK', Shapes, Draws, Outcomes, KeyTurn, GrantsKept, [Next]_vars
  PROVE  Outcomes'
<1> SUFFICES ASSUME NEW t \in Transactions PROVE Outcome(t)'
  BY DEF Outcomes
<1>0. Outcome(t) /\ now \in Nat /\ now' \in Nat /\ now <= now' /\ Deadline[t] \in Nat
  BY Later DEF Outcomes
<1>a. accepted[t] # None => Covered(t)
  BY <1>0 DEF Outcome
<1>b. ASSUME accepted'[t] = accepted[t] PROVE accepted'[t] # None => Covered(t)'
  BY <1>0, <1>a, <1>b, CoveredKept
<1>1. ASSUME Untold(t), tx'[t] = tx[t] PROVE Outcome(t)'
  <2>1. accepted'[t] # None => Covered(t)'
    BY <1>1, <1>b DEF Untold
  <2> HIDE DEF Covered
  <2> QED BY <1>0, <1>1, <2>1 DEF Outcome, Untold
<1>2. CASE UNCHANGED <<tx, accepted, delivered, stopped>>
  BY <1>1, <1>2 DEF Untold
<1>3. ASSUME NEW s \in Transactions, RowTurn(s), s # t PROVE Outcome(t)'
  BY <1>1, <1>3 DEF RowTurn, Only, Untold
<1>4. CASE Opens(t)
  <2>1. accepted[t] = None /\ delivered[t] = <<>> /\ ~stopped[t]
    BY <1>0, <1>4 DEF Opens, Outcome
  <2> QED BY <1>4, <2>1 DEF Opens, Outcome, Untold
<1>5. CASE Reserves(t)
  <2>1. accepted'[t] # None => Covered(t)'
    BY <1>5, <1>b DEF Reserves, Untold
  <2> QED BY <1>0, <1>5, <2>1 DEF Reserves, Outcome, Untold
<1>6. CASE Delivers(t)
  <2>1. accepted'[t] # None => Covered(t)'
    BY <1>6, <1>b DEF Delivers
  <2>2. accepted[t] # None /\ tx[t].envelope = accepted[t].body.envelope /\ ~stopped[t]
        /\ tx[t].body = accepted[t].body
    BY <1>0, <1>6 DEF Delivers, Outcome
  <2> QED BY <1>6, <2>1, <2>2 DEF Delivers, Outcome
<1>7. CASE Stops(t)
  <2>1. accepted'[t] # None => Covered(t)'
    BY <1>7, <1>b DEF Stops
  <2>2. delivered[t] = <<>>
    BY <1>0, <1>7 DEF Stops, Outcome
  <2> QED BY <1>0, <1>7, <2>1, <2>2 DEF Stops, Outcome
<1>8. CASE Expires(t)
  <2>1. accepted'[t] # None => Covered(t)'
    BY <1>8, <1>b DEF Expires, Untold
  <2>2. now' >= Deadline[t]
    BY <1>0, <1>8 DEF Expires
  <2> QED BY <1>0, <1>8, <2>1, <2>2 DEF Expires, Outcome, Untold
<1>9. ASSUME NEW c \in Calls, Wins(t, c) PROVE Outcome(t)'
  <2> DEFINE ch == calls[c].challenge
             b == BodyOf(c)
  <2>1. Shape(c) /\ calls[c].pc = "granted" /\ calls[c].tx = t /\ Covers(c)
    BY <1>9 DEF Wins, Shapes
  <2>2. /\ b.envelope = calls[c].envelope /\ b.key = calls[c].key
        /\ b.challenge = ch /\ b.counter = calls[c].counter /\ b \in Body
    BY <2>1, GrantedBody
  <2>3. ch \in Challenges
    BY <2>2 DEF Body
  <2>4. /\ ops[ch].tx = t /\ ops[ch].envelope = calls[c].envelope /\ ops[ch].admitted # None
        /\ ops[ch].key = calls[c].key /\ ops[ch].counter = calls[c].counter
    BY <2>1 DEF Covers, Shape
  <2>5. ops[ch].admitted <= now
    BY <2>3, <2>4 DEF Draws, Drawn
  <2>6. /\ accepted[t] = None /\ ~stopped[t] /\ delivered[t] = <<>>
    BY <1>0, <1>9 DEF Wins, Outcome
  <2>7. accepted'[t] # None
    <3>1. [body |-> b, at |-> now] \in Acceptance
      BY <1>0, <2>2 DEF Acceptance
    <3> QED BY <1>9, <3>1 DEF Wins
  <2>8. accepted'[t].body = b /\ accepted'[t].at = now /\ ops' = ops /\ now' = now
    BY <1>9 DEF Wins
  <2> HIDE DEF b, ch
  <2>9. Covered(t)'
    BY <1>0, <2>2, <2>4, <2>5, <2>8 DEF Covered
  <2>10. /\ tx'[t] # None /\ tx'[t].state = "ready" /\ tx'[t].envelope = b.envelope /\ tx'[t].body = b
         /\ delivered'[t] = <<>> /\ ~stopped'[t]
    BY <1>9, <2>2, <2>6 DEF Wins, b
  <2> QED BY <2>7, <2>8, <2>9, <2>10 DEF Outcome
<1> QED
  BY <1>2, <1>3, <1>4, <1>5, <1>6, <1>7, <1>8, <1>9, RowTurns DEF RowTurn

\* What was accepted is not accepted again.
LEMMA AcceptedKept ==
  ASSUME TypeOK, Shapes, Outcomes, [Next]_vars
  PROVE  \A t \in Transactions :
           \/ accepted'[t] = accepted[t]
           \/ accepted[t] = None /\ \E c \in Calls : Wins(t, c)
<1> SUFFICES ASSUME NEW t \in Transactions, accepted'[t] # accepted[t]
             PROVE  accepted[t] = None /\ \E c \in Calls : Wins(t, c)
  OBVIOUS
<1>1. PICK s \in Transactions : RowTurn(s)
  BY RowTurns
<1>2. s = t
  BY <1>1 DEF RowTurn, Only
<1>3. PICK c \in Calls : Wins(t, c)
  BY <1>1, <1>2 DEF RowTurn, Opens, Reserves, Delivers, Stops, Expires, Untold
<1>4. accepted[t] = None
  BY <1>3 DEF Wins, Outcomes, Outcome
<1> QED BY <1>3, <1>4

LEMMA OneWinnerInv ==
  ASSUME TypeOK, TypeOK', Shapes, Outcomes, OneWinner, [Next]_vars
  PROVE  OneWinner'
<1>1. ASSUME NEW t \in Transactions, accepted[t] # None
      PROVE  accepted'[t] = accepted[t]
  BY <1>1, AcceptedKept
<1>2. ASSUME NEW c \in Calls, calls[c].pc = "accepted"
      PROVE  /\ calls[c].tx \in Transactions /\ accepted'[calls[c].tx] # None
             /\ accepted'[calls[c].tx].body = BodyOf(c)
  <2>1. calls[c].tx \in Transactions
    BY <1>2 DEF Shapes, Shape, Under
  <2> QED BY <1>1, <1>2, <2>1 DEF OneWinner
<1>3. ASSUME NEW c \in Calls, calls'[c].pc = "accepted", calls'[c].pc = calls[c].pc,
             calls'[c] = calls[c] \/ Goes(c)
      PROVE  accepted'[calls'[c].tx] # None /\ accepted'[calls'[c].tx].body = BodyOf(c)'
  <2>1. calls'[c].tx = calls[c].tx /\ BodyOf(c)' = BodyOf(c)
    BY <1>3 DEF Goes, BodyOf
  <2> QED BY <1>2, <1>3, <2>1
<1>4. ASSUME NEW c \in Calls, CallTurn(c), calls'[c].pc = "accepted"
      PROVE  accepted'[calls'[c].tx] # None /\ accepted'[calls'[c].tx].body = BodyOf(c)'
  <2>1. CASE /\ calls'[c].tx \in Transactions /\ BodyOf(c)' \in Body
             /\ tx[calls'[c].tx] # None /\ tx[calls'[c].tx].body = BodyOf(c)'
             /\ accepted' = accepted
    <3> DEFINE t == calls'[c].tx
               b == BodyOf(c)'
    <3>1. b # None /\ tx[t].body = b /\ tx[t] # None /\ t \in Transactions
      BY <2>1
    <3>2. Outcome(t)
      BY <3>1 DEF Outcomes
    <3> HIDE DEF t, b
    <3>3. accepted[t] # None /\ accepted[t].body = b
      BY <3>1, <3>2 DEF Outcome
    <3> QED BY <2>1, <3>3 DEF t, b
  <2>2. CASE calls[c].pc = "granted" /\ Goes(c) /\ Accept(c)
    <3> DEFINE t == calls[c].tx
               b == BodyOf(c)
    <3>1. t \in Transactions /\ b \in Body
      BY <2>2, GrantedBody DEF Shapes
    <3>2. accepted' = [accepted EXCEPT ![t] = [body |-> b, at |-> now]]
      BY <2>2 DEF Accept
    <3>3. [body |-> b, at |-> now] \in Acceptance /\ accepted \in [Transactions -> Acceptance \cup {None}]
      BY <3>1 DEF Acceptance, TypeOK
    <3> HIDE DEF b, t
    <3>4. accepted'[t] # None /\ accepted'[t].body = b
      BY <3>1, <3>2, <3>3
    <3>5. calls'[c].tx = t /\ BodyOf(c)' = b
      BY <2>2 DEF Goes, BodyOf, t, b
    <3> QED BY <3>4, <3>5
  <2>3. CASE calls'[c].pc = calls[c].pc /\ Goes(c)
    BY <1>3, <1>4, <2>3
  <2> QED BY <1>4, <2>1, <2>2, <2>3 DEF CallTurn
<1>5. ASSUME NEW c \in Calls, calls'[c].pc = "accepted"
      PROVE  accepted'[calls'[c].tx] # None /\ accepted'[calls'[c].tx].body = BodyOf(c)'
  <2>1. CASE calls' = calls
    BY <1>3, <1>5, <2>1
  <2>2. ASSUME NEW d \in Calls, CallTurn(d), d # c
        PROVE  accepted'[calls'[c].tx] # None /\ accepted'[calls'[c].tx].body = BodyOf(c)'
    <3>1. calls'[c] = calls[c]
      BY <2>2 DEF CallTurn, Alone
    <3> QED BY <1>3, <1>5, <3>1
  <2> QED BY <1>4, <1>5, <2>1, <2>2, CallTurns
<1> QED BY <1>5 DEF OneWinner

LEMMA LeaseInv ==
  ASSUME TypeOK, TypeOK', Shapes, Draws, Lives, Outcomes, LeaseBounded, KeyTurn, [Next]_vars
  PROVE  LeaseBounded'
<1> SUFFICES ASSUME NEW t \in Transactions, accepted'[t] # None, ended'[accepted'[t].body.key] # None
             PROVE  accepted'[t].at < ended'[accepted'[t].body.key] + Lease
  BY DEF LeaseBounded
<1> DEFINE k == accepted'[t].body.key
<1>0. now \in Nat /\ accepted'[t].at \in Nat /\ k \in Keys /\ ended'[k] \in Nat
      /\ ended[k] \in Nat \cup {None}
  BY DEF TypeOK, Acceptance, Body
<1>1. CASE accepted'[t] = accepted[t]
  <2>1. accepted[t].at <= now
    BY <1>1 DEF Outcomes, Outcome, Covered
  <2>2. ended[k] # None => accepted[t].at < ended[k] + Lease
    BY <1>1 DEF LeaseBounded
  <2> HIDE DEF k
  <2>3. ended'[k] = ended[k] \/ ended'[k] = now \/ ended'[k] = None
    <3>1. ASSUME NEW c \in Calls, Admit(c) \/ Finish(c) PROVE ended'[k] \in {ended[k], now}
      <4>1. CASE Admit(c)
        BY <4>1 DEF Admit
      <4>2. CASE Finish(c)
        BY <1>0, <4>2, FinishKey
      <4> QED BY <3>1, <4>1, <4>2
    <3>2. ASSUME NEW ch \in Challenges, Draw(ch) PROVE ended' = ended
      BY <3>2 DEF Draw
    <3>3. ASSUME NEW j \in Keys, Begin(j) PROVE ended'[k] \in {ended[k], None}
      BY <1>0, <3>3, BeginKey
    <3> QED BY <3>1, <3>2, <3>3 DEF KeyTurn, Quiet, Ticks
  <2> QED BY <1>0, <1>1, <2>1, <2>2, <2>3 DEF k
<1>2. ASSUME NEW c \in Calls, Wins(t, c) PROVE accepted'[t].at < ended'[k] + Lease
  <2> DEFINE ch == calls[c].challenge
  <2>1. /\ Shape(c) /\ calls[c].pc = "granted" /\ Covers(c) /\ ops' = ops /\ ended' = ended
        /\ accepted'[t] = [body |-> BodyOf(c), at |-> now]
    BY <1>2 DEF Wins, Shapes
  <2>2. accepted'[t].at = now /\ accepted'[t].body.key = calls[c].key
    BY <2>1 DEF BodyOf
  <2>3. ch \in Challenges /\ ops[ch].admitted # None /\ ops[ch].action = "submit"
        /\ ops[ch].key = k /\ now < ops[ch].until
    BY <2>1, <2>2 DEF Shape, Under, Covers
  <2>4. ops[ch].until <= ops[ch].admitted + Lease /\ (ended[k] # None => ops[ch].admitted <= ended[k])
    BY <2>3 DEF Draws, Drawn
  <2>5. ops[ch].admitted \in Nat /\ ops[ch].until \in Nat
    BY <2>3 DEF TypeOK, Operation
  <2> HIDE DEF ch, k
  <2> QED BY <1>0, <2>1, <2>2, <2>3, <2>4, <2>5
<1> QED BY <1>1, <1>2, AcceptedKept

-----------------------------------------------------------------------------
LEMMA InitIInv == Init => IInv
<1> SUFFICES ASSUME Init PROVE IInv
  OBVIOUS
<1>1. TypeOK
  <2>1. Unused \in Operation /\ Idle \in Call /\ <<>> \in Seq(Envelopes)
    BY DEF Unused, Operation, Idle, Call, Actions
  <2> QED BY <2>1 DEF Init, TypeOK
<1>2. Shapes
  BY DEF Init, Shapes, Shape, Under, Idle
<1>3. Draws /\ CounterOnce
  BY DEF Init, Draws, Drawn, Unused, CounterOnce
<1>4. Lives /\ Outcomes /\ OneWinner /\ LeaseBounded
  BY DEF Init, Lives, Living, Outcomes, Outcome, OneWinner, LeaseBounded, Idle
<1> QED BY <1>1, <1>2, <1>3, <1>4 DEF IInv, KeyInv

LEMMA Inductive == IInv /\ [Next]_vars => IInv'
<1> SUFFICES ASSUME IInv, [Next]_vars PROVE IInv'
  OBVIOUS
<1>0. TypeOK /\ Shapes /\ Draws /\ Lives /\ CounterOnce /\ Outcomes /\ OneWinner /\ LeaseBounded
  BY DEF IInv, KeyInv
<1>1. KeyTurn
  BY <1>0, Turn
<1>2. GrantsKept
  BY <1>0, <1>1, TurnKeepsGrants
<1>3. TypeOK'
  BY <1>0, TypeInv
<1>4. Shapes'
  BY <1>0, <1>2, ShapesInv
<1>5. Draws' /\ Lives' /\ CounterOnce'
  BY <1>0, <1>1, <1>3, DrawsInv, LivesInv, CounterInv
<1>6. Outcomes'
  BY <1>0, <1>1, <1>2, <1>3, OutcomesInv
<1>7. OneWinner' /\ LeaseBounded'
  BY <1>0, <1>1, <1>3, OneWinnerInv, LeaseInv
<1> QED BY <1>3, <1>4, <1>5, <1>6, <1>7 DEF IInv, KeyInv

\* The inductive invariant holds in every state.
THEOREM Invariant == Spec => []IInv
BY InitIInv, Inductive, PTL DEF Spec

\* A transaction has one outcome, whichever submissions, consumptions,
\* cancellations and deletions of keys overlap (transaction-state.ts): all who
\* are told of an acceptance said the same, at most one browser receives what
\* was accepted, nobody after a cancellation, and the key that authorized it was
\* not deleted more than a lease before.
THEOREM TransactionHasOneOutcome == Spec => []OneOutcome
<1>1. IInv => OneOutcome
  <2> SUFFICES ASSUME IInv PROVE OneOutcome
    OBVIOUS
  <2>1. TypeOK /\ Outcomes /\ OneWinner /\ LeaseBounded
    BY DEF IInv
  <2>2. CancelHolds
    BY <2>1 DEF CancelHolds, Outcomes, Outcome
  <2>3. OneDelivery
    <3> SUFFICES ASSUME NEW t \in Transactions, delivered[t] # <<>>
                 PROVE  /\ Len(delivered[t]) = 1 /\ accepted[t] # None
                        /\ LET body == accepted[t].body
                               grant == ops[body.challenge]
                           IN /\ delivered[t][1] = body.envelope /\ grant.envelope = body.envelope
                              /\ grant.tx = t /\ grant.key = body.key /\ grant.counter = body.counter
                              /\ grant.admitted # None /\ grant.admitted <= accepted[t].at
      BY DEF OneDelivery
    <3>1. accepted[t] # None /\ delivered[t] = <<accepted[t].body.envelope>> /\ Covered(t)
      BY <2>1 DEF Outcomes, Outcome
    <3>2. Len(delivered[t]) = 1 /\ delivered[t][1] = accepted[t].body.envelope
      BY <3>1
    <3> QED BY <3>1, <3>2 DEF Covered
  <2> QED BY <2>1, <2>2, <2>3 DEF OneOutcome
<1> QED BY <1>1, Invariant, PTL

\* No counter of a key admits two operations, in whatever order the answers of
\* overlapping authorizations are committed, and the key has counted every
\* operation it admitted (assertion-key-state.ts).
THEOREM CountersCountOnce == Spec => []CounterOnce
<1>1. IInv => CounterOnce
  BY DEF IInv, KeyInv
<1> QED BY <1>1, Invariant, PTL

\* A grant, once a key admitted it, changes in nothing but its status: what the
\* transaction reads of it when the answer arrives is what the key committed.
THEOREM GrantsNeverChange == Spec => [][GrantsKept]_vars
<1>1. IInv /\ [Next]_vars => GrantsKept
  <2> SUFFICES ASSUME IInv, [Next]_vars PROVE GrantsKept
    OBVIOUS
  <2>1. TypeOK /\ Shapes /\ Draws /\ Lives
    BY DEF IInv, KeyInv
  <2> QED BY <2>1, Turn, TurnKeepsGrants
<1> QED BY <1>1, Invariant, PTL DEF Spec

(***************************************************************************)
(* The enrollment of a key.  A challenge is drawn by one call and taken by *)
(* no other, so an installation names a call that has ended; whoever read  *)
(* the row of a key to encrypt it anew finds it as it was, or written      *)
(* since, or the row of a key whose time had passed before this one.       *)
(***************************************************************************)
Offers ==
  [id : Issues, status : {"challenge", "registered"}, expires : Nat, revision : Nat,
   digest : Attested \cup {None}, until : Nat]
KeyRows == [status : {"active", "revoked"}, expires : Nat, counter : Nat, revision : Nat, secret : Nat]
Installs ==
  [id : Issues, body : Attested, until : Nat, at : Nat, revision : Nat, drawn : Nat, expires : Nat]

Shaped(q) ==
  q = [pc |-> q.pc, op |-> q.op, body |-> q.body, valid |-> q.valid, until |-> q.until, secret |-> q.secret,
       row |-> q.row, answer |-> q.answer]

EnrollmentTyped ==
  /\ DOMAIN enrollments = E!Pending
  /\ \A c \in E!Pending : Shaped(enrollments[c])
  /\ policy = [revision |-> policy.revision, secret |-> policy.secret] /\ policy.revision \in Nat /\ policy.secret \in Nat
  /\ offer \in Offers \cup {None} /\ slot \in KeyRows \cup {None}
  /\ second \in Nat /\ installed \subseteq Installs

\* The installation that a registration tells of.
Registration(id, body, until) == \E i \in installed : i.id = id /\ i.body = body /\ i.until = until

OfferOf ==
  offer # None =>
    /\ offer.expires <= second + OfferLife /\ enrollments[offer.id].pc = "end"
    /\ offer.status = "registered" => Registration(offer.id, offer.digest, offer.until)

\* While its challenge lives, and unless its key was deleted, the registration
\* and its key are there; the next key comes after the tombstone.
InstalledAt(i) ==
  /\ enrollments[i.id].pc = "end" /\ i.at <= second /\ i.at < i.expires /\ i.revision = i.drawn /\ i.expires <= i.until
  /\ offer # None /\ offer.id = i.id => offer.status = "registered"
  /\ (slot # None /\ i.until = slot.expires) \/ second >= i.until + OfferLife
  /\ second < i.expires /\ i.id \notin forgotten =>
       /\ offer # None /\ offer.id = i.id /\ offer.status = "registered" /\ offer.digest = i.body
       /\ offer.expires = i.expires /\ offer.until = i.until /\ offer.revision = i.revision
       /\ slot # None /\ slot.status = "active" /\ slot.expires = i.until
  /\ \A j \in installed \ {i} : j.id # i.id /\ (j.at >= i.until + OfferLife \/ i.at >= j.until + OfferLife)

CallAt(c) ==
  LET q == enrollments[c]
  IN /\ c \in Issues => /\ q.pc \in {"idle", "issuing", "end"}
                        /\ q.pc = "issuing" => /\ q.op \in Offers /\ q.op.id = c /\ q.op.status = "challenge"
                                               /\ q.op.expires <= second + OfferLife
     /\ c \in Enrolls =>
          /\ q.pc \in {"idle", "verify", "install", "committing", "arming", "end"}
          /\ q.pc \in {"verify", "install", "committing"} =>
               q.op \in Offers /\ q.op.status = "challenge" /\ q.body \in Attested
          /\ q.pc \in {"install", "committing"} => q.until \in Nat /\ q.op.expires <= q.until /\ q.secret \in Nat
          /\ q.answer = "registered" => q.pc = "end" /\ Registration(q.op.id, q.body, q.until)
     /\ c \in Rotations => q.pc \in {"idle", "encrypt", "end"}
     /\ q.pc = "encrypt" =>
          /\ q.row \in KeyRows /\ q.row.status = "active" /\ q.secret \in Nat
          /\ \/ second >= q.row.expires
             \/ /\ slot # None /\ slot.expires = q.row.expires /\ q.row.revision <= slot.revision
                /\ q.row.revision = slot.revision => q.row.counter = slot.counter

EnrollInv ==
  /\ EnrollmentTyped /\ OfferOf /\ (\A i \in installed : InstalledAt(i)) /\ \A c \in E!Pending : CallAt(c)

\* What a call becomes when some of its fields are set.
LEMMA SetIssuing ==
  ASSUME NEW q, Shaped(q), NEW newOp
  PROVE  [q EXCEPT !.pc = "issuing", !.op = newOp] =
           [pc |-> "issuing", op |-> newOp, body |-> q.body, valid |-> q.valid,
            until |-> q.until, secret |-> q.secret, row |-> q.row, answer |-> q.answer]
<1>1. PICK pc0, op0, body0, valid0, until0, secret0, row0, answer0 :
        q = [pc |-> pc0, op |-> op0, body |-> body0, valid |-> valid0,
             until |-> until0, secret |-> secret0, row |-> row0, answer |-> answer0]
  BY DEF Shaped
<1>2. PICK n : n = [q EXCEPT !.pc = "issuing", !.op = newOp]
  OBVIOUS
<1>3. n = [pc |-> "issuing", op |-> newOp, body |-> body0, valid |-> valid0,
           until |-> until0, secret |-> secret0, row |-> row0, answer |-> answer0]
  BY <1>1, <1>2, Zenon
<1>. QED BY <1>1, <1>2, <1>3

LEMMA SetVerify ==
  ASSUME NEW q, Shaped(q), NEW newOp, NEW newBody
  PROVE  [q EXCEPT !.pc = "verify", !.op = newOp, !.body = newBody] =
           [pc |-> "verify", op |-> newOp, body |-> newBody, valid |-> q.valid,
            until |-> q.until, secret |-> q.secret, row |-> q.row, answer |-> q.answer]
<1>1. PICK pc0, op0, body0, valid0, until0, secret0, row0, answer0 :
        q = [pc |-> pc0, op |-> op0, body |-> body0, valid |-> valid0,
             until |-> until0, secret |-> secret0, row |-> row0, answer |-> answer0]
  BY DEF Shaped
<1>2. PICK n : n = [q EXCEPT !.pc = "verify", !.op = newOp, !.body = newBody]
  OBVIOUS
<1>3. n = [pc |-> "verify", op |-> newOp, body |-> newBody, valid |-> valid0,
           until |-> until0, secret |-> secret0, row |-> row0, answer |-> answer0]
  BY <1>1, <1>2, Zenon
<1>. QED BY <1>1, <1>2, <1>3

LEMMA SetInstall ==
  ASSUME NEW q, Shaped(q), NEW newValid, NEW newSecret, NEW newUntil
  PROVE  [q EXCEPT !.pc = "install", !.valid = newValid, !.secret = newSecret, !.until = newUntil] =
           [pc |-> "install", op |-> q.op, body |-> q.body, valid |-> newValid,
            until |-> newUntil, secret |-> newSecret, row |-> q.row, answer |-> q.answer]
<1>1. PICK pc0, op0, body0, valid0, until0, secret0, row0, answer0 :
        q = [pc |-> pc0, op |-> op0, body |-> body0, valid |-> valid0,
             until |-> until0, secret |-> secret0, row |-> row0, answer |-> answer0]
  BY DEF Shaped
<1>2. PICK n : n = [q EXCEPT !.pc = "install", !.valid = newValid, !.secret = newSecret, !.until = newUntil]
  OBVIOUS
<1>3. n = [pc |-> "install", op |-> op0, body |-> body0, valid |-> newValid,
           until |-> newUntil, secret |-> newSecret, row |-> row0, answer |-> answer0]
  BY <1>1, <1>2, Zenon
<1>. QED BY <1>1, <1>2, <1>3

LEMMA SetRegistered ==
  ASSUME NEW q, Shaped(q), NEW newUntil
  PROVE  [q EXCEPT !.pc = "end", !.answer = "registered", !.until = newUntil] =
           [pc |-> "end", op |-> q.op, body |-> q.body, valid |-> q.valid,
            until |-> newUntil, secret |-> q.secret, row |-> q.row, answer |-> "registered"]
<1>1. PICK pc0, op0, body0, valid0, until0, secret0, row0, answer0 :
        q = [pc |-> pc0, op |-> op0, body |-> body0, valid |-> valid0,
             until |-> until0, secret |-> secret0, row |-> row0, answer |-> answer0]
  BY DEF Shaped
<1>2. PICK n : n = [q EXCEPT !.pc = "end", !.answer = "registered", !.until = newUntil]
  OBVIOUS
<1>3. n = [pc |-> "end", op |-> op0, body |-> body0, valid |-> valid0,
           until |-> newUntil, secret |-> secret0, row |-> row0, answer |-> "registered"]
  BY <1>1, <1>2, Zenon
<1>. QED BY <1>1, <1>2, <1>3

LEMMA SetEncrypt ==
  ASSUME NEW q, Shaped(q), NEW newRow, NEW newSecret
  PROVE  [q EXCEPT !.pc = "encrypt", !.row = newRow, !.secret = newSecret] =
           [pc |-> "encrypt", op |-> q.op, body |-> q.body, valid |-> q.valid,
            until |-> q.until, secret |-> newSecret, row |-> newRow, answer |-> q.answer]
<1>1. PICK pc0, op0, body0, valid0, until0, secret0, row0, answer0 :
        q = [pc |-> pc0, op |-> op0, body |-> body0, valid |-> valid0,
             until |-> until0, secret |-> secret0, row |-> row0, answer |-> answer0]
  BY DEF Shaped
<1>2. PICK n : n = [q EXCEPT !.pc = "encrypt", !.row = newRow, !.secret = newSecret]
  OBVIOUS
<1>3. n = [pc |-> "encrypt", op |-> op0, body |-> body0, valid |-> valid0,
           until |-> until0, secret |-> newSecret, row |-> newRow, answer |-> answer0]
  BY <1>1, <1>2, Zenon
<1>. QED BY <1>1, <1>2, <1>3

LEMMA SetAnswer ==
  ASSUME NEW q, Shaped(q), NEW newAnswer
  PROVE  [q EXCEPT !.pc = "end", !.answer = newAnswer] =
           [pc |-> "end", op |-> q.op, body |-> q.body, valid |-> q.valid,
            until |-> q.until, secret |-> q.secret, row |-> q.row, answer |-> newAnswer]
<1>1. PICK pc0, op0, body0, valid0, until0, secret0, row0, answer0 :
        q = [pc |-> pc0, op |-> op0, body |-> body0, valid |-> valid0,
             until |-> until0, secret |-> secret0, row |-> row0, answer |-> answer0]
  BY DEF Shaped
<1>2. PICK n : n = [q EXCEPT !.pc = "end", !.answer = newAnswer]
  OBVIOUS
<1>3. n = [pc |-> "end", op |-> op0, body |-> body0, valid |-> valid0,
           until |-> until0, secret |-> secret0, row |-> row0, answer |-> newAnswer]
  BY <1>1, <1>2, Zenon
<1>. QED BY <1>1, <1>2, <1>3

LEMMA SetCommitting ==
  ASSUME NEW q, Shaped(q)
  PROVE  [q EXCEPT !.pc = "committing"] =
           [pc |-> "committing", op |-> q.op, body |-> q.body, valid |-> q.valid,
            until |-> q.until, secret |-> q.secret, row |-> q.row, answer |-> q.answer]
<1>1. PICK pc0, op0, body0, valid0, until0, secret0, row0, answer0 :
        q = [pc |-> pc0, op |-> op0, body |-> body0, valid |-> valid0,
             until |-> until0, secret |-> secret0, row |-> row0, answer |-> answer0]
  BY DEF Shaped
<1>2. PICK n : n = [q EXCEPT !.pc = "committing"]
  OBVIOUS
<1>3. n = [pc |-> "committing", op |-> op0, body |-> body0, valid |-> valid0,
           until |-> until0, secret |-> secret0, row |-> row0, answer |-> answer0]
  BY <1>1, <1>2, Zenon
<1>. QED BY <1>1, <1>2, <1>3

LEMMA SetArming ==
  ASSUME NEW q, Shaped(q)
  PROVE  [q EXCEPT !.pc = "arming"] =
           [pc |-> "arming", op |-> q.op, body |-> q.body, valid |-> q.valid,
            until |-> q.until, secret |-> q.secret, row |-> q.row, answer |-> q.answer]
<1>1. PICK pc0, op0, body0, valid0, until0, secret0, row0, answer0 :
        q = [pc |-> pc0, op |-> op0, body |-> body0, valid |-> valid0,
             until |-> until0, secret |-> secret0, row |-> row0, answer |-> answer0]
  BY DEF Shaped
<1>2. PICK n : n = [q EXCEPT !.pc = "arming"]
  OBVIOUS
<1>3. n = [pc |-> "arming", op |-> op0, body |-> body0, valid |-> valid0,
           until |-> until0, secret |-> secret0, row |-> row0, answer |-> answer0]
  BY <1>1, <1>2, Zenon
<1>. QED BY <1>1, <1>2, <1>3

Becomes(c, n) == enrollments' = [d \in E!Pending |-> IF d = c THEN n ELSE enrollments[d]]

LEMMA CallBecomes ==
  ASSUME EnrollmentTyped, NEW c \in E!Pending, NEW n, enrollments' = [enrollments EXCEPT ![c] = n]
  PROVE  Becomes(c, n)
BY DEF EnrollmentTyped, Becomes

LEMMA Kinds ==
  ASSUME E!EnrollmentAssumption
  PROVE  /\ \A c \in Issues : c \in E!Pending /\ c \notin Enrolls /\ c \notin Rotations
         /\ \A c \in Enrolls : c \in E!Pending /\ c \notin Issues /\ c \notin Rotations
         /\ \A c \in Rotations : c \in E!Pending /\ c \notin Issues /\ c \notin Enrolls
BY DEF E!EnrollmentAssumption, E!Pending

\* Somebody who had read the row of k and finds l.
KeyOn(k, l) ==
  k # None =>
    \/ second >= k.expires
    \/ /\ l # None /\ l.expires = k.expires /\ k.revision <= l.revision
       /\ k.revision = l.revision => k.counter = l.counter

LEMMA RegistrationKept ==
  ASSUME installed \subseteq installed', NEW id, NEW body, NEW until, Registration(id, body, until)
  PROVE  Registration(id, body, until)'
BY DEF Registration

LEMMA CallKept ==
  ASSUME EnrollInv, NEW c \in E!Pending, enrollments'[c] = enrollments[c], second' \in Nat, second <= second',
         installed \subseteq installed', EnrollmentTyped', KeyOn(slot, slot'), E!EnrollmentAssumption
  PROVE  CallAt(c)'
<1>. DEFINE q == enrollments[c]
<1>1. CallAt(c) /\ second \in Nat
  BY DEF EnrollInv, EnrollmentTyped
<1>2. q.pc = "issuing" /\ c \in Issues => q.op.expires <= second' + OfferLife
  BY <1>1 DEF CallAt, Offers, E!EnrollmentAssumption
<1>3. c \in Enrolls /\ q.answer = "registered" => Registration(q.op.id, q.body, q.until)'
  <2>1. c \in Enrolls /\ q.answer = "registered" => Registration(q.op.id, q.body, q.until)
    BY <1>1 DEF CallAt
  <2>2. \A id, body, until : Registration(id, body, until) => Registration(id, body, until)'
    BY RegistrationKept
  <2>. QED BY <2>1, <2>2 DEF Registration
<1>4. q.pc = "encrypt" =>
        \/ second' >= q.row.expires
        \/ /\ slot' # None /\ slot'.expires = q.row.expires /\ q.row.revision <= slot'.revision
           /\ q.row.revision = slot'.revision => q.row.counter = slot'.counter
  <2>. SUFFICES ASSUME q.pc = "encrypt"
                PROVE  \/ second' >= q.row.expires
                       \/ /\ slot' # None /\ slot'.expires = q.row.expires /\ q.row.revision <= slot'.revision
                          /\ q.row.revision = slot'.revision => q.row.counter = slot'.counter
    OBVIOUS
  <2>1. q.row \in KeyRows /\ q.row.expires \in Nat /\ q.row.revision \in Nat
    BY <1>1 DEF CallAt, KeyRows
  <2>2. CASE second >= q.row.expires
    BY <1>1, <2>1, <2>2
  <2>3. CASE ~(second >= q.row.expires)
    <3>1. /\ slot # None /\ slot.expires = q.row.expires /\ q.row.revision <= slot.revision
          /\ q.row.revision = slot.revision => q.row.counter = slot.counter
      BY <1>1, <2>3 DEF CallAt
    <3>2. slot.revision \in Nat /\ (slot' # None => slot'.revision \in Nat)
      BY <3>1 DEF EnrollInv, EnrollmentTyped, KeyRows
    <3>3. /\ slot' # None /\ slot'.expires = slot.expires /\ slot.revision <= slot'.revision
          /\ slot.revision = slot'.revision => slot.counter = slot'.counter
      BY <2>3, <3>1 DEF KeyOn
    <3>. QED BY <2>1, <3>1, <3>2, <3>3
  <2>. QED BY <2>2, <2>3
<1>. QED BY <1>1, <1>2, <1>3, <1>4 DEF CallAt

\* A step that leaves the history of installations alone.
LEMMA InstalledKept ==
  ASSUME EnrollInv, NEW i \in installed, installed' = installed, forgotten' = forgotten, second' = second,
         offer' = offer, slot' = slot, enrollments'[i.id].pc = "end"
  PROVE  InstalledAt(i)'
BY DEF EnrollInv, InstalledAt

LEMMA KeyStays ==
  ASSUME EnrollInv
  PROVE  KeyOn(slot, slot)
BY DEF EnrollInv, EnrollmentTyped, KeyRows, KeyOn

\* A step of one call that leaves the tables alone.
LEMMA CallStep ==
  ASSUME E!EnrollmentAssumption, EnrollInv, NEW c \in E!Pending, NEW n, Becomes(c, n), Shaped(n),
         enrollments[c].pc # "end", UNCHANGED <<offer, slot, policy, second, installed, forgotten>>, CallAt(c)'
  PROVE  EnrollInv'
<1>1. DOMAIN enrollments' = E!Pending /\ \A d \in E!Pending : enrollments'[d] = IF d = c THEN n ELSE enrollments[d]
  BY DEF Becomes
<1>2. EnrollmentTyped'
  BY <1>1 DEF EnrollInv, EnrollmentTyped, Shaped
<1>3. \A d \in E!Pending : enrollments[d].pc = "end" => enrollments'[d].pc = "end"
  BY <1>1
<1>4. OfferOf'
  <2>1. offer # None => offer.id \in E!Pending
    BY Kinds DEF EnrollInv, EnrollmentTyped, Offers
  <2>. QED BY <1>3, <2>1 DEF EnrollInv, OfferOf, Registration
<1>5. \A i \in installed' : InstalledAt(i)'
  <2>1. \A i \in installed : i.id \in E!Pending
    BY Kinds DEF EnrollInv, EnrollmentTyped, Installs
  <2>2. \A i \in installed : enrollments'[i.id].pc = "end"
    BY <1>3, <2>1 DEF EnrollInv, InstalledAt
  <2>. QED BY <2>2, InstalledKept
<1>6. \A d \in E!Pending : CallAt(d)'
  <2>1. KeyOn(slot, slot') /\ second' \in Nat /\ second <= second'
    BY KeyStays DEF EnrollInv, EnrollmentTyped
  <2>. QED BY <1>1, <1>2, <2>1, CallKept
<1>. QED BY <1>2, <1>4, <1>5, <1>6 DEF EnrollInv

\* A step of the tables that leaves the calls alone.
LEMMA TableStep ==
  ASSUME E!EnrollmentAssumption, EnrollInv, enrollments' = enrollments, installed' = installed,
         policy' = [revision |-> policy'.revision, secret |-> policy'.secret], policy'.revision \in Nat, policy'.secret \in Nat,
         offer' \in {offer, None}, slot' \in KeyRows \cup {None}, second' \in Nat, second <= second', KeyOn(slot, slot'),
         \A i \in installed : InstalledAt(i)'
  PROVE  EnrollInv'
<1>1. EnrollmentTyped'
  BY DEF EnrollInv, EnrollmentTyped
<1>2. OfferOf'
  <2>1. offer' # None => offer'.expires <= second' + OfferLife
    BY DEF EnrollInv, EnrollmentTyped, OfferOf, Offers, E!EnrollmentAssumption
  <2>. QED BY <2>1 DEF EnrollInv, OfferOf, Registration
<1>3. \A c \in E!Pending : CallAt(c)'
  BY <1>1, CallKept
<1>. QED BY <1>1, <1>2, <1>3 DEF EnrollInv

LEMMA CallOf ==
  ASSUME EnrollInv, NEW c \in E!Pending
  PROVE  /\ Shaped(enrollments[c]) /\ CallAt(c) /\ second \in Nat /\ policy.revision \in Nat /\ policy.secret \in Nat
         /\ offer \in Offers \cup {None} /\ slot \in KeyRows \cup {None} /\ EnrollmentTyped /\ installed \subseteq Installs
BY DEF EnrollInv, EnrollmentTyped

LEMMA IssueStep ==
  ASSUME E!EnrollmentAssumption, EnrollInv, NEW c \in Issues, E!Issue(c)
  PROVE  EnrollInv'
<1>. DEFINE q == enrollments[c]
            draft == [id |-> c, status |-> "challenge", expires |-> E!Earlier(second + OfferLife, PolicyEnd),
                      revision |-> policy.revision, digest |-> None, until |-> 0]
            n == [pc |-> "issuing", op |-> draft, body |-> q.body, valid |-> q.valid, until |-> q.until,
                  secret |-> q.secret, row |-> q.row, answer |-> q.answer]
<1>1. c \in E!Pending /\ c \notin Enrolls /\ c \notin Rotations
  BY Kinds
<1>2. Shaped(q) /\ second \in Nat /\ policy.revision \in Nat /\ q.pc = "idle" /\ EnrollmentTyped
  BY <1>1, CallOf DEF E!Issue
<1>3. enrollments' = [enrollments EXCEPT ![c] = [q EXCEPT !.pc = "issuing", !.op = draft]]
  BY <1>1, <1>2 DEF E!Issue, EnrollmentTyped
<1>4. Becomes(c, n)
  <2>1. [q EXCEPT !.pc = "issuing", !.op = draft] = n
    BY <1>2, SetIssuing, Zenon
  <2>2. enrollments' = [enrollments EXCEPT ![c] = n]
    BY <1>3, <2>1, Zenon
  <2>. QED BY <1>1, <1>2, <2>2, CallBecomes, Zenon
<1>5. draft \in Offers /\ draft.expires <= second + OfferLife
  BY <1>2 DEF Offers, E!Earlier, E!EnrollmentAssumption
<1>6. enrollments'[c] = n /\ second' = second
  BY <1>1, <1>4 DEF Becomes, E!Issue
<1>. HIDE DEF draft
<1>7. draft.id = c /\ draft.status = "challenge"
  BY DEF draft
<1>8. CallAt(c)'
  BY <1>1, <1>5, <1>6, <1>7 DEF CallAt
<1>9. Shaped(n)
  BY DEF Shaped
<1>. QED BY <1>1, <1>2, <1>4, <1>8, <1>9, CallStep DEF E!Issue

LEMMA RefuseStep ==
  ASSUME E!EnrollmentAssumption, EnrollInv, NEW c \in E!Pending, E!Refuse(c)
  PROVE  EnrollInv'
<1>. DEFINE q == enrollments[c]
            n == [pc |-> "end", op |-> q.op, body |-> q.body, valid |-> q.valid, until |-> q.until,
                  secret |-> q.secret, row |-> q.row, answer |-> "refused"]
<1>1. Shaped(q) /\ q.pc # "end" /\ EnrollmentTyped
  BY CallOf DEF E!Refuse
<1>2. enrollments' = [enrollments EXCEPT ![c] = [q EXCEPT !.pc = "end", !.answer = "refused"]]
  BY <1>1 DEF E!Refuse, E!Answer, EnrollmentTyped
<1>3. Becomes(c, n)
  <2>1. [q EXCEPT !.pc = "end", !.answer = "refused"] = n
    BY <1>1, SetAnswer, Zenon
  <2>2. enrollments' = [enrollments EXCEPT ![c] = n]
    BY <1>2, <2>1, Zenon
  <2>. QED BY <1>1, <2>2, CallBecomes, Zenon
<1>4. enrollments'[c] = n
  BY <1>3 DEF Becomes
<1>5. CallAt(c)'
  BY <1>4 DEF CallAt
<1>6. Shaped(n)
  BY DEF Shaped
<1>. QED BY <1>1, <1>3, <1>5, <1>6, CallStep DEF E!Refuse

LEMMA BeginStep ==
  ASSUME E!EnrollmentAssumption, EnrollInv, NEW c \in Enrolls, E!Begin(c)
  PROVE  EnrollInv'
<1>. DEFINE q == enrollments[c]
<1>1. c \in E!Pending /\ c \notin Issues /\ c \notin Rotations
  BY Kinds
<1>2. Shaped(q) /\ CallAt(c) /\ EnrollmentTyped /\ q.pc = "idle"
  BY <1>1, CallOf DEF E!Begin
<1>3. PICK body \in Attested : enrollments' = [enrollments EXCEPT ![c].pc = "verify", ![c].op = offer, ![c].body = body]
  BY DEF E!Begin
<1>. DEFINE n == [pc |-> "verify", op |-> offer, body |-> body, valid |-> q.valid,
                   until |-> q.until, secret |-> q.secret, row |-> q.row, answer |-> q.answer]
<1>4. Becomes(c, n)
  <2>1. [q EXCEPT !.pc = "verify", !.op = offer, !.body = body] = n
    <3>1. Shaped(q)
      BY <1>2
    <3>. QED BY <3>1, SetVerify
  <2>2. enrollments' = [enrollments EXCEPT ![c] = [q EXCEPT !.pc = "verify", !.op = offer, !.body = body]]
    BY <1>1, <1>2, <1>3 DEF E!Begin, E!Step, EnrollmentTyped
  <2>. QED BY <1>1, <1>2, <2>1, <2>2, CallBecomes, Zenon
<1>5. enrollments'[c] = n /\ UNCHANGED <<offer, slot, policy, second, installed, forgotten>>
  BY <1>1, <1>4 DEF Becomes, E!Begin
<1>6. offer \in Offers /\ offer.status = "challenge"
  BY <1>1, CallOf DEF E!Begin, E!IsLive
<1>7. CallAt(c)'
  BY <1>1, <1>2, <1>3, <1>5, <1>6 DEF CallAt, Registration
<1>8. Shaped(n)
  BY DEF Shaped
<1>. QED BY <1>1, <1>2, <1>4, <1>5, <1>7, <1>8, CallStep

LEMMA RepeatStep ==
  ASSUME E!EnrollmentAssumption, EnrollInv, NEW c \in Enrolls, E!Repeat(c)
  PROVE  EnrollInv'
<1>. DEFINE q == enrollments[c]
<1>1. c \in E!Pending /\ c \notin Issues /\ c \notin Rotations
  BY Kinds
<1>2. Shaped(q) /\ CallAt(c) /\ EnrollmentTyped /\ q.pc = "idle"
  BY <1>1, CallOf DEF E!Repeat
<1>a. PICK body :
        /\ E!IsRegistered(offer.id, body)
        /\ enrollments' = [enrollments EXCEPT ![c].pc = "end", ![c].op = offer, ![c].body = body,
                                            ![c].answer = "registered", ![c].until = slot.expires]
  BY DEF E!Repeat
<1>b. PICK o : o = offer
  OBVIOUS
<1>d. PICK end : end = slot.expires
  OBVIOUS
<1>3. /\ o = offer /\ end = slot.expires /\ E!IsRegistered(o.id, body)
      /\ enrollments' = [enrollments EXCEPT ![c].pc = "end", ![c].op = o, ![c].body = body,
                                          ![c].answer = "registered", ![c].until = end]
  BY <1>a, <1>b, <1>d, Zenon
<1>. DEFINE n == [pc |-> "end", op |-> o, body |-> body, valid |-> q.valid,
                   until |-> end, secret |-> q.secret, row |-> q.row, answer |-> "registered"]
<1>4. Becomes(c, n)
  <2>1. [q EXCEPT !.pc = "end", !.op = o, !.body = body, !.answer = "registered", !.until = end] = n
    <3>1. PICK r : r = q
      OBVIOUS
    <3>2. Shaped(r)
      BY <1>2, <3>1, Zenon
    <3>. HIDE DEF q, n
    <3>3. PICK pc0, op0, body0, valid0, until0, secret0, row0, answer0 :
            r = [pc |-> pc0, op |-> op0, body |-> body0, valid |-> valid0,
                 until |-> until0, secret |-> secret0, row |-> row0, answer |-> answer0]
      BY <3>2 DEF Shaped
    <3>4. PICK m : m = [r EXCEPT !.pc = "end", !.op = o, !.body = body, !.answer = "registered", !.until = end]
      OBVIOUS
    <3>5. m = [pc |-> "end", op |-> o, body |-> body, valid |-> valid0,
               until |-> end, secret |-> secret0, row |-> row0, answer |-> "registered"]
      BY <3>3, <3>4, Zenon
    <3>6. m = [pc |-> "end", op |-> o, body |-> body, valid |-> r.valid,
               until |-> end, secret |-> r.secret, row |-> r.row, answer |-> "registered"]
      BY <3>3, <3>5
    <3>. QED BY <3>1, <3>4, <3>6, Zenon DEF n
  <2>2. enrollments' = [enrollments EXCEPT
          ![c] = [q EXCEPT !.pc = "end", !.op = o, !.body = body, !.answer = "registered", !.until = end]]
    BY <1>1, <1>2, <1>3 DEF E!Repeat, E!Step, EnrollmentTyped
  <2>. QED BY <1>1, <1>2, <2>1, <2>2, CallBecomes, Zenon
<1>5. enrollments'[c] = n /\ UNCHANGED <<offer, slot, policy, second, installed, forgotten>>
  BY <1>1, <1>4 DEF Becomes, E!Repeat
<1>6. Registration(o.id, body, end)
  BY <1>3 DEF EnrollInv, OfferOf, E!IsRegistered, E!IsLive
<1>6a. Registration(o.id, body, end)' /\ enrollments'[c].op.id = o.id /\ enrollments'[c].body = body /\ enrollments'[c].until = end
  BY <1>5, <1>6 DEF Registration
<1>7. CallAt(c)'
  BY <1>1, <1>2, <1>3, <1>5, <1>6a DEF CallAt
<1>8. Shaped(n)
  BY DEF Shaped
<1>. QED BY <1>1, <1>2, <1>4, <1>5, <1>7, <1>8, CallStep

LEMMA EnrolledStep ==
  ASSUME E!EnrollmentAssumption, EnrollInv, NEW c \in Enrolls, E!Enrolled(c)
  PROVE  EnrollInv'
<1>. DEFINE q == enrollments[c]
<1>1. c \in E!Pending /\ c \notin Issues /\ c \notin Rotations
  BY Kinds
<1>2. Shaped(q) /\ CallAt(c) /\ EnrollmentTyped /\ q.pc = "arming"
  BY <1>1, CallOf DEF E!Enrolled
<1>p. PICK end : end = slot.expires
  OBVIOUS
<1>3. E!IsRegistered(q.op.id, q.body) /\ end = slot.expires
  BY <1>p DEF E!Enrolled
<1>. DEFINE n == [pc |-> "end", op |-> q.op, body |-> q.body, valid |-> q.valid,
                   until |-> end, secret |-> q.secret, row |-> q.row, answer |-> "registered"]
<1>4. Becomes(c, n)
  <2>1. [q EXCEPT !.pc = "end", !.answer = "registered", !.until = end] = n
    <3>1. Shaped(q)
      BY <1>2
    <3>. QED BY <3>1, SetRegistered
  <2>2. enrollments' = [enrollments EXCEPT ![c] = [q EXCEPT !.pc = "end", !.answer = "registered", !.until = end]]
    BY <1>1, <1>2, <1>3 DEF E!Enrolled, E!Step, EnrollmentTyped
  <2>. QED BY <1>1, <1>2, <2>1, <2>2, CallBecomes, Zenon
<1>5. enrollments'[c] = n /\ UNCHANGED <<offer, slot, policy, second, installed, forgotten>>
  BY <1>1, <1>4 DEF Becomes, E!Enrolled
<1>6. Registration(q.op.id, q.body, end)
  BY <1>3 DEF EnrollInv, OfferOf, E!IsRegistered, E!IsLive
<1>7. CallAt(c)'
  BY <1>1, <1>2, <1>3, <1>5, <1>6 DEF CallAt, Registration
<1>8. Shaped(n)
  BY DEF Shaped
<1>. QED BY <1>1, <1>2, <1>4, <1>5, <1>7, <1>8, CallStep

LEMMA VerifiedStep ==
  ASSUME E!EnrollmentAssumption, EnrollInv, NEW c \in Enrolls, E!Verified(c)
  PROVE  EnrollInv'
<1>. DEFINE q == enrollments[c]
<1>1. c \in E!Pending /\ c \notin Issues /\ c \notin Rotations
  BY Kinds
<1>2. Shaped(q) /\ CallAt(c) /\ EnrollmentTyped /\ q.pc = "verify"
  BY <1>1, CallOf DEF E!Verified
<1>3. PICK proof, end :
        /\ end = second + EnrolledLife
        /\ enrollments' = [enrollments EXCEPT ![c].pc = "install", ![c].valid = proof, ![c].secret = policy.secret,
                                            ![c].until = end]
  BY DEF E!Verified
<1>. DEFINE n == [pc |-> "install", op |-> q.op, body |-> q.body, valid |-> proof,
                   until |-> end, secret |-> policy.secret, row |-> q.row, answer |-> q.answer]
<1>4. Becomes(c, n)
  <2>1. [q EXCEPT !.pc = "install", !.valid = proof, !.secret = policy.secret, !.until = end] = n
    <3>1. Shaped(q)
      BY <1>2
    <3>. QED BY <3>1, SetInstall
  <2>2. enrollments' = [enrollments EXCEPT
          ![c] = [q EXCEPT !.pc = "install", !.valid = proof, !.secret = policy.secret, !.until = end]]
    BY <1>1, <1>2, <1>3 DEF E!Verified, EnrollmentTyped
  <2>. QED BY <1>1, <1>2, <2>1, <2>2, CallBecomes, Zenon
<1>5. enrollments'[c] = n /\ UNCHANGED <<offer, slot, policy, second, installed, forgotten>>
  BY <1>1, <1>4 DEF Becomes, E!Verified
<1>6. /\ q.op = offer /\ offer \in Offers /\ policy.secret \in Nat
      /\ end \in Nat /\ offer.expires <= end
  <2>1. q.op = offer /\ offer # None /\ offer.expires <= second + OfferLife
    BY DEF E!Verified, E!IsStill, E!IsLive, EnrollInv, OfferOf
  <2>2. offer \in Offers /\ offer.expires \in Nat /\ second \in Nat /\ policy.secret \in Nat
    BY <1>1, <2>1, CallOf DEF Offers
  <2>. QED BY <1>3, <2>1, <2>2 DEF E!EnrollmentAssumption
<1>7. CallAt(c)'
  BY <1>1, <1>2, <1>5, <1>6 DEF CallAt
<1>8. Shaped(n)
  BY DEF Shaped
<1>. QED BY <1>1, <1>2, <1>4, <1>5, <1>7, <1>8, CallStep

LEMMA LockStep ==
  ASSUME E!EnrollmentAssumption, EnrollInv, NEW c \in Enrolls, E!Lock(c)
  PROVE  EnrollInv'
<1>. DEFINE q == enrollments[c]
<1>1. c \in E!Pending /\ c \notin Issues /\ c \notin Rotations
  BY Kinds
<1>2. Shaped(q) /\ CallAt(c) /\ EnrollmentTyped /\ q.pc = "install"
  BY <1>1, CallOf DEF E!Lock
<1>3. q.op \in Offers /\ q.op.status = "challenge" /\ q.body \in Attested
  BY <1>1, <1>2 DEF CallAt
<1>. DEFINE n == [pc |-> "committing", op |-> q.op, body |-> q.body, valid |-> q.valid,
                   until |-> q.until, secret |-> q.secret, row |-> q.row, answer |-> q.answer]
<1>4. Becomes(c, n)
  <2>1. [q EXCEPT !.pc = "committing"] = n
    <3>1. Shaped(q)
      BY <1>2
    <3>. QED BY <3>1, SetCommitting
  <2>2. enrollments' = [enrollments EXCEPT ![c] = [q EXCEPT !.pc = "committing"]]
    BY <1>1, <1>2, <1>3 DEF E!Lock, E!Step, EnrollmentTyped
  <2>. QED BY <1>1, <1>2, <2>1, <2>2, CallBecomes, Zenon
<1>5. enrollments'[c] = n /\ UNCHANGED <<offer, slot, policy, second, installed, forgotten>>
  BY <1>1, <1>4 DEF Becomes, E!Lock
<1>6. q.until \in Nat /\ q.op.expires <= q.until /\ q.secret \in Nat
  BY <1>1, <1>2 DEF CallAt
<1>7. CallAt(c)'
  BY <1>1, <1>2, <1>3, <1>5, <1>6 DEF CallAt, Registration
<1>8. Shaped(n)
  BY DEF Shaped
<1>. QED BY <1>1, <1>2, <1>4, <1>5, <1>7, <1>8, CallStep

LEMMA RotateStep ==
  ASSUME E!EnrollmentAssumption, EnrollInv, NEW c \in Rotations, E!Rotate(c)
  PROVE  EnrollInv'
<1>. DEFINE q == enrollments[c]
<1>1. c \in E!Pending /\ c \notin Issues /\ c \notin Enrolls
  BY Kinds
<1>2. Shaped(q) /\ CallAt(c) /\ EnrollmentTyped /\ q.pc = "idle"
  BY <1>1, CallOf DEF E!Rotate
<1>3. slot # None /\ slot.status = "active" /\ second < slot.expires
  BY DEF E!Rotate, E!IsActive
<1>. DEFINE n == [pc |-> "encrypt", op |-> q.op, body |-> q.body, valid |-> q.valid,
                   until |-> q.until, secret |-> policy.secret, row |-> slot, answer |-> q.answer]
<1>4. Becomes(c, n)
  <2>1. [q EXCEPT !.pc = "encrypt", !.row = slot, !.secret = policy.secret] = n
    <3>1. Shaped(q)
      BY <1>2
    <3>. QED BY <3>1, SetEncrypt
  <2>2. enrollments' = [enrollments EXCEPT ![c] = [q EXCEPT !.pc = "encrypt", !.row = slot, !.secret = policy.secret]]
    BY <1>1, <1>2, <1>3 DEF E!Rotate, E!Step, EnrollmentTyped
  <2>. QED BY <1>1, <1>2, <2>1, <2>2, CallBecomes, Zenon
<1>5. enrollments'[c] = n /\ UNCHANGED <<offer, slot, policy, second, installed, forgotten>>
  BY <1>1, <1>4 DEF Becomes, E!Rotate
<1>6. slot \in KeyRows /\ policy.secret \in Nat /\ slot.revision \in Nat
  BY <1>1, <1>3, CallOf DEF KeyRows
<1>7. CallAt(c)'
  BY <1>1, <1>2, <1>3, <1>5, <1>6 DEF CallAt, Registration
<1>8. Shaped(n)
  BY DEF Shaped
<1>. QED BY <1>1, <1>2, <1>4, <1>5, <1>7, <1>8, CallStep

LEMMA InstallationOf ==
  ASSUME EnrollInv, NEW i \in installed
  PROVE  /\ i \in Installs /\ InstalledAt(i) /\ i.id \in Issues /\ i.expires \in Nat /\ i.until \in Nat /\ i.at \in Nat
         /\ second \in Nat /\ i.expires <= i.until /\ i.until >= i.expires
BY DEF EnrollInv, EnrollmentTyped, Installs, InstalledAt

\* The cleanups leave a live registration alone.
LEMMA SweptTables ==
  ASSUME E!EnrollmentAssumption, EnrollInv
  PROVE  /\ E!SweptOp \in {offer, None} /\ E!SweptRow \in KeyRows \cup {None}
         /\ KeyOn(slot, E!SweptRow) /\ (slot = None <=> E!SweptRow = None)
         /\ slot # None => E!SweptRow.expires = slot.expires
         /\ \A i \in installed : second < i.expires /\ i.id \notin forgotten => E!SweptOp = offer /\ E!SweptRow = slot
<1>1. slot \in KeyRows \cup {None} /\ None \notin KeyRows /\ second \in Nat /\ EnrollmentTyped
  BY CallOf DEF E!EnrollmentAssumption, KeyRows, EnrollInv, EnrollmentTyped
<1>2. E!SweptOp \in {offer, None}
  BY DEF E!SweptOp
<1>3. CASE ~E!IsExpiring
  <2>1. E!SweptRow = slot
    BY <1>3 DEF E!SweptRow
  <2>2. \A i \in installed : second < i.expires /\ i.id \notin forgotten => E!SweptOp = offer
    BY <1>1, <1>3, InstallationOf DEF E!SweptOp, InstalledAt
  <2>. QED BY <1>1, <1>2, <2>1, <2>2, KeyStays
<1>4. CASE E!IsExpiring
  <2>1. slot \in KeyRows /\ second >= slot.expires /\ slot.expires \in Nat
    BY <1>1, <1>4 DEF E!IsExpiring, KeyRows
  <2>2. /\ E!SweptRow \in KeyRows /\ E!SweptRow.expires = slot.expires /\ E!SweptRow # None
    BY <1>1, <1>4, <2>1 DEF E!SweptRow, E!Tombstone, KeyRows
  <2>3. \A i \in installed : ~(second < i.expires /\ i.id \notin forgotten)
    BY <1>1, <2>1, InstallationOf DEF InstalledAt
  <2>. QED BY <1>1, <1>2, <2>1, <2>2, <2>3 DEF KeyOn
<1>. QED BY <1>3, <1>4

LEMMA AdvanceStep ==
  ASSUME E!EnrollmentAssumption, EnrollInv, E!Advance
  PROVE  EnrollInv'
<1>1. slot # None /\ slot \in KeyRows /\ None \notin KeyRows /\ second \in Nat
  BY DEF E!Advance, E!IsActive, EnrollInv, EnrollmentTyped, E!EnrollmentAssumption, KeyRows
<1>2. /\ slot' \in KeyRows /\ slot'.expires = slot.expires /\ slot'.status = slot.status /\ slot'.revision = slot.revision + 1
      /\ slot.revision \in Nat
  <2>1. PICK status0, expires0, counter0, revision0, secret0 :
          /\ slot = [status |-> status0, expires |-> expires0, counter |-> counter0, revision |-> revision0,
                    secret |-> secret0]
          /\ status0 \in {"active", "revoked"} /\ expires0 \in Nat /\ counter0 \in Nat /\ revision0 \in Nat
          /\ secret0 \in Nat
    BY <1>1 DEF KeyRows
  <2>2. PICK more, next : more = slot.counter + 1 /\ next = slot.revision + 1
    OBVIOUS
  <2>3. slot' = [slot EXCEPT !.counter = more, !.revision = next]
    BY <2>2 DEF E!Advance
  <2>4. slot' = [status |-> status0, expires |-> expires0, counter |-> more, revision |-> next, secret |-> secret0]
    BY <2>1, <2>3, Zenon
  <2>. QED BY <2>1, <2>2, <2>4 DEF KeyRows
<1>3. KeyOn(slot, slot')
  BY <1>1, <1>2 DEF KeyOn
<1>4. \A i \in installed : InstalledAt(i)'
  BY <1>1, <1>2 DEF E!Advance, EnrollInv, InstalledAt
<1>. QED BY <1>1, <1>2, <1>3, <1>4, TableStep, CallOf DEF E!Advance, EnrollInv, EnrollmentTyped

LEMMA RevokeStep ==
  ASSUME E!EnrollmentAssumption, EnrollInv, E!Revoke
  PROVE  EnrollInv'
<1>1. slot # None /\ slot \in KeyRows /\ None \notin KeyRows /\ second \in Nat
  BY DEF E!Revoke, EnrollInv, EnrollmentTyped, E!EnrollmentAssumption, KeyRows
<1>2. /\ slot' \in KeyRows /\ slot'.expires = slot.expires /\ slot'.revision = slot.revision /\ slot'.counter = slot.counter
      /\ slot.revision \in Nat
  BY <1>1 DEF E!Revoke, E!Tombstone, KeyRows
<1>3. KeyOn(slot, slot')
  BY <1>1, <1>2 DEF KeyOn
<1>4. ASSUME NEW i \in installed
      PROVE  InstalledAt(i)'
  <2>1. /\ i.expires \in Nat /\ i.until \in Nat /\ i.expires <= i.until /\ InstalledAt(i) /\ OfferLife \in Nat
    BY InstallationOf DEF E!EnrollmentAssumption
  <2>2. second < i.expires /\ i.id \notin forgotten' => FALSE
    <3>1. i.until = slot.expires => i.id \in forgotten'
      BY DEF E!Revoke
    <3>2. i.until # slot.expires => ~(second < i.expires)
      BY <1>1, <2>1 DEF InstalledAt
    <3>. QED BY <3>1, <3>2
  <2>. QED BY <1>1, <1>2, <2>1, <2>2 DEF E!Revoke, InstalledAt
<1>. QED BY <1>1, <1>2, <1>3, <1>4, TableStep, CallOf DEF E!Revoke, EnrollInv, EnrollmentTyped

LEMMA AlarmStep ==
  ASSUME E!EnrollmentAssumption, EnrollInv, E!Alarm
  PROVE  EnrollInv'
<1>1. slot \in KeyRows \cup {None} /\ None \notin KeyRows /\ second \in Nat /\ OfferLife \in Nat
  BY DEF EnrollInv, EnrollmentTyped, E!EnrollmentAssumption, KeyRows
<1>2. offer' = E!SweptOp
  BY DEF E!Alarm
<1>3. /\ slot' = E!SweptRow \/ (slot' = None /\ slot # None /\ second >= slot.expires + OfferLife /\ slot.expires \in Nat)
  BY <1>1, SweptTables DEF E!Alarm, KeyRows
<1>4. KeyOn(slot, slot') /\ slot' \in KeyRows \cup {None}
  BY <1>1, <1>3, SweptTables DEF KeyOn
<1>5. ASSUME NEW i \in installed
      PROVE  InstalledAt(i)'
  <2>1. /\ i.expires \in Nat /\ i.until \in Nat /\ i.expires <= i.until /\ InstalledAt(i)
    BY InstallationOf
  <2>2. (slot' # None /\ i.until = slot'.expires) \/ second >= i.until + OfferLife
    BY <1>1, <1>3, <2>1, SweptTables DEF InstalledAt
  <2>3. second < i.expires /\ i.id \notin forgotten => offer' = offer /\ slot' = slot
    <3>1. second < i.expires /\ i.id \notin forgotten => E!SweptOp = offer /\ E!SweptRow = slot
      BY SweptTables
    <3>2. second < i.expires /\ i.id \notin forgotten => slot # None /\ slot.expires = i.until
      BY <2>1 DEF InstalledAt
    <3>. QED BY <1>1, <1>2, <1>3, <2>1, <3>1, <3>2
  <2>4. offer' \in {offer, None}
    BY <1>2, SweptTables
  <2>. QED BY <2>1, <2>2, <2>3, <2>4 DEF E!Alarm, InstalledAt
<1>. QED BY <1>1, <1>2, <1>4, <1>5, SweptTables, TableStep, CallOf DEF E!Alarm, EnrollInv, EnrollmentTyped

LEMMA ChangeStep ==
  ASSUME E!EnrollmentAssumption, EnrollInv, E!Change
  PROVE  EnrollInv'
<1>1. policy' = [revision |-> policy'.revision, secret |-> policy'.secret] /\ policy'.revision \in Nat /\ policy'.secret \in Nat
  <2>1. policy = [revision |-> policy.revision, secret |-> policy.secret] /\ policy.revision \in Nat /\ policy.secret \in Nat
    BY DEF EnrollInv, EnrollmentTyped
  <2>2. policy' = [policy EXCEPT !.revision = @ + 1] \/ policy' = [policy EXCEPT !.secret = @ + 1]
    BY DEF E!Change
  <2>. QED BY <2>1, <2>2
<1>2. \A i \in installed : InstalledAt(i)'
  BY DEF E!Change, EnrollInv, InstalledAt
<1>. QED BY <1>1, <1>2, KeyStays, TableStep, CallOf DEF E!Change, EnrollInv, EnrollmentTyped

LEMMA TickStep ==
  ASSUME E!EnrollmentAssumption, EnrollInv, E!Tick
  PROVE  EnrollInv'
<1>1. second' \in Nat /\ second <= second'
  BY CallOf DEF E!Tick, EnrollInv, EnrollmentTyped
<1>2. ASSUME NEW i \in installed
      PROVE  InstalledAt(i)'
  <2>1. second \in Nat /\ second' = second + 1 /\ InstalledAt(i) /\ i \in Installs /\ OfferLife \in Nat
    BY InstallationOf DEF E!Tick, E!EnrollmentAssumption
  <2>. QED BY <2>1 DEF E!Tick, InstalledAt, Installs
<1>. QED BY <1>1, <1>2, KeyStays, TableStep, CallOf DEF E!Tick, EnrollInv, EnrollmentTyped

\* A step of one call that changes a table.
LEMMA MixedStep ==
  ASSUME E!EnrollmentAssumption, EnrollInv, NEW c \in E!Pending, NEW n, Becomes(c, n), Shaped(n),
         policy' = policy, second' = second, offer' \in Offers \cup {None}, slot' \in KeyRows \cup {None},
         installed \subseteq installed', installed' \subseteq Installs, KeyOn(slot, slot'),
         OfferOf', \A i \in installed' : InstalledAt(i)', CallAt(c)'
  PROVE  EnrollInv'
<1>1. DOMAIN enrollments' = E!Pending /\ \A d \in E!Pending : enrollments'[d] = IF d = c THEN n ELSE enrollments[d]
  BY DEF Becomes
<1>2. EnrollmentTyped'
  BY <1>1 DEF EnrollInv, EnrollmentTyped, Shaped
<1>3. second' \in Nat /\ second <= second'
  BY DEF EnrollInv, EnrollmentTyped
<1>4. \A d \in E!Pending : CallAt(d)'
  BY <1>1, <1>2, <1>3, CallKept
<1>. QED BY <1>2, <1>4 DEF EnrollInv

LEMMA OfferDrawn ==
  ASSUME E!EnrollmentAssumption, EnrollInv, offer # None
  PROVE  /\ offer \in Offers /\ offer.id \in Issues /\ offer.expires \in Nat /\ enrollments[offer.id].pc = "end"
         /\ offer.expires <= second + OfferLife /\ (offer.status = "registered" => Registration(offer.id, offer.digest, offer.until))
BY DEF EnrollInv, EnrollmentTyped, OfferOf, Offers

LEMMA IssuedStep ==
  ASSUME E!EnrollmentAssumption, EnrollInv, NEW c \in Issues, E!Issued(c)
  PROVE  EnrollInv'
<1>. DEFINE q == enrollments[c]
<1>1. c \in E!Pending /\ c \notin Enrolls /\ c \notin Rotations
  BY Kinds
<1>2. Shaped(q) /\ CallAt(c) /\ EnrollmentTyped /\ q.pc = "issuing"
  BY <1>1, CallOf DEF E!Issued
<1>3. q.op \in Offers /\ q.op.id = c /\ q.op.status = "challenge" /\ q.op.expires <= second + OfferLife /\ q.op # None
  BY <1>1, <1>2 DEF CallAt, Offers, E!EnrollmentAssumption
<1>a. PICK drawn : drawn = offer'.id
  OBVIOUS
<1>. DEFINE n == [pc |-> "end", op |-> q.op, body |-> q.body, valid |-> q.valid,
                  until |-> q.until, secret |-> q.secret, row |-> q.row, answer |-> drawn]
<1>4. Becomes(c, n)
  <2>1. [q EXCEPT !.pc = "end", !.answer = drawn] = n
    <3>1. Shaped(q)
      BY <1>2
    <3>. QED BY <3>1, SetAnswer
  <2>2. enrollments' = [enrollments EXCEPT ![c] = [q EXCEPT !.pc = "end", !.answer = drawn]]
    BY <1>1, <1>2, <1>a DEF E!Issued, E!Answer, EnrollmentTyped
  <2>. QED BY <1>1, <1>2, <2>1, <2>2, CallBecomes, Zenon
<1>5. /\ enrollments'[c] = n /\ enrollments'[c].pc = "end"
      /\ \A d \in E!Pending : enrollments[d].pc = "end" => enrollments'[d] = enrollments[d]
      /\ UNCHANGED <<policy, second, installed, forgotten>> /\ slot' = E!SweptRow
  BY <1>1, <1>2, <1>4 DEF Becomes, E!Issued
<1>6. \/ offer' = q.op /\ E!SweptOp = None
      \/ offer' = offer /\ offer # None /\ E!SweptOp = offer /\ offer.status = "challenge"
  BY SweptTables DEF E!Issued
<1>7. offer' \in Offers /\ offer'.status = "challenge" /\ offer'.expires <= second + OfferLife
      /\ offer'.id \in E!Pending /\ enrollments'[offer'.id].pc = "end" /\ offer' # None
  <2>1. CASE offer' = q.op
    BY <1>1, <1>3, <1>5, <2>1
  <2>2. CASE offer' = offer /\ offer # None /\ offer.status = "challenge"
    BY <1>5, <2>2, OfferDrawn, Kinds
  <2>. QED BY <1>6, <2>1, <2>2
<1>8. OfferOf'
  BY <1>5, <1>7 DEF OfferOf
<1>9. ASSUME NEW i \in installed'
      PROVE  InstalledAt(i)'
  <2>1. /\ i \in installed /\ InstalledAt(i) /\ i.id \in E!Pending
    BY <1>5, InstallationOf, Kinds
  <2>2. ~(second < i.expires /\ i.id \notin forgotten)
    <3>1. second < i.expires /\ i.id \notin forgotten => E!SweptOp = offer /\ offer # None /\ offer.status = "registered"
      BY <2>1, SweptTables DEF InstalledAt
    <3>. QED BY <1>6, <3>1
  <2>3. offer'.id # i.id
    <3>1. enrollments[i.id].pc = "end" /\ i.id # c
      BY <1>2, <2>1 DEF InstalledAt
    <3>2. offer' = offer /\ offer # None /\ offer.status = "challenge" => offer'.id # i.id
      BY <2>1 DEF InstalledAt
    <3>. QED BY <1>3, <1>6, <3>1, <3>2
  <2>4. slot # None /\ i.until = slot.expires => slot' # None /\ i.until = slot'.expires
    BY <1>5, SweptTables
  <2>5. enrollments'[i.id].pc = "end"
    BY <1>5, <2>1 DEF InstalledAt
  <2>. QED BY <1>5, <2>1, <2>2, <2>3, <2>4, <2>5 DEF InstalledAt
<1>10. CallAt(c)'
  BY <1>1, <1>5 DEF CallAt
<1>11. Shaped(n)
  BY DEF Shaped
<1>12. installed \subseteq installed' /\ installed' \subseteq Installs
  BY <1>2, <1>5 DEF EnrollmentTyped
<1>13. KeyOn(slot, slot') /\ slot' \in KeyRows \cup {None}
  BY <1>5, SweptTables
<1>. QED BY <1>1, <1>4, <1>5, <1>7, <1>8, <1>9, <1>10, <1>11, <1>12, <1>13, MixedStep

LEMMA RotatedStep ==
  ASSUME E!EnrollmentAssumption, EnrollInv, NEW c \in Rotations, E!Rotated(c)
  PROVE  EnrollInv'
<1>. DEFINE q == enrollments[c]
<1>1. c \in E!Pending /\ c \notin Enrolls /\ c \notin Issues
  BY Kinds
<1>2. Shaped(q) /\ CallAt(c) /\ EnrollmentTyped /\ q.pc = "encrypt"
  BY <1>1, CallOf DEF E!Rotated
<1>3. /\ slot # None /\ slot.status = "active" /\ slot.revision = q.row.revision /\ second < q.row.expires
      /\ q.row \in KeyRows /\ q.row.status = "active" /\ q.secret \in Nat
      /\ slot.expires = q.row.expires /\ q.row.counter = slot.counter
  <2>1. q.row \in KeyRows /\ q.row.expires \in Nat /\ second \in Nat
    BY <1>1, <1>2, CallOf DEF CallAt, KeyRows
  <2>. QED BY <1>2, <2>1 DEF CallAt, E!Rotated, E!IsRead, E!IsActive
<1>. DEFINE n == [pc |-> "end", op |-> q.op, body |-> q.body, valid |-> q.valid,
                  until |-> q.until, secret |-> q.secret, row |-> q.row, answer |-> "rotated"]
<1>4. Becomes(c, n)
  <2>1. [q EXCEPT !.pc = "end", !.answer = "rotated"] = n
    BY <1>2, SetAnswer, Zenon
  <2>2. enrollments' = [enrollments EXCEPT ![c] = [q EXCEPT !.pc = "end", !.answer = "rotated"]]
    BY <1>1, <1>2 DEF E!Rotated, E!Answer, EnrollmentTyped
  <2>. QED BY <1>1, <1>2, <2>1, <2>2, CallBecomes, Zenon
<1>5. /\ enrollments'[c] = n /\ enrollments'[c].pc = "end"
      /\ \A d \in E!Pending : enrollments[d].pc = "end" => enrollments'[d] = enrollments[d]
      /\ UNCHANGED <<offer, policy, second, installed, forgotten>>
  BY <1>1, <1>2, <1>4 DEF Becomes, E!Rotated
<1>6. /\ slot' \in KeyRows /\ slot'.status = "active" /\ slot'.expires = slot.expires
      /\ slot'.revision = slot.revision + 1 /\ slot'.counter = slot.counter /\ slot.revision \in Nat /\ slot' # None
  <2>1. PICK status0, expires0, counter0, revision0, secret0 :
          /\ q.row = [status |-> status0, expires |-> expires0, counter |-> counter0, revision |-> revision0,
                      secret |-> secret0]
          /\ status0 \in {"active", "revoked"} /\ expires0 \in Nat /\ counter0 \in Nat /\ revision0 \in Nat
          /\ secret0 \in Nat
    BY <1>3 DEF KeyRows
  <2>2. PICK r, next, fresh : r = q.row /\ next = q.row.revision + 1 /\ fresh = q.secret
    OBVIOUS
  <2>3. slot' = [r EXCEPT !.secret = fresh, !.revision = next]
    BY <2>2 DEF E!Rotated
  <2>4. slot' = [status |-> status0, expires |-> expires0, counter |-> counter0, revision |-> next, secret |-> fresh]
    <3>1. r = [status |-> status0, expires |-> expires0, counter |-> counter0, revision |-> revision0,
               secret |-> secret0]
      BY <2>1, <2>2
    <3>. QED BY <2>3, <3>1, Zenon
  <2>5. slot' \in KeyRows
    BY <1>3, <2>1, <2>2, <2>4 DEF KeyRows
  <2>6. slot' # None
    BY <2>5 DEF E!EnrollmentAssumption, KeyRows
  <2>. QED BY <1>3, <2>1, <2>2, <2>4, <2>5, <2>6
<1>7. OfferOf'
  <2>1. offer # None => enrollments'[offer.id].pc = "end"
    BY <1>5, OfferDrawn, Kinds
  <2>. QED BY <1>5, <2>1 DEF EnrollInv, OfferOf, Registration
<1>8. ASSUME NEW i \in installed'
      PROVE  InstalledAt(i)'
  <2>1. i \in installed /\ InstalledAt(i) /\ i.id \in E!Pending
    BY <1>5, InstallationOf, Kinds
  <2>2. enrollments'[i.id].pc = "end"
    BY <1>5, <2>1 DEF InstalledAt
  <2>. QED BY <1>3, <1>5, <1>6, <2>1, <2>2 DEF InstalledAt
<1>9. CallAt(c)'
  BY <1>1, <1>5 DEF CallAt
<1>10. Shaped(n)
  BY DEF Shaped
<1>11. installed \subseteq installed' /\ installed' \subseteq Installs /\ offer' \in Offers \cup {None}
  BY <1>2, <1>5 DEF EnrollmentTyped
<1>12. KeyOn(slot, slot')
  BY <1>3, <1>6 DEF KeyOn
<1>. QED BY <1>1, <1>4, <1>5, <1>6, <1>7, <1>8, <1>9, <1>10, <1>11, <1>12, MixedStep

LEMMA InstallStep ==
  ASSUME E!EnrollmentAssumption, EnrollInv, NEW c \in Enrolls, E!Install(c)
  PROVE  EnrollInv'
<1>. DEFINE q == enrollments[c]
<1>a. PICK j : j = [id |-> q.op.id, body |-> q.body, until |-> q.until, at |-> second, revision |-> policy.revision,
                    drawn |-> q.op.revision, expires |-> q.op.expires]
  OBVIOUS
<1>. DEFINE n == [pc |-> "arming", op |-> q.op, body |-> q.body, valid |-> q.valid,
                  until |-> q.until, secret |-> q.secret, row |-> q.row, answer |-> q.answer]
<1>1. c \in E!Pending /\ c \notin Issues /\ c \notin Rotations
  BY Kinds
<1>2. Shaped(q) /\ CallAt(c) /\ EnrollmentTyped /\ q.pc = "committing" /\ second \in Nat /\ OfferLife \in Nat
  BY <1>1, CallOf DEF E!Install, E!EnrollmentAssumption
<1>3. /\ offer # None /\ q.op = offer /\ offer \in Offers /\ offer.status = "challenge" /\ q.body \in Attested
      /\ second < offer.expires /\ policy.revision = offer.revision /\ policy.revision \in Nat
      /\ slot = None /\ q.until \in Nat /\ offer.expires <= q.until /\ q.secret \in Nat
      /\ enrollments[offer.id].pc = "end" /\ offer.id \in E!Pending /\ offer.id # c /\ offer.expires \in Nat
      /\ offer.expires <= second + OfferLife
  <2>1. offer # None /\ q.op = offer /\ second < offer.expires /\ policy.revision = offer.revision /\ slot = None
    BY DEF E!Install, E!MayInstall, E!IsStill, E!IsLive
  <2>. QED BY <1>1, <1>2, <2>1, CallOf, OfferDrawn, Kinds DEF CallAt
<1>4. Becomes(c, n)
  <2>1. [q EXCEPT !.pc = "arming"] = n
    BY <1>2, SetArming, Zenon
  <2>2. enrollments' = [enrollments EXCEPT ![c] = [q EXCEPT !.pc = "arming"]]
    BY <1>1, <1>2 DEF E!Install, E!Step, EnrollmentTyped
  <2>. QED BY <1>1, <1>2, <2>1, <2>2, CallBecomes, Zenon
<1>5. /\ enrollments'[c] = n /\ policy' = policy /\ second' = second /\ forgotten' = forgotten
      /\ \A d \in E!Pending : enrollments[d].pc = "end" => enrollments'[d] = enrollments[d]
      /\ installed' = installed \cup {j}
  BY <1>1, <1>2, <1>4, <1>a DEF Becomes, E!Install
<1>6. /\ slot' = [status |-> "active", expires |-> q.until, counter |-> 0, revision |-> 1, secret |-> q.secret]
      /\ slot' \in KeyRows /\ slot' # None
  <2>1. slot' = [status |-> "active", expires |-> q.until, counter |-> 0, revision |-> 1, secret |-> q.secret]
    BY DEF E!Install
  <2>2. slot' \in KeyRows
    BY <1>3, <2>1 DEF KeyRows
  <2>. QED BY <2>1, <2>2 DEF E!EnrollmentAssumption, KeyRows
<1>7. /\ offer' \in Offers /\ offer'.id = offer.id /\ offer'.status = "registered" /\ offer'.digest = q.body
      /\ offer'.until = q.until /\ offer'.expires = offer.expires /\ offer' # None /\ offer'.revision = offer.revision
  <2>1. PICK id0, status0, expires0, revision0, digest0, until0 :
          offer = [id |-> id0, status |-> status0, expires |-> expires0, revision |-> revision0, digest |-> digest0,
                   until |-> until0] /\ id0 \in Issues /\ expires0 \in Nat /\ revision0 \in Nat
    BY <1>3 DEF Offers
  <2>2. PICK b, u : b = q.body /\ u = q.until
    OBVIOUS
  <2>3. offer' = [offer EXCEPT !.status = "registered", !.digest = b, !.until = u]
    BY <1>3, <2>2 DEF E!Install, E!Receipt
  <2>4. offer' = [id |-> id0, status |-> "registered", expires |-> expires0, revision |-> revision0, digest |-> b,
                  until |-> u]
    BY <2>1, <2>3, Zenon
  <2>5. offer' \in Offers
    BY <1>3, <2>1, <2>2, <2>4 DEF Offers
  <2>6. offer' # None
    BY <2>5 DEF E!EnrollmentAssumption, Offers
  <2>. QED BY <2>1, <2>2, <2>4, <2>5, <2>6
<1>8. /\ j \in Installs /\ j.id = offer.id /\ j.body = q.body /\ j.until = q.until /\ j.at = second
      /\ j.revision = j.drawn /\ j.revision = policy.revision /\ j.expires = offer.expires
  BY <1>2, <1>3, <1>a DEF Installs, Offers
<1>. HIDE DEF n, q
<1>9. \A i \in installed : i.id # offer.id /\ second >= i.until + OfferLife
  BY <1>3, InstallationOf DEF InstalledAt
<1>10. OfferOf'
  <2>1. Registration(offer.id, offer.digest, offer.until)'
    BY <1>5, <1>7, <1>8 DEF Registration
  <2>. QED BY <1>3, <1>5, <1>7, <2>1 DEF OfferOf
<1>11. ASSUME NEW i \in installed
       PROVE  InstalledAt(i)'
  <2>1. /\ i.id \in E!Pending /\ InstalledAt(i) /\ i.expires \in Nat /\ i.until \in Nat /\ i.expires <= i.until
        /\ i.at \in Nat /\ i.id # offer.id /\ second >= i.until + OfferLife
    BY <1>9, InstallationOf, Kinds
  <2>2. enrollments'[i.id].pc = "end"
    BY <1>5, <2>1 DEF InstalledAt
  <2>3. \A k \in installed' \ {i} : k.id # i.id /\ (k.at >= i.until + OfferLife \/ i.at >= k.until + OfferLife)
    BY <1>5, <1>8, <2>1 DEF InstalledAt
  <2>4. ~(second < i.expires)
    BY <1>2, <2>1
  <2>. QED BY <1>5, <1>7, <2>1, <2>2, <2>3, <2>4 DEF InstalledAt
<1>12. InstalledAt(j)'
  <2>1. \A k \in installed' \ {j} : k.id # j.id /\ (k.at >= j.until + OfferLife \/ j.at >= k.until + OfferLife)
    BY <1>5, <1>8, <1>9
  <2>2. enrollments'[j.id].pc = "end"
    BY <1>3, <1>5, <1>8
  <2>. QED BY <1>2, <1>3, <1>5, <1>6, <1>7, <1>8, <2>1, <2>2 DEF InstalledAt
<1>13. CallAt(c)'
  <2>1. q.answer # "registered"
    BY <1>1, <1>2 DEF CallAt, q
  <2>. QED BY <1>1, <1>5, <2>1 DEF CallAt, n
<1>14. Shaped(n)
  BY DEF Shaped, n
<1>15. installed \subseteq installed' /\ installed' \subseteq Installs
  BY <1>2, <1>5, <1>8 DEF EnrollmentTyped
<1>16. KeyOn(slot, slot')
  BY <1>3 DEF KeyOn
<1>17. \A i \in installed' : InstalledAt(i)'
  BY <1>5, <1>11, <1>12
<1>. QED BY <1>1, <1>4, <1>5, <1>6, <1>7, <1>10, <1>13, <1>14, <1>15, <1>16, <1>17, MixedStep

LEMMA RestartStep ==
  ASSUME E!EnrollmentAssumption, EnrollInv, E!Restart
  PROVE  EnrollInv'
<1>1. UNCHANGED <<offer, slot, policy, second, installed, forgotten>> /\ DOMAIN enrollments' = E!Pending
  BY DEF E!Restart
<1>2. ASSUME NEW c \in E!Pending
      PROVE  /\ Shaped(enrollments'[c]) /\ (enrollments[c].pc = "end" => enrollments'[c].pc = "end")
             /\ enrollments'[c] = enrollments[c] \/ (enrollments'[c].pc = "end" /\ enrollments'[c].answer = "lost")
  <2>. DEFINE q == enrollments[c]
  <2>1. Shaped(q)
    BY CallOf
  <2>2. enrollments'[c] = IF q.pc \in {"idle", "end"} THEN q ELSE [q EXCEPT !.pc = "end", !.answer = "lost"]
    BY DEF E!Restart
  <2>3. CASE q.pc \in {"idle", "end"}
    BY <2>1, <2>2, <2>3
  <2>4. CASE q.pc \notin {"idle", "end"}
    <3>. DEFINE n == [pc |-> "end", op |-> q.op, body |-> q.body, valid |-> q.valid,
                      until |-> q.until, secret |-> q.secret, row |-> q.row, answer |-> "lost"]
    <3>1. [q EXCEPT !.pc = "end", !.answer = "lost"] = n
      BY <2>1, SetAnswer, Zenon
    <3>2. enrollments'[c] = n
      BY <2>2, <2>4, <3>1, Zenon
    <3>. QED BY <2>4, <3>2 DEF Shaped
  <2>. QED BY <2>3, <2>4
<1>3. EnrollmentTyped'
  BY <1>1, <1>2 DEF EnrollInv, EnrollmentTyped
<1>4. OfferOf'
  <2>1. offer # None => enrollments'[offer.id].pc = "end"
    BY <1>2, OfferDrawn, Kinds
  <2>. QED BY <1>1, <2>1 DEF EnrollInv, OfferOf, Registration
<1>5. \A i \in installed' : InstalledAt(i)'
  <2>1. \A i \in installed : enrollments'[i.id].pc = "end"
    BY <1>2, InstallationOf, Kinds DEF InstalledAt
  <2>. QED BY <1>1, <2>1, InstalledKept
<1>6. ASSUME NEW c \in E!Pending
      PROVE  CallAt(c)'
  <2>1. CASE enrollments'[c] = enrollments[c]
    <3>1. KeyOn(slot, slot') /\ second' \in Nat /\ second <= second'
      BY <1>1, KeyStays DEF EnrollInv, EnrollmentTyped
    <3>. QED BY <1>1, <1>3, <2>1, <3>1, CallKept
  <2>2. CASE enrollments'[c].pc = "end" /\ enrollments'[c].answer = "lost"
    BY <2>2 DEF CallAt
  <2>. QED BY <1>2, <2>1, <2>2
<1>. QED BY <1>3, <1>4, <1>5, <1>6 DEF EnrollInv

LEMMA EnrollStart ==
  ASSUME E!EnrollmentAssumption, E!Init
  PROVE  EnrollInv
<1>1. EnrollmentTyped
  BY DEF E!Init, EnrollmentTyped, Shaped
<1>2. OfferOf /\ \A i \in installed : InstalledAt(i)
  BY DEF E!Init, OfferOf
<1>3. \A c \in E!Pending : CallAt(c)
  BY DEF E!Init, CallAt, E!EnrollmentAssumption
<1>. QED BY <1>1, <1>2, <1>3 DEF EnrollInv

LEMMA EnrollStep ==
  ASSUME E!EnrollmentAssumption, EnrollInv, [E!Next]_(E!vars)
  PROVE  EnrollInv'
<1>1. CASE UNCHANGED E!vars
  BY <1>1 DEF E!vars, EnrollInv, EnrollmentTyped, Shaped, OfferOf, InstalledAt, CallAt, Registration, E!Pending
<1>2. ASSUME NEW c \in Issues, E!Issue(c) \/ E!Issued(c)
      PROVE  EnrollInv'
  BY <1>2, IssueStep, IssuedStep
<1>3. ASSUME NEW c \in Enrolls,
             E!Repeat(c) \/ E!Begin(c) \/ E!Verified(c) \/ E!Lock(c) \/ E!Install(c) \/ E!Enrolled(c)
      PROVE  EnrollInv'
  BY <1>3, RepeatStep, BeginStep, VerifiedStep, LockStep, InstallStep, EnrolledStep
<1>4. ASSUME NEW c \in Rotations, E!Rotate(c) \/ E!Rotated(c)
      PROVE  EnrollInv'
  BY <1>4, RotateStep, RotatedStep
<1>5. ASSUME NEW c \in E!Pending, E!Refuse(c)
      PROVE  EnrollInv'
  BY <1>5, RefuseStep
<1>6. CASE E!Advance \/ E!Revoke \/ E!Alarm \/ E!Restart \/ E!Change \/ E!Tick
  BY <1>6, AdvanceStep, RevokeStep, AlarmStep, RestartStep, ChangeStep, TickStep
<1>. QED BY <1>1, <1>2, <1>3, <1>4, <1>5, <1>6 DEF E!Next

LEMMA EnrollHolds ==
  ASSUME E!EnrollmentAssumption
  PROVE  E!Spec => []EnrollInv
<1>1. E!Init => EnrollInv
  BY EnrollStart
<1>2. EnrollInv /\ [E!Next]_(E!vars) => EnrollInv'
  BY EnrollStep
<1>. QED BY <1>1, <1>2, PTL DEF E!Spec

\* An enrollment takes effect once, under the policy and within the life of its
\* challenge, never over another key or its tombstone; and one whose answer was
\* lost may be asked for again (enrollment-key-state.ts, receipt-key-store.ts).
THEOREM EnrollmentsTakeEffectOnce ==
  ASSUME E!EnrollmentAssumption
  PROVE  E!Spec => []OneEnrollment
<1>1. EnrollInv => OneEnrollment
  <2>. SUFFICES ASSUME EnrollInv
                PROVE  E!OneEnrollment
    BY DEF OneEnrollment
  <2>1. E!InstalledOnce
    BY DEF EnrollInv, InstalledAt, E!InstalledOnce
  <2>2. ASSUME NEW c \in Enrolls, enrollments[c].answer = "registered"
        PROVE  Registration(enrollments[c].op.id, enrollments[c].body, enrollments[c].until)
    BY <2>2, CallOf, Kinds DEF CallAt
  <2>3. ASSUME NEW i \in installed, second < i.expires, i.id \notin forgotten, policy.revision = i.revision, E!IsPolicy
        PROVE  E!IsRegistered(i.id, i.body)
    <3>1. InstalledAt(i) /\ i.expires \in Nat /\ i.until \in Nat /\ second \in Nat /\ i.expires <= i.until
      BY InstallationOf
    <3>. QED BY <2>3, <3>1 DEF InstalledAt, E!IsRegistered, E!IsLive
  <2>4. E!Repeatable
    BY <2>2, <2>3 DEF E!Repeatable, Registration
  <2>. QED BY <2>1, <2>4 DEF E!OneEnrollment
<1>2. E!Spec => []EnrollInv
  BY EnrollHolds
<1>. QED BY <1>1, <1>2, PTL

LEMMA KeyKept ==
  ASSUME E!EnrollmentAssumption, EnrollInv, [E!Next]_(E!vars)
  PROVE  E!KeepsKey
<1>1. /\ None \notin KeyRows /\ slot \in KeyRows \cup {None}
      /\ slot # None => slot \in KeyRows /\ slot.counter \in Nat /\ slot.revision \in Nat
  BY DEF EnrollInv, EnrollmentTyped, E!EnrollmentAssumption, KeyRows
<1>2. CASE UNCHANGED slot
  BY <1>1, <1>2 DEF E!KeepsKey
<1>3. CASE E!Advance
  <2>1. slot \in KeyRows /\ slot.status = "active" /\ slot.counter \in Nat
    BY <1>1, <1>3 DEF E!Advance, E!IsActive
  <2>2. slot'.counter = slot.counter + 1
    BY <1>3, <2>1 DEF E!Advance, KeyRows
  <2>. QED BY <2>1, <2>2 DEF E!KeepsKey
<1>4. CASE E!Revoke
  <2>1. slot \in KeyRows /\ slot.counter \in Nat
    BY <1>1, <1>4 DEF E!Revoke
  <2>2. slot'.counter = slot.counter /\ slot'.status = "revoked"
    BY <1>4, <2>1 DEF E!Revoke, E!Tombstone, KeyRows
  <2>. QED BY <2>1, <2>2 DEF E!KeepsKey
<1>5. CASE slot' = E!SweptRow \/ slot' = None
  <2>1. CASE ~E!IsExpiring
    BY <1>1, <1>5, <2>1 DEF E!SweptRow, E!KeepsKey
  <2>2. CASE E!IsExpiring
    <3>1. slot \in KeyRows /\ slot.counter \in Nat
      BY <1>1, <2>2 DEF E!IsExpiring
    <3>2. E!SweptRow.counter = slot.counter /\ E!SweptRow.status = "revoked"
      BY <2>2, <3>1 DEF E!SweptRow, E!Tombstone, KeyRows
    <3>. QED BY <1>5, <3>1, <3>2 DEF E!KeepsKey
  <2>. QED BY <2>1, <2>2
<1>6. ASSUME NEW c \in Rotations, E!Rotated(c)
      PROVE  E!KeepsKey
  <2>. DEFINE q == enrollments[c]
  <2>1. slot \in KeyRows /\ slot.status = "active" /\ slot.revision = q.row.revision /\ second < q.row.expires /\ slot # None
    BY <1>1, <1>6 DEF E!Rotated, E!IsRead, E!IsActive
  <2>2. /\ q.pc = "encrypt" /\ CallAt(c)
    BY <1>6, CallOf, Kinds DEF E!Rotated
  <2>3. /\ q.row \in KeyRows /\ q.row.expires \in Nat /\ second \in Nat
    BY <2>2, CallOf, Kinds DEF CallAt, KeyRows
  <2>4. q.row.counter = slot.counter
    BY <2>1, <2>2, <2>3 DEF CallAt
  <2>5. slot'.counter = q.row.counter
    BY <1>6, <2>3 DEF E!Rotated, KeyRows
  <2>. QED BY <1>1, <2>1, <2>4, <2>5 DEF E!KeepsKey
<1>7. ASSUME NEW c \in Enrolls, E!Install(c)
      PROVE  E!KeepsKey
  BY <1>7 DEF E!Install, E!MayInstall, E!KeepsKey
<1>8. ASSUME NEW c \in Issues, E!Issued(c)
      PROVE  slot' = E!SweptRow
  BY <1>8 DEF E!Issued
<1>9. E!Alarm => slot' = E!SweptRow \/ slot' = None
  BY DEF E!Alarm
<1>10. \/ UNCHANGED slot \/ E!Advance \/ E!Revoke \/ E!Alarm \/ (\E c \in Rotations : E!Rotated(c))
       \/ (\E c \in Enrolls : E!Install(c)) \/ \E c \in Issues : E!Issued(c)
  BY DEF E!Next, E!vars, E!Issue, E!Repeat, E!Begin, E!Verified, E!Lock, E!Enrolled, E!Rotate, E!Refuse, E!Restart,
         E!Change, E!Tick
<1>. QED BY <1>2, <1>3, <1>4, <1>5, <1>6, <1>7, <1>8, <1>9, <1>10

\* The counter of a key never falls and a deletion is not undone, although a
\* rotation writes back the row it read before it encrypted (receipt-key-store.ts).
THEOREM NothingIsUndone ==
  ASSUME E!EnrollmentAssumption
  PROVE  E!Spec => NeverUndone
<1>1. EnrollInv /\ [E!Next]_(E!vars) => [E!KeepsKey]_(E!vars)
  BY KeyKept
<1>2. E!Spec => []EnrollInv
  BY EnrollHolds
<1>. QED BY <1>1, <1>2, PTL DEF E!Spec, NeverUndone, E!NeverUndone
=============================================================================
