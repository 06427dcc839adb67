------------------------- MODULE RendezvousAdmission -------------------------
(***************************************************************************)
(* What a rendezvous request pays before it reaches a transaction or a key *)
(* (src/qualification/rendezvous, mounted by src/src/rendezvous).  The     *)
(* worker has the object of request admission count the request, and then  *)
(* either has the allocation index create a descriptor, which itself asks  *)
(* the allocation budget, or looks one up there, or pays the budget for a  *)
(* call of a key.  Each object turns away what comes while it is busy,     *)
(* awaits its alarm, and counts in one transaction; minutes and days end,  *)
(* objects restart and requests are cut off anywhere between.              *)
(*                                                                         *)
(* The clock counts minutes.  An identity is an address in one minute; the *)
(* bodies and their codecs, CORS and the retry hints are left out.         *)
(***************************************************************************)
EXTENDS Integers, FiniteSets

CONSTANTS
  Requests, AsksOf,  \* [Requests -> set of [kind, ip, tx]]
  Ips,
  Cleaner,           \* the alarm of an object, when it holds it
  LaneLimit,         \* [Lanes -> Nat], for one identity
  IdentityLimit,     \* requests of one identity
  RegularMinute, TotalMinute, RegularDay, TotalDay,
  Identities,        \* rows of identities
  TransactionLimit, KeyLimit, CallLimit,   \* of a day
  PerIdentity,       \* transactions of one identity
  BudgetRows,        \* rows of identities the budget keeps
  IndexCapacity,
  DayLength,         \* minutes of a day
  MaxRestarts,       \* bound: restarts of objects
  MaxTime,           \* bound: the clock
  None

Lanes == {"poll", "create", "native", "terminal"}
Objects == {"requests", "budget", "index"}
Minutes == 0 .. MaxTime
Days == 0 .. MaxTime \div DayLength

\* An identity may use the share of each of its lanes.
AdmissionAssumption ==
  /\ IsFiniteSet(Requests) /\ MaxTime \in Nat /\ DayLength \in Nat \ {0}
  /\ AsksOf \in [Requests -> SUBSET [kind : {"create", "poll", "end", "challenge", "register"},
                                    ip : Ips, tx : Requests \cup {None}]]
  /\ LaneLimit \in [Lanes -> Nat] /\ IdentityLimit \in Nat
  /\ LaneLimit["poll"] + LaneLimit["create"] + LaneLimit["native"] + LaneLimit["terminal"] <= IdentityLimit
  /\ {RegularMinute, TotalMinute, RegularDay, TotalDay, Identities} \subseteq Nat
  /\ {TransactionLimit, KeyLimit, CallLimit, PerIdentity, BudgetRows, IndexCapacity} \subseteq Nat
  /\ None \notin Nat \cup Requests \cup {"created", "routed", "forwarded", "rate_limited"}

VARIABLES
  adm,       \* the tables of RequestAdmission
  bud,       \* the tables of AllocationBudget
  idx,       \* allocation_index: when the descriptor of a create expires
  children,  \* transactions created: the minute of their descriptor
  busy,      \* who holds each object
  rq,        \* the requests
  enabled,   \* the policies of the environment
  now,
  restarts

vars == <<adm, bud, idx, children, busy, rq, enabled, now, restarts>>

Day(m) == m \div DayLength
LaneOf(ask) ==
  CASE ask.kind = "create" -> "create" [] ask.kind = "poll" -> "poll"
    [] ask.kind = "end" -> "terminal"  [] OTHER -> "native"

Step(r, pc) == rq' = [rq EXCEPT ![r].pc = pc]
Paid(r, what, pc) == rq' = [rq EXCEPT ![r].pc = pc, ![r].paid = @ \cup {what}]
Enter(o, r) == busy' = [busy EXCEPT ![o] = r]
Leave(o) == busy' = [busy EXCEPT ![o] = None]

\* The request is answered and holds no object any more.
Answer(r, what) ==
  /\ rq' = [rq EXCEPT ![r].pc = "end", ![r].answer = what]
  /\ busy' = [o \in Objects |-> IF busy[o] = r THEN None ELSE busy[o]]

\* The policies hold and the minute of the identity is still the current one.
IsCurrent(r) == enabled /\ now = rq[r].minute

\* What a table keeps, where absent rows count zero.
Kept(table, live, none) == [x \in DOMAIN table |-> IF x \in live THEN table[x] ELSE none]
LiveMinutes == {m \in Minutes : now < m + 2}
LiveDays == {d \in Days : now < (d + 1) * DayLength}

Ask(r) ==
  /\ rq[r].pc = "idle" /\ enabled
  /\ \E ask \in AsksOf[r] :
       rq' = [rq EXCEPT ![r].ask = ask, ![r].minute = now, ![r].pc = "admit"]
  /\ UNCHANGED <<adm, bud, idx, children, busy, enabled, now, restarts>>

(***************************************************************************)
(* RequestAdmission.                                                       *)
(***************************************************************************)
NoOne == [ip \in Ips |-> [lane \in Lanes |-> 0]]
TotalOf(lanes) == lanes["poll"] + lanes["create"] + lanes["native"] + lanes["terminal"]

SweptRequests ==
  [days |-> Kept(adm.days, LiveDays, 0), minutes |-> Kept(adm.minutes, LiveMinutes, 0),
   endDays |-> Kept(adm.endDays, LiveDays, 0), endMinutes |-> Kept(adm.endMinutes, LiveMinutes, 0),
   ips |-> Kept(adm.ips, LiveMinutes, NoOne)]

Known(t) == {i \in Minutes \X Ips : TotalOf(t.ips[i[1]][i[2]]) > 0}

IsRegularFullLate(t, m) ==
  \/ t.days[Day(m)] - t.endDays[Day(m)] > RegularDay
  \/ t.minutes[m] - t.endMinutes[m] > RegularMinute

\* Terminal requests do not count against the regular limits.
IsRegularFull(t, m) ==
  \/ t.days[Day(m)] - t.endDays[Day(m)] >= RegularDay
  \/ t.minutes[m] - t.endMinutes[m] >= RegularMinute

IsDeniedAlike(t, m, ip, lane) ==
  \/ t.days[Day(m)] >= TotalDay \/ t.minutes[m] >= TotalMinute \/ IsRegularFull(t, m)
  \/ TotalOf(t.ips[m][ip]) >= IdentityLimit \/ t.ips[m][ip][lane] >= LaneLimit[lane]
  \/ <<m, ip>> \notin Known(t) /\ Cardinality(Known(t)) >= Identities

IsDenied(t, m, ip, lane) ==
  \/ t.days[Day(m)] >= TotalDay \/ t.minutes[m] >= TotalMinute
  \/ lane # "terminal" /\ IsRegularFull(t, m)
  \/ TotalOf(t.ips[m][ip]) >= IdentityLimit \/ t.ips[m][ip][lane] >= LaneLimit[lane]
  \/ <<m, ip>> \notin Known(t) /\ Cardinality(Known(t)) >= Identities

Charged(t, m, ip, lane) ==
  LET ends == IF lane = "terminal" THEN 1 ELSE 0
  IN [t EXCEPT !.days[Day(m)] = @ + 1, !.minutes[m] = @ + 1, !.ips[m][ip][lane] = @ + 1,
               !.endDays[Day(m)] = @ + ends, !.endMinutes[m] = @ + ends]

EnterAdmission(r) ==
  /\ rq[r].pc = "admit" /\ IsCurrent(r) /\ busy["requests"] = None
  /\ Enter("requests", r) /\ Step(r, "admitting")
  /\ UNCHANGED <<adm, bud, idx, children, enabled, now, restarts>>

Admit(r) ==
  LET lane == LaneOf(rq[r].ask)
  IN /\ rq[r].pc = "admitting" /\ IsCurrent(r)
     /\ IF IsDenied(SweptRequests, now, rq[r].ask.ip, lane)
          THEN adm' = SweptRequests /\ Answer(r, "rate_limited")
          ELSE /\ adm' = Charged(SweptRequests, now, rq[r].ask.ip, lane)
               /\ Paid(r, "request", "admitted") /\ Leave("requests")
     /\ UNCHANGED <<bud, idx, children, enabled, now, restarts>>

(***************************************************************************)
(* The worker: the body is read, and the route taken.                      *)
(***************************************************************************)
Dispatch(r) ==
  LET kind == rq[r].ask.kind
  IN /\ rq[r].pc = "admitted" /\ IsCurrent(r)
     /\ Step(r, CASE kind = "create" -> "allocate" [] kind \in {"poll", "end"} -> "lookup" [] OTHER -> "call")
     /\ UNCHANGED <<adm, bud, idx, children, busy, enabled, now, restarts>>

(***************************************************************************)
(* AllocationIndex.allocate, which holds the index while it asks for the   *)
(* budget, and lookup.                                                     *)
(***************************************************************************)
EnterIndex(r) ==
  /\ rq[r].pc = "allocate" /\ IsCurrent(r) /\ busy["index"] = None
  /\ Enter("index", r) /\ Step(r, "budget")
  /\ UNCHANGED <<adm, bud, idx, children, enabled, now, restarts>>

Listed == {r \in Requests : idx[r] # None /\ now < idx[r]}

\* The charge of a descriptor that finds no room is lost.
Index(r) ==
  /\ rq[r].pc = "indexing" /\ IsCurrent(r)
  /\ LET live == Kept(idx, Listed, None)
     IN IF Cardinality(Listed) < IndexCapacity
          THEN idx' = [live EXCEPT ![r] = now + 2] /\ Step(r, "indexed") /\ Leave("index")
          ELSE idx' = idx /\ Answer(r, "rate_limited")
  /\ UNCHANGED <<adm, bud, children, enabled, now, restarts>>

\* The transaction's object is called, and answers in its own time.
CallChild(r) ==
  /\ rq[r].pc = "indexed" /\ IsCurrent(r) /\ Step(r, "child")
  /\ UNCHANGED <<adm, bud, idx, children, busy, enabled, now, restarts>>

Create(r) ==
  /\ rq[r].pc = "child" /\ now < rq[r].minute + 2
  /\ children' = [children EXCEPT ![r] = rq[r].minute]
  /\ Step(r, "created")
  /\ UNCHANGED <<adm, bud, idx, busy, enabled, now, restarts>>

\* The descriptor is looked up once more for the answer.
Created(r) ==
  /\ rq[r].pc = "created" /\ IsCurrent(r) /\ r \in Listed /\ Answer(r, "created")
  /\ UNCHANGED <<adm, bud, idx, children, enabled, now, restarts>>

Lookup(r) ==
  LET t == rq[r].ask.tx
  IN /\ rq[r].pc = "lookup" /\ IsCurrent(r)
     /\ Answer(r, CASE t \in Listed -> "routed" [] idx[t] = None -> "invalid" [] OTHER -> "expired")
     /\ UNCHANGED <<adm, bud, idx, children, enabled, now, restarts>>

(***************************************************************************)
(* AllocationBudget: a transaction, a call of a key and an enrollment.     *)
(***************************************************************************)
SweptBudget ==
  [transactions |-> Kept(bud.transactions, LiveDays, 0), keys |-> Kept(bud.keys, LiveDays, 0),
   calls |-> Kept(bud.calls, LiveDays, 0), ips |-> Kept(bud.ips, LiveMinutes, [ip \in Ips |-> 0])]

EnterBudget(r) ==
  /\ rq[r].pc \in {"budget", "call", "key"} /\ IsCurrent(r) /\ busy["budget"] = None
  /\ Enter("budget", r)
  /\ Step(r, CASE rq[r].pc = "budget" -> "budgeting" [] rq[r].pc = "call" -> "calling" [] OTHER -> "keying")
  /\ UNCHANGED <<adm, bud, idx, children, enabled, now, restarts>>

IsOverdrawn(t, ip) ==
  \/ t.transactions[Day(now)] >= TransactionLimit \/ t.ips[now][ip] >= PerIdentity
  \/ t.ips[now][ip] = 0 /\ Cardinality({i \in Minutes \X Ips : t.ips[i[1]][i[2]] > 0}) >= BudgetRows

\* The index may be gone by the answer.
ChargeTransaction(r) ==
  LET ip == rq[r].ask.ip
      t == SweptBudget
  IN /\ rq[r].pc = "budgeting" /\ IsCurrent(r)
     /\ IF IsOverdrawn(t, ip)
          THEN bud' = t /\ Answer(r, "rate_limited")
          ELSE /\ bud' = [t EXCEPT !.transactions[Day(now)] = @ + 1, !.ips[now][ip] = @ + 1]
               /\ IF busy["index"] = r
                    THEN Paid(r, "transaction", "indexing") /\ Leave("budget")
                    ELSE Answer(r, "unavailable")
     /\ UNCHANGED <<adm, idx, children, enabled, now, restarts>>

\* A call counts in the day it began, whatever its minute.
ChargeCall(r) ==
  LET t == SweptBudget
      d == Day(rq[r].minute)
  IN /\ rq[r].pc = "calling" /\ enabled /\ Day(now) = d
     /\ IF t.calls[d] >= CallLimit
          THEN bud' = t /\ Answer(r, "rate_limited")
          ELSE /\ bud' = [t EXCEPT !.calls[d] = @ + 1]
               /\ Paid(r, "call", IF rq[r].ask.kind = "register" THEN "key" ELSE "forward") /\ Leave("budget")
     /\ UNCHANGED <<adm, idx, children, enabled, now, restarts>>

ChargeKey(r) ==
  LET t == SweptBudget
      d == Day(now)
  IN /\ rq[r].pc = "keying" /\ IsCurrent(r)
     /\ IF t.keys[d] >= KeyLimit
          THEN bud' = t /\ Answer(r, "rate_limited")
          ELSE bud' = [t EXCEPT !.keys[d] = @ + 1] /\ Paid(r, "key", "forward") /\ Leave("budget")
     /\ UNCHANGED <<adm, idx, children, enabled, now, restarts>>

\* The key's object is called.
Forward(r) ==
  /\ rq[r].pc = "forward" /\ IsCurrent(r) /\ Answer(r, "forwarded")
  /\ UNCHANGED <<adm, bud, idx, children, enabled, now, restarts>>

(***************************************************************************)
(* Cleanup, and what goes wrong.                                           *)
(***************************************************************************)
Alarm(o) ==
  /\ busy[o] = None /\ Enter(o, Cleaner)
  /\ adm' = IF o = "requests" THEN SweptRequests ELSE adm
  /\ bud' = IF o = "budget" THEN SweptBudget ELSE bud
  /\ idx' = IF o = "index" THEN Kept(idx, Listed, None) ELSE idx
  /\ UNCHANGED <<children, rq, enabled, now, restarts>>

Rearmed(o) ==
  /\ busy[o] = Cleaner /\ Leave(o)
  /\ UNCHANGED <<adm, bud, idx, children, rq, enabled, now, restarts>>

\* A busy object, an ended minute or day, an ended policy, a bad body, a
\* transaction that throws, or a lost connection.
Fail(r) ==
  /\ rq[r].pc \notin {"idle", "end"} /\ Answer(r, "unavailable")
  /\ UNCHANGED <<adm, bud, idx, children, enabled, now, restarts>>

\* What the request still does in the budget goes on without the index.
Restart(o) ==
  LET r == busy[o]
  IN /\ restarts < MaxRestarts /\ restarts' = restarts + 1 /\ r # None
     /\ IF r \in Requests /\ ~(o = "index" /\ rq[r].pc = "budgeting")
          THEN Answer(r, "unavailable") ELSE Leave(o) /\ UNCHANGED rq
     /\ UNCHANGED <<adm, bud, idx, children, enabled, now>>

Disable == enabled /\ enabled' = FALSE /\ UNCHANGED <<adm, bud, idx, children, busy, rq, now, restarts>>

Tick ==
  /\ now < MaxTime /\ now' = now + 1
  /\ UNCHANGED <<adm, bud, idx, children, busy, rq, enabled, restarts>>

Init ==
  /\ adm = [days |-> [d \in Days |-> 0], minutes |-> [m \in Minutes |-> 0],
            endDays |-> [d \in Days |-> 0], endMinutes |-> [m \in Minutes |-> 0],
            ips |-> [m \in Minutes |-> NoOne]]
  /\ bud = [transactions |-> [d \in Days |-> 0], keys |-> [d \in Days |-> 0],
            calls |-> [d \in Days |-> 0], ips |-> [m \in Minutes |-> [ip \in Ips |-> 0]]]
  /\ idx = [r \in Requests |-> None] /\ children = [r \in Requests |-> None]
  /\ busy = [o \in Objects |-> None]
  /\ rq = [r \in Requests |-> [pc |-> "idle", ask |-> None, minute |-> 0, paid |-> {}, answer |-> None]]
  /\ enabled = TRUE /\ now = 0 /\ restarts = 0

Next ==
  \/ \E r \in Requests :
       \/ Ask(r) \/ EnterAdmission(r) \/ Admit(r) \/ Dispatch(r)
       \/ EnterIndex(r) \/ Index(r) \/ CallChild(r) \/ Create(r) \/ Created(r) \/ Lookup(r)
       \/ EnterBudget(r) \/ ChargeTransaction(r) \/ ChargeCall(r) \/ ChargeKey(r) \/ Forward(r)
       \/ Fail(r)
  \/ \E o \in Objects : Alarm(o) \/ Rearmed(o) \/ Restart(o)
  \/ Disable \/ Tick

Spec == Init /\ [][Next]_vars

(***************************************************************************)
(* Properties.                                                             *)
(***************************************************************************)
Payers(what, S) == {r \in Requests : what \in rq[r].paid /\ rq[r].minute \in S}
MinutesOf(d) == {m \in Minutes : Day(m) = d}
Ending(S) == {r \in S : LaneOf(rq[r].ask) = "terminal"}

\* request-admission.ts: whatever cleanups, restarts and ends of minutes come
\* between, no minute and no day sees more requests than its limits, of which
\* only terminal ones may exceed the regular limits; no identity more than its
\* share; and no day or identity more transactions, keys or calls of keys.
WithinLimits ==
  /\ \A m \in Minutes :
       LET all == Payers("request", {m})
       IN /\ Cardinality(all) <= TotalMinute /\ Cardinality(all \ Ending(all)) <= RegularMinute
          /\ \A ip \in Ips, lane \in Lanes :
               Cardinality({r \in all : rq[r].ask.ip = ip /\ LaneOf(rq[r].ask) = lane}) <= LaneLimit[lane]
          /\ \A ip \in Ips :
               Cardinality({r \in Payers("transaction", {m}) : rq[r].ask.ip = ip}) <= PerIdentity
  /\ \A d \in Days :
       LET all == Payers("request", MinutesOf(d))
       IN /\ Cardinality(all) <= TotalDay /\ Cardinality(all \ Ending(all)) <= RegularDay
          /\ Cardinality(Payers("transaction", MinutesOf(d))) <= TransactionLimit
          /\ Cardinality(Payers("call", MinutesOf(d))) <= CallLimit
          /\ Cardinality(Payers("key", MinutesOf(d))) <= KeyLimit

\* A transaction that exists was paid for by a request of its minute, and the
\* index leads to it until it expires, so that its browser can end it; a
\* forwarded call of a key was paid for, and an enrollment twice.
Provisioned ==
  /\ \A r \in Requests : children[r] # None =>
       {"request", "transaction"} \subseteq rq[r].paid /\ (now < children[r] + 2 => r \in Listed)
  /\ \A r \in Requests : rq[r].answer = "forwarded" =>
       {"request", "call"} \subseteq rq[r].paid /\ (rq[r].ask.kind = "register" => "key" \in rq[r].paid)

\* What exists was paid for, and payments keep the limits.
WithinMeans == WithinLimits /\ Provisioned

\* The reserve of the limits is for terminal requests: one is turned away for
\* the rate only when terminal requests have used the reserve of the day or of
\* the minute, its identity has used its share, or identities have run out,
\* never because of polls and creations alone.
EndsHaveReserve ==
  [][\A r \in Requests :
       /\ rq[r].pc = "admitting" /\ rq'[r].answer = "rate_limited" /\ LaneOf(rq[r].ask) = "terminal"
       => \/ Cardinality(Ending(Payers("request", MinutesOf(Day(now))))) >= TotalDay - RegularDay
          \/ Cardinality(Ending(Payers("request", {now}))) >= TotalMinute - RegularMinute
          \/ Cardinality({s \in Ending(Payers("request", {now})) : rq[s].ask.ip = rq[r].ask.ip}) >= LaneLimit["terminal"]
          \/ Cardinality(Known(SweptRequests)) >= Identities
     ]_vars
=============================================================================
