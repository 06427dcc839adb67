-------------------------- MODULE WatchRestoreProofs --------------------------
(***************************************************************************)
(* Proofs about the preference of a Watch.  An update leaves the actor     *)
(* only when actor and disk both hold its reservation, and nothing clears  *)
(* a reservation before its update is in D1: so D1 writes one history.     *)
(* The pairing that comes before, and its receipts, stand at the end.      *)
(***************************************************************************)
EXTENDS WatchLifecycle, FiniteSetTheorems, TLAPS

\* A start that the actor would not admit again.
Marks(x, a) == a \in x.starts \/ x.high >= ExpiryOf[a]
Started(s) == sd[s].pc \in {"entered", "sent"}

\* An attempt belongs to whoever entered it first; the disk knows what was sent.
Starts ==
  /\ \A a \in Attempts : Marks(disk, a) => Marks(actor, a)
  /\ \A s \in Senders :
       /\ sd[s].pc = "enter" => sd[s].generation \in Generations
       /\ Started(s) => Marks(actor, AttemptOf[s])
       /\ sd[s].pc = "sent" => Marks(disk, AttemptOf[s])
  /\ \A s, t \in Senders : Started(s) /\ Started(t) /\ AttemptOf[s] = AttemptOf[t] => s = t

\* The fence is on disk before D1 retires and before a retirement is answered.
Fences ==
  /\ \A g \in Generations : disk.fence[g] # None => actor.fence[g] # None
  /\ d1 \in past
  /\ \A row \in past :
       row.retired # None => row.generation \in Generations /\ disk.fence[row.generation] # None
  /\ \A q \in Retirers :
       /\ rt[q].pc = "blocked" => actor.fence[rt[q].generation] # None
       /\ rt[q].pc \in {"retire", "orphan", "retired", "found", "committed"} =>
            disk.fence[rt[q].generation] # None

\* A preference in the history, or the one before it.
Committed(g, p) == g \in Generations /\ p.revision \in 1..Len(chain[g]) /\ chain[g][p.revision] = p
Known(g, p) == p = Baseline \/ Committed(g, p)

\* An actor is at the end of the history, or one reserved preference behind.
Follows(x) ==
  IF x.scope = 0 THEN x.confirmed = Baseline /\ x.pending = None
  ELSE /\ Known(x.scope, x.confirmed)
       /\ IF x.pending = None THEN Len(chain[x.scope]) = x.confirmed.revision
          ELSE /\ x.pending.revision = x.confirmed.revision + 1
               /\ \/ Len(chain[x.scope]) = x.confirmed.revision
                  \/ Len(chain[x.scope]) = x.pending.revision /\ Committed(x.scope, x.pending)

Holds(x, g, p) == x.scope = g /\ x.pending = p
Working == {"read", "reserve", "orphan"} \cup Reserved

\* A request: what it saw was committed, and what it may still write was
\* committed already or is reserved in the actor and on its disk.
Consistent(q) ==
  /\ q.pc = "idle" => q.observed = Baseline
  /\ q.pc \in Working => q.next.revision > 0
  /\ q.observed # Baseline => Committed(q.intent.generation, q.observed)
  /\ q.pc \in {"submit", "orphan"} =>
       \/ Committed(q.intent.generation, q.next)
       \/ Holds(actor, q.intent.generation, q.next) /\ Holds(disk, q.intent.generation, q.next)
  /\ q.pc = "confirmed" => Committed(q.intent.generation, q.next)

History ==
  /\ disk.scope <= actor.scope /\ Follows(actor) /\ Follows(disk)
  /\ \A g \in Generations : g > disk.scope => chain[g] = <<>>
  /\ \A row \in past : row.retired = None => Known(row.generation, row.preference)
  /\ \A r \in Requests : Consistent(rq[r])

IInv == TypeOK /\ Starts /\ Fences /\ History

-----------------------------------------------------------------------------
\* What the actor answers of a state.
LEMMA ClassifyFacts ==
  ASSUME TypeOK, NEW g, NEW p \in Preference
  PROVE  /\ Classify(g, p) = "pending" <=> HasKey(p) /\ actor.scope = g /\ actor.pending = p
         /\ Classify(g, p) = "confirmed" <=>
              HasKey(p) /\ actor.scope = g /\ actor.pending = None /\ actor.confirmed = p
         /\ p # None
<1>1. p # None
  BY NoneAssumption
<1> DEFINE admitted == HasKey(p) /\ actor.scope = g
<1>2. CASE admitted /\ actor.pending = p
  BY <1>1, <1>2 DEF Classify
<1>3. CASE admitted /\ actor.pending = None /\ actor.confirmed = p
  BY <1>1, <1>3 DEF Classify
<1>4. CASE ~(admitted /\ actor.pending = p) /\ ~(admitted /\ actor.pending = None /\ actor.confirmed = p)
  <2>1. Classify(g, p) = "unavailable"
    BY <1>4 DEF Classify
  <2> QED BY <1>4, <1>1, <2>1
<1> QED BY <1>2, <1>3, <1>4

-----------------------------------------------------------------------------
\* The initial state.
LEMMA BaselineType == Baseline \in Preference
BY DEF Baseline, Preference

LEMMA InitInv == Init => IInv
<1> SUFFICES ASSUME Init PROVE IInv
  OBVIOUS
<1> USE BaselineType
<1>1. Unpaired \in Row /\ NewActor \in Actor
  BY DEF Unpaired, Row, NewActor, Actor
<1>2. TypeOK
  <2>1. rq \in [Requests -> Request] /\ sd \in [Senders -> Sender] /\ rt \in [Retirers -> Retirer]
    BY DEF Init, Request, NoRequest, RequestEnd, Reserved, Sender, NoSend, Retirer, NoRetire,
           RetireSteps, RetireEnd
  <2>2. chain \in [Generations -> Seq(Preference)]
    BY DEF Init
  <2> QED BY <1>1, <2>1, <2>2 DEF Init, TypeOK, NoRequest, NoRetire
<1>3. Starts
  BY DEF Init, Starts, Marks, Started, NewActor, NoSend
<1>4. Fences
  BY DEF Init, Fences, NewActor, Unpaired, NoRetire
<1>5. History
  BY DEF Init, History, NewActor, Unpaired, NoRequest, Consistent, Follows, Known, Working, Reserved
<1> QED BY <1>2, <1>3, <1>4, <1>5 DEF IInv

-----------------------------------------------------------------------------
\* Type correctness.
\* The records that the steps make.
LEMMA ActorType ==
  ASSUME NEW x \in Actor
  PROVE  /\ \A p \in Preference : [x EXCEPT !.confirmed = p, !.pending = None] \in Actor
         /\ \A p \in Preference : [x EXCEPT !.pending = p] \in Actor
         /\ \A S \in SUBSET Attempts, n \in Nat : [x EXCEPT !.high = n, !.starts = S] \in Actor
         /\ \A g \in Generations, op \in RetireOps :
              [x EXCEPT !.fence = [x.fence EXCEPT ![g] = op]] \in Actor
         /\ \A g \in Generations : [x EXCEPT !.scope = g] \in Actor
         /\ \A g \in Generations, p \in Preference : [x EXCEPT !.scope = g, !.confirmed = p] \in Actor
BY DEF Actor

LEMMA RowType ==
  ASSUME NEW row \in Row
  PROVE  /\ \A p \in Preference, S \in SUBSET Intents :
              [row EXCEPT !.preference = p, !.intents = S] \in Row
         /\ \A op \in RetireOps : [row EXCEPT !.retired = op, !.preference.enabled = FALSE,
                                               !.preference.sealed = TRUE] \in Row
         /\ \A g \in Generations, p \in Preference :
              [row EXCEPT !.generation = g, !.preference = p, !.retired = None] \in Row
BY DEF Row, Preference

RequestPc == RequestEnd \cup Reserved \cup {"idle", "observe", "read", "reserve", "orphan"}

LEMMA RequestType ==
  ASSUME NEW q \in Request, NEW pc \in RequestPc
  PROVE  /\ [q EXCEPT !.pc = pc] \in Request
         /\ \A i \in Intents : [q EXCEPT !.pc = pc, !.intent = i] \in Request
         /\ \A p \in Preference : [q EXCEPT !.pc = pc, !.next = p] \in Request
         /\ \A p \in Preference : [q EXCEPT !.observed = p, !.pc = pc] \in Request
BY DEF Request, RequestPc

LEMMA RequestsType ==
  ASSUME TypeOK, NEW r \in Requests, NEW q \in Request, q.intent \in Intents, rq' = [rq EXCEPT ![r] = q]
  PROVE  rq' \in [Requests -> Request] /\ \A s \in Requests : rq'[s].pc # "idle" => rq'[s].intent \in Intents
BY DEF TypeOK

\* What the other requests and the disk do not change.
LEMMA TypeInv == TypeOK /\ [Next]_vars => TypeOK'
<1> SUFFICES ASSUME TypeOK, [Next]_vars PROVE TypeOK'
  OBVIOUS
<1> USE BaselineType
<1>r. ASSUME NEW r \in Requests, \/ StartRequest(r) \/ Observe(r) \/ Read(r) \/ Replay(r) \/ Reserve(r)
                         \/ Synced(r) \/ Submit(r) \/ Confirm(r) \/ Abandon(r)
      PROVE  TypeOK'
  <2>q. rq[r] \in Request /\ d1.preference \in Preference
    BY DEF TypeOK, Row
  <2>f. rq[r].observed \in Preference /\ rq[r].next \in Preference
        /\ (rq[r].pc # "idle" => rq[r].intent \in Intents)
    BY <2>q DEF Request, TypeOK
  <2>1. CASE StartRequest(r)
    <3>1. PICK i \in Intents : rq' = [rq EXCEPT ![r].pc = "observe", ![r].intent = i]
      BY <2>1 DEF StartRequest
    <3> DEFINE q == [rq[r] EXCEPT !.pc = "observe", !.intent = i]
    <3>2. q \in Request /\ q.intent \in Intents
      BY <2>q, RequestType DEF RequestPc, Request
    <3>3. rq' = [rq EXCEPT ![r] = q]
      BY <3>1
    <3> HIDE DEF q
    <3> QED BY <2>1, <3>2, <3>3, RequestsType DEF StartRequest, TypeOK
  <2>2. CASE Observe(r)
    <3>1. NextState(rq[r].intent) \in Preference
      <4> DEFINE i == rq[r].intent
                 sealed == IF d1.preference.revision = i.expected + 1 /\ d1.preference.intent = i
                           THEN d1.preference.sealed ELSE IsFull(i.generation)
      <4>1. i \in Intents /\ i.expected \in Nat /\ i.enabled \in BOOLEAN
        BY <2>2, <2>f, IntentAssumption DEF Observe
      <4>2. sealed \in BOOLEAN
        <5>1. d1.preference.sealed \in BOOLEAN
          BY <2>q DEF Preference
        <5>2. IsFull(i.generation) \in BOOLEAN
          BY DEF IsFull
        <5> QED BY <5>1, <5>2
      <4>3. NextState(i) = [revision |-> i.expected + 1, intent |-> i, enabled |-> i.enabled, sealed |-> sealed]
        BY DEF NextState
      <4> HIDE DEF sealed, i
      <4>4. NextState(i) \in Preference
        BY <4>1, <4>2, <4>3 DEF Preference
      <4> QED BY <4>4 DEF i
    <3> DEFINE q == [rq[r] EXCEPT !.pc = "read", !.next = NextState(rq[r].intent)]
    <3>2. q \in Request /\ q.intent \in Intents
      BY <2>2, <2>q, <2>f, <3>1, RequestType DEF RequestPc, Request, Observe
    <3>3. rq' = [rq EXCEPT ![r] = q]
      BY <2>2 DEF Observe
    <3> HIDE DEF q
    <3> QED BY <2>2, <3>2, <3>3, RequestsType DEF Observe, TypeOK
  <2>3. CASE Read(r)
    <3> DEFINE pc == IF rq[r].pc = "read" THEN "reserve" ELSE "confirm"
               q == [rq[r] EXCEPT !.observed = d1.preference, !.pc = pc]
    <3>1. pc \in RequestPc
      BY DEF RequestPc, Reserved
    <3>2. q \in Request /\ q.intent \in Intents
      BY <2>3, <2>q, <2>f, <3>1, RequestType DEF Request, Read
    <3>3. rq' = [rq EXCEPT ![r] = q]
      BY <2>3 DEF Read
    <3> HIDE DEF q
    <3> QED BY <2>3, <3>2, <3>3, RequestsType DEF Read, TypeOK
  <2>s. ASSUME NEW pc \in RequestPc, rq[r].pc # "idle", rq' = [rq EXCEPT ![r].pc = pc]
        PROVE  rq' \in [Requests -> Request] /\ \A s \in Requests : rq'[s].pc # "idle" => rq'[s].intent \in Intents
    <3> DEFINE q == [rq[r] EXCEPT !.pc = pc]
    <3>2. q \in Request /\ q.intent \in Intents
      BY <2>s, <2>q, <2>f, RequestType DEF Request
    <3>3. rq' = [rq EXCEPT ![r] = q]
      BY <2>s
    <3> HIDE DEF q
    <3> QED BY <3>2, <3>3, RequestsType
  <2>p. {"confirmed", "sync", "submit", "readback", "lost", "orphan", "unknown", "unavailable"} \subseteq RequestPc
    BY DEF RequestPc, RequestEnd, Reserved
  <2>a. actor \in Actor /\ [actor EXCEPT !.pending = rq[r].next] \in Actor
        /\ Confirmed(rq[r].observed) \in Actor
    BY <2>f, ActorType DEF TypeOK, Confirmed
  <2>4. CASE Replay(r)
    <3>1. actor' \in Actor
      BY <2>4, <2>a DEF Replay
    <3>2. rq[r].pc # "idle" /\ rq' = [rq EXCEPT ![r].pc = "confirmed"]
      BY <2>4 DEF Replay
    <3> QED BY <2>4, <2>s, <2>p, <3>1, <3>2 DEF Replay, TypeOK
  <2>5. CASE Reserve(r)
    <3>1. actor' \in Actor
      BY <2>5, <2>a DEF Reserve
    <3>2. rq[r].pc # "idle" /\ rq' = [rq EXCEPT ![r].pc = "sync"]
      BY <2>5 DEF Reserve
    <3> QED BY <2>5, <2>s, <2>p, <3>1, <3>2 DEF Reserve, TypeOK
  <2>6. CASE Synced(r)
    <3>2. rq[r].pc # "idle" /\ rq' = [rq EXCEPT ![r].pc = "submit"]
      BY <2>6 DEF Synced
    <3> QED BY <2>6, <2>s, <2>p, <3>2 DEF Synced, TypeOK
  <2>7. CASE Submit(r)
    <3> DEFINE pc == IF rq[r].pc = "submit" THEN "readback" ELSE "lost"
    <3>1. rq' \in [Requests -> Request] /\ \A s \in Requests : rq'[s].pc # "idle" => rq'[s].intent \in Intents
      <4>1. pc \in RequestPc /\ rq[r].pc # "idle" /\ rq' = [rq EXCEPT ![r].pc = pc]
        BY <2>7, <2>p DEF Submit
      <4> HIDE DEF pc
      <4> QED BY <4>1, <2>s
    <3>2. CASE UNCHANGED <<d1, past, chain>>
      BY <2>7, <3>1, <3>2 DEF Submit, TypeOK
    <3>3. CASE ~UNCHANGED <<d1, past, chain>>
      <4> DEFINE i == rq[r].intent
                 next == rq[r].next
                 S == IF next.sealed THEN d1.intents ELSE d1.intents \cup {i}
                 row == [d1 EXCEPT !.preference = next, !.intents = S]
                 c == Append(chain[i.generation], next)
      <4>0. /\ d1' = row /\ past' = past \cup {row}
            /\ chain' = IF next.revision > Len(chain[i.generation])
                        THEN [chain EXCEPT ![i.generation] = c]
                        ELSE chain
            /\ i \in Intents
        BY <2>7, <2>f, <3>3 DEF Submit
      <4>1. S \in SUBSET Intents
        BY <4>0 DEF TypeOK, Row
      <4>2. row \in Row
        <5> HIDE DEF S, next
        <5>1. next \in Preference /\ d1 \in Row
          BY <2>f DEF next, TypeOK
        <5> QED BY <4>1, <5>1, RowType
      <4>3. c \in Seq(Preference)
        BY <4>0, <2>f, IntentAssumption DEF TypeOK
      <4>4. chain' \in [Generations -> Seq(Preference)]
        <5> HIDE DEF c, next, i
        <5> QED BY <4>0, <4>3 DEF TypeOK
      <4> HIDE DEF row, S, c, i, next
      <4> QED BY <2>7, <3>1, <4>0, <4>2, <4>4 DEF Submit, TypeOK
    <3> QED BY <3>2, <3>3
  <2>8. CASE Confirm(r)
    <3>1. actor' \in Actor
      BY <2>8, <2>a DEF Confirm
    <3>2. rq[r].pc # "idle" /\ rq' = [rq EXCEPT ![r].pc = "confirmed"]
      BY <2>8 DEF Confirm
    <3> QED BY <2>8, <2>s, <2>p, <3>1, <3>2 DEF Confirm, TypeOK
  <2>9. CASE Abandon(r)
    <3> DEFINE pc == CASE rq[r].pc = "submit"              -> "orphan"
                       [] rq[r].pc \in Reserved \ {"submit"} -> "unknown"
                       [] OTHER                            -> "unavailable"
    <3>1. pc \in RequestPc
      BY <2>p DEF Reserved
    <3>2. rq[r].pc # "idle" /\ rq' = [rq EXCEPT ![r].pc = pc]
      BY <2>9 DEF Abandon, Reserved
    <3> HIDE DEF pc
    <3> QED BY <2>9, <2>s, <3>1, <3>2 DEF Abandon, TypeOK
  <2> QED BY <1>r, <2>1, <2>2, <2>3, <2>4, <2>5, <2>6, <2>7, <2>8, <2>9
<1>s. ASSUME NEW s \in Senders, BeforeFetch(s) \/ Enter(s) \/ Refuse(s) \/ Leave(s)
      PROVE  TypeOK'
  <2>1. Unexpired \in SUBSET Attempts /\ AttemptOf[s] \in Attempts /\ now \in Nat /\ actor \in Actor
    BY AttemptAssumption DEF Unexpired, TypeOK, Actor
  <2>2. CASE BeforeFetch(s)
    <3>1. sd' \in [Senders -> Sender]
      BY <2>2 DEF BeforeFetch, TypeOK, Sender, Row
    <3> QED BY <2>2, <3>1 DEF BeforeFetch, TypeOK
  <2>3. CASE Enter(s)
    <3>1. sd' \in [Senders -> Sender]
      BY <2>3 DEF Enter, TypeOK, Sender
    <3>2. Unexpired \cup {AttemptOf[s]} \in SUBSET Attempts
      BY <2>1
    <3>3. actor' \in Actor
      BY <2>3, <2>1, <3>2, ActorType DEF Enter
    <3> QED BY <2>3, <3>1, <3>3 DEF Enter, TypeOK
  <2>4. CASE Refuse(s)
    <3>1. sd' \in [Senders -> Sender]
      BY <2>4 DEF Refuse, TypeOK, Sender
    <3>3. actor' \in Actor
      BY <2>4, <2>1, ActorType DEF Refuse
    <3> QED BY <2>4, <3>1, <3>3 DEF Refuse, TypeOK
  <2>5. CASE Leave(s)
    <3>1. sd' \in [Senders -> Sender]
      BY <2>5 DEF Leave, TypeOK, Sender
    <3> QED BY <2>5, <3>1 DEF Leave, TypeOK
  <2> QED BY <1>s, <2>2, <2>3, <2>4, <2>5
<1>q. ASSUME NEW q \in Retirers,
             \/ StartRetire(q) \/ Current(q) \/ Block(q) \/ Blocked(q) \/ Retire(q) \/ Retired(q)
             \/ Status(q) \/ HasBlock(q) \/ AbandonRetire(q)
      PROVE  TypeOK'
  <2> DEFINE Pc == RetireSteps \cup RetireEnd \cup {"idle", "orphan"}
  <2>s. ASSUME NEW pc \in Pc, rt' = [rt EXCEPT ![q].pc = pc]
        PROVE  rt[q].pc # "idle" =>
                 /\ rt' \in [Retirers -> Retirer]
                 /\ \A p \in Retirers :
                      rt'[p].pc # "idle" => rt'[p].op \in RetireOps /\ rt'[p].generation \in Generations
    BY <2>s DEF TypeOK, Retirer
  <2>p. {"block", "status", "blocked", "retire", "retired", "committed", "found", "lost", "denied",
         "orphan", "unknown"} \subseteq Pc
    BY DEF RetireSteps, RetireEnd
  <2> HIDE DEF Pc
  <2>1. CASE StartRetire(q)
    <3>1. PICK op \in RetireOps, kind \in {"retire", "lifecycle-status"} :
            rt' = [rt EXCEPT ![q] = [pc |-> "current", kind |-> kind, op |-> op, generation |-> op.generation]]
      BY <2>1 DEF StartRetire
    <3>2. rt' \in [Retirers -> Retirer]
      BY <3>1, RetireAssumption DEF TypeOK, Retirer, RetireSteps
    <3>3. \A p \in Retirers :
            rt'[p].pc # "idle" => rt'[p].op \in RetireOps /\ rt'[p].generation \in Generations
      BY <3>1, RetireAssumption DEF TypeOK
    <3> QED BY <2>1, <3>2, <3>3 DEF StartRetire, TypeOK
  <2>2. CASE Current(q)
    BY <2>2, <2>s, <2>p DEF Current, Step, TypeOK
  <2>3. CASE Block(q)
    <3>1. rt[q].generation \in Generations /\ rt[q].op \in RetireOps
      BY <2>3 DEF Block, Step, TypeOK
    <3>2. actor' \in Actor
      BY <2>3, <3>1, ActorType DEF Block, TypeOK
    <3> QED BY <2>3, <2>s, <2>p, <3>2 DEF Block, Step, TypeOK
  <2>4. CASE Blocked(q)
    BY <2>4, <2>s, <2>p DEF Blocked, Step, TypeOK
  <2>5. CASE Retire(q)
    <3>1. d1' \in Row
      <4>1. rt[q].op \in RetireOps
        BY <2>5 DEF Retire, TypeOK
      <4> QED BY <2>5, <4>1, RowType DEF Retire, TypeOK
    <3> QED BY <2>5, <2>s, <2>p, <3>1 DEF Retire, TypeOK
  <2>6. CASE Retired(q)
    BY <2>6, <2>s, <2>p DEF Retired, Step, TypeOK
  <2>7. CASE Status(q)
    BY <2>7, <2>s, <2>p DEF Status, Step, TypeOK
  <2>8. CASE HasBlock(q)
    BY <2>8, <2>s, <2>p DEF HasBlock, Step, TypeOK
  <2>9. CASE AbandonRetire(q)
    <3>1. PICK to \in {"denied", "orphan", "unknown"} : rt' = [rt EXCEPT ![q].pc = to]
      BY <2>9 DEF AbandonRetire
    <3>2. rt[q].pc # "idle" /\ to \in Pc
      BY <2>9, <2>p, <3>1 DEF AbandonRetire, RetireSteps
    <3> QED BY <2>9, <2>s, <3>1, <3>2 DEF AbandonRetire, TypeOK
  <2> QED BY <1>q, <2>1, <2>2, <2>3, <2>4, <2>5, <2>6, <2>7, <2>8, <2>9
<1>1. CASE InitializeDisabled
  BY <1>1, ActorType DEF InitializeDisabled, TypeOK
<1>2. CASE AdvanceGeneration
  BY <1>2, ActorType DEF AdvanceGeneration, TypeOK
<1>3. CASE Pair
  <2>1. d1.generation + 1 \in Generations /\ d1' \in Row
    <3>1. d1.generation + 1 \in Generations
      BY <1>3 DEF Pair, TypeOK, Row
    <3>2. d1' = [d1 EXCEPT !.generation = d1.generation + 1, !.preference = Baseline, !.retired = None]
      BY <1>3 DEF Pair
    <3> HIDE DEF Baseline
    <3> QED BY <3>1, <3>2, RowType DEF TypeOK
  <2> QED BY <1>3, <2>1 DEF Pair, TypeOK
<1>4. CASE Flush
  BY <1>4 DEF Flush, TypeOK
<1>5. CASE Crash
  <2>1. ASSUME NEW pc \in RequestPc
        PROVE  AfterCrash(pc) \in RequestPc /\ (pc = "idle" <=> AfterCrash(pc) = "idle")
    BY DEF RequestPc, AfterCrash, RequestEnd, RetireEnd, Reserved
  <2>2. \A r \in Requests : rq[r] \in Request /\ rq[r].pc \in RequestPc
    BY DEF TypeOK, Request, RequestPc
  <2>3. rq' = [r \in Requests |-> [rq[r] EXCEPT !.pc = AfterCrash(rq[r].pc)]]
    BY <1>5 DEF Crash
  <2>4. \A r \in Requests : rq'[r] \in Request
    BY <2>1, <2>2, <2>3, RequestType
  <2>5. \A r \in Requests : rq'[r].pc # "idle" => rq'[r].intent \in Intents
    BY <2>1, <2>2, <2>3 DEF TypeOK, Request
  <2>6. rq' \in [Requests -> Request]
    BY <2>3, <2>4
  <2>7. sd' \in [Senders -> Sender]
    BY <1>5 DEF Crash, TypeOK, Sender, AfterCrash, RequestEnd, RetireEnd
  <2>8. rt' \in [Retirers -> Retirer]
    <3> DEFINE Pc == RetireSteps \cup RetireEnd \cup {"idle", "orphan"}
    <3>1. \A pc \in Pc : AfterCrash(pc) \in Pc
      BY DEF AfterCrash, RequestEnd, RetireEnd, RetireSteps
    <3>2. \A q \in Retirers : rt[q] \in Retirer /\ rt[q].pc \in Pc
      BY DEF TypeOK, Retirer
    <3>3. \A q \in Retirers : [rt[q] EXCEPT !.pc = AfterCrash(rt[q].pc)] \in Retirer
      BY <3>1, <3>2 DEF Retirer
    <3> QED BY <1>5, <3>3 DEF Crash
  <2>9. \A q \in Retirers :
          rt'[q].pc # "idle" => rt'[q].op \in RetireOps /\ rt'[q].generation \in Generations
    <3> TAKE q \in Retirers
    <3>1. rt'[q] = [rt[q] EXCEPT !.pc = AfterCrash(rt[q].pc)] /\ rt[q] \in Retirer
      BY <1>5 DEF Crash, TypeOK
    <3>2. rt'[q].op = rt[q].op /\ rt'[q].generation = rt[q].generation
          /\ rt'[q].pc = AfterCrash(rt[q].pc)
      BY <3>1 DEF Retirer
    <3>3. rt[q].pc = "idle" => AfterCrash(rt[q].pc) = "idle"
      BY DEF AfterCrash
    <3> QED BY <3>2, <3>3 DEF TypeOK
  <2> QED BY <1>5, <2>5, <2>6, <2>7, <2>8, <2>9 DEF Crash, TypeOK
<1>6. CASE RestoreD1
  BY <1>6 DEF RestoreD1, TypeOK
<1>7. CASE Tick
  BY <1>7 DEF Tick, TypeOK
<1>8. CASE StepBack
  BY <1>8 DEF StepBack, TypeOK
<1>9. CASE UNCHANGED vars
  BY <1>9 DEF vars, TypeOK
<1> QED BY <1>r, <1>s, <1>q, <1>1, <1>2, <1>3, <1>4, <1>5, <1>6, <1>7, <1>8, <1>9 DEF Next

-----------------------------------------------------------------------------
\* An attempt starts once.  Nothing but the entry of a dispatch, the disk and
\* a crash touches what the actor keeps of starts.
LEMMA StartsKept ==
  ASSUME Starts, actor'.starts = actor.starts, actor'.high = actor.high, UNCHANGED <<disk, sd>>
  PROVE  Starts'
BY DEF Starts, Marks, Started

LEMMA StartsInv == TypeOK /\ Starts /\ [Next]_vars => Starts'
<1> SUFFICES ASSUME TypeOK, Starts, [Next]_vars PROVE Starts'
  OBVIOUS
<1>t. actor \in Actor /\ disk \in Actor /\ now \in Nat
  BY DEF TypeOK
<1>u. actor.starts \in SUBSET Attempts /\ actor.high \in Nat /\ disk.starts \in SUBSET Attempts
      /\ disk.high \in Nat
  BY <1>t DEF Actor
<1>e. \A a \in Attempts : ExpiryOf[a] \in Nat
  BY AttemptAssumption
<1>r. ASSUME NEW r \in Requests, \/ StartRequest(r) \/ Observe(r) \/ Read(r) \/ Replay(r) \/ Reserve(r)
                         \/ Synced(r) \/ Submit(r) \/ Confirm(r) \/ Abandon(r)
      PROVE  Starts'
  <2>1. UNCHANGED <<disk, sd>>
    BY <1>r DEF StartRequest, Observe, Read, Replay, Reserve, Synced, Submit, Confirm, Abandon
  <2>2. actor'.starts = actor.starts /\ actor'.high = actor.high
    <3>1. CASE Replay(r)
      BY <3>1, <1>t DEF Replay, Confirmed, Actor
    <3>2. CASE Reserve(r)
      BY <3>2, <1>t DEF Reserve, Actor
    <3>3. CASE Confirm(r)
      BY <3>3, <1>t DEF Confirm, Confirmed, Actor
    <3>4. CASE UNCHANGED actor
      BY <3>4
    <3> QED BY <1>r, <3>1, <3>2, <3>3, <3>4 DEF StartRequest, Observe, Read, Synced, Submit, Abandon
  <2> QED BY <2>1, <2>2, StartsKept
<1>q. ASSUME NEW q \in Retirers,
             \/ StartRetire(q) \/ Current(q) \/ Block(q) \/ Blocked(q) \/ Retire(q) \/ Retired(q)
             \/ Status(q) \/ HasBlock(q) \/ AbandonRetire(q)
      PROVE  Starts'
  <2>1. UNCHANGED <<disk, sd>>
    BY <1>q DEF StartRetire, Current, Block, Blocked, Retire, Retired, Status, HasBlock, AbandonRetire
  <2>2. actor'.starts = actor.starts /\ actor'.high = actor.high
    BY <1>q, <1>t DEF StartRetire, Current, Block, Blocked, Retire, Retired, Status, HasBlock, AbandonRetire, Actor
  <2> QED BY <2>1, <2>2, StartsKept
<1>o. ASSUME InitializeDisabled \/ AdvanceGeneration \/ Pair \/ RestoreD1 \/ Tick \/ StepBack
             \/ UNCHANGED vars
      PROVE  Starts'
  <2>1. UNCHANGED <<disk, sd>>
    BY <1>o DEF InitializeDisabled, AdvanceGeneration, Pair, RestoreD1, Tick, StepBack, vars
  <2>2. actor'.starts = actor.starts /\ actor'.high = actor.high
    <3>1. CASE InitializeDisabled
      BY <3>1, <1>t DEF InitializeDisabled, Actor
    <3>2. CASE AdvanceGeneration
      BY <3>2, <1>t DEF AdvanceGeneration, Actor
    <3> QED BY <1>o, <3>1, <3>2 DEF Pair, RestoreD1, Tick, StepBack, vars
  <2> QED BY <2>1, <2>2, StartsKept
<1>1. ASSUME NEW s \in Senders, BeforeFetch(s) PROVE Starts'
  <2>1. sd' = [sd EXCEPT ![s] = [pc |-> "enter", generation |-> d1.generation, observed |-> d1.preference]]
        /\ UNCHANGED <<actor, disk>> /\ d1.generation \in Generations
    BY <1>1 DEF BeforeFetch, TypeOK, Row
  <2>2. \A t \in Senders : t # s => sd'[t] = sd[t]
    BY <2>1 DEF TypeOK
  <2>3. sd'[s].pc = "enter" /\ sd'[s].generation = d1.generation
    BY <2>1 DEF TypeOK
  <2> QED BY <2>1, <2>2, <2>3 DEF Starts, Marks, Started
\* The step of a dispatch that has read the preference.
<1>2. ASSUME NEW s \in Senders, NEW pc \in {"entered", "refused", "sent"},
             sd' = [sd EXCEPT ![s].pc = pc]
      PROVE  sd'[s].pc = pc /\ \A t \in Senders : t # s => sd'[t] = sd[t]
  BY <1>2 DEF TypeOK, Sender
\* The clock of the actor passes the rows it deletes.
<1>3. ASSUME now >= actor.high, NEW S,
             actor' = [actor EXCEPT !.high = now, !.starts = Unexpired \cup S]
      PROVE  \A a \in Attempts : Marks(actor, a) \/ a \in S => Marks(actor, a)'
  <2>1. actor'.high = now /\ actor'.starts = Unexpired \cup S
    BY <1>3, <1>t DEF Actor
  <2> QED BY <1>3, <1>e, <1>t, <1>u, <2>1 DEF Marks, Unexpired
\* A dispatch makes a step, and no start is forgotten.
<1>4. ASSUME NEW s \in Senders, NEW pc \in {"entered", "refused", "sent"}, sd' = [sd EXCEPT ![s].pc = pc],
             UNCHANGED disk,
             \A a \in Attempts : Marks(actor, a) => Marks(actor, a)',
             pc \in {"entered", "sent"} => Marks(actor, AttemptOf[s])',
             pc = "sent" => Marks(disk, AttemptOf[s]),
             pc \in {"entered", "sent"} =>
               \A t \in Senders : t # s /\ Started(t) => AttemptOf[t] # AttemptOf[s]
      PROVE  Starts'
  <2>1. sd'[s].pc = pc /\ \A t \in Senders : t # s => sd'[t] = sd[t]
    BY <1>2, <1>4
  <2>2. \A a \in Attempts : Marks(disk, a)' <=> Marks(disk, a)
    BY <1>4 DEF Marks
  <2>3. \A t \in Senders : AttemptOf[t] \in Attempts
    BY AttemptAssumption
  <2>4. \A a \in Attempts : Marks(disk, a)' => Marks(actor, a)'
    BY <1>4, <2>2 DEF Starts
  <2>5. ASSUME NEW t \in Senders
        PROVE  /\ sd'[t].pc = "enter" => sd'[t].generation \in Generations
               /\ Started(t)' => Marks(actor, AttemptOf[t])'
               /\ sd'[t].pc = "sent" => Marks(disk, AttemptOf[t])'
    <3>1. CASE t = s
      BY <3>1, <1>4, <2>1, <2>2, <2>3 DEF Started
    <3>2. CASE t # s
      BY <3>2, <1>4, <2>1, <2>2, <2>3 DEF Starts, Started
    <3> QED BY <3>1, <3>2
  <2>6. ASSUME NEW t \in Senders, NEW u \in Senders, Started(t)', Started(u)', AttemptOf[t] = AttemptOf[u]
        PROVE  t = u
    <3>1. CASE t # s /\ u # s
      BY <3>1, <2>1, <2>6 DEF Starts, Started
    <3>2. CASE t = s \/ u = s
      BY <3>2, <1>4, <2>1, <2>6 DEF Started
    <3> QED BY <3>1, <3>2
  <2>7. \A t, u \in Senders : Started(t)' /\ Started(u)' /\ AttemptOf[t] = AttemptOf[u] => t = u
    BY <2>6
  <2> QED BY <2>4, <2>5, <2>7 DEF Starts
<1>5. ASSUME NEW s \in Senders, Enter(s) PROVE Starts'
  <2>1. AttemptOf[s] \in Attempts
    BY AttemptAssumption
  <2>2. now >= actor.high /\ ExpiryOf[AttemptOf[s]] > now /\ AttemptOf[s] \notin Unexpired
    BY <1>5 DEF Enter, IsOpen, IsFresh
  <2>3. ~Marks(actor, AttemptOf[s])
    BY <1>e, <1>t, <1>u, <2>1, <2>2 DEF Marks, Unexpired
  <2>4. actor' = [actor EXCEPT !.high = now, !.starts = Unexpired \cup {AttemptOf[s]}]
        /\ sd' = [sd EXCEPT ![s].pc = "entered"] /\ UNCHANGED disk
    BY <1>5 DEF Enter
  <2>5. \A a \in Attempts : Marks(actor, a) \/ a \in {AttemptOf[s]} => Marks(actor, a)'
    BY <1>3, <2>2, <2>4
  <2>6. \A t \in Senders : Started(t) => AttemptOf[t] # AttemptOf[s]
    BY <2>3 DEF Starts
  <2>7. Marks(actor, AttemptOf[s])'
    BY <2>1, <2>5
  <2> QED BY <1>4, <2>4, <2>5, <2>6, <2>7
<1>6. ASSUME NEW s \in Senders, Refuse(s) PROVE Starts'
  <2>1. sd' = [sd EXCEPT ![s].pc = "refused"] /\ UNCHANGED disk
    BY <1>6 DEF Refuse
  <2>2. \A a \in Attempts : Marks(actor, a) => Marks(actor, a)'
    <3>1. CASE IsOpen(s)
      <4>1. now >= actor.high /\ actor' = [actor EXCEPT !.high = now, !.starts = Unexpired \cup {}]
        BY <1>6, <3>1 DEF Refuse, IsOpen
      <4> QED BY <1>3, <4>1
    <3>2. CASE ~IsOpen(s)
      BY <1>6, <3>2 DEF Refuse, Marks
    <3> QED BY <3>1, <3>2
  <2> QED BY <1>4, <2>1, <2>2
<1>7. ASSUME NEW s \in Senders, Leave(s) PROVE Starts'
  <2>1. sd' = [sd EXCEPT ![s].pc = "sent"] /\ UNCHANGED <<actor, disk>> /\ actor = disk /\ sd[s].pc = "entered"
    BY <1>7 DEF Leave
  <2>2. \A a \in Attempts : Marks(actor, a) => Marks(actor, a)'
    BY <2>1 DEF Marks
  <2>3. Started(s) /\ Marks(actor, AttemptOf[s]) /\ AttemptOf[s] \in Attempts
    BY <2>1, AttemptAssumption DEF Starts, Started
  <2>4. \A t \in Senders : t # s /\ Started(t) => AttemptOf[t] # AttemptOf[s]
    BY <2>3 DEF Starts
  <2>5. Marks(disk, AttemptOf[s])
    BY <2>1, <2>3
  <2> QED BY <1>4, <2>1, <2>2, <2>3, <2>4, <2>5
<1>8. ASSUME Flush PROVE Starts'
  <2>1. disk' = actor /\ actor' = actor /\ sd' = sd
    BY <1>8 DEF Flush
  <2>2. \A a \in Attempts : (Marks(disk, a)' <=> Marks(actor, a)) /\ (Marks(actor, a)' <=> Marks(actor, a))
    BY <2>1 DEF Marks
  <2>3. \A t \in Senders : AttemptOf[t] \in Attempts
    BY AttemptAssumption
  <2> QED BY <2>1, <2>2, <2>3 DEF Starts, Started
<1>9. ASSUME Crash PROVE Starts'
  <2>1. disk' = disk /\ actor' = disk /\ sd' = [s \in Senders |-> [sd[s] EXCEPT !.pc = AfterCrash(sd[s].pc)]]
    BY <1>9 DEF Crash
  <2>2. \A a \in Attempts : (Marks(disk, a)' <=> Marks(disk, a)) /\ (Marks(actor, a)' <=> Marks(disk, a))
    BY <2>1 DEF Marks
  <2>3. \A s \in Senders : sd'[s].pc \in {"enter", "entered", "sent"} => sd'[s].pc = "sent" /\ sd[s].pc = "sent"
    <3> TAKE s \in Senders
    <3>1. sd'[s].pc = AfterCrash(sd[s].pc) /\ sd[s].pc \in {"idle", "enter", "entered", "refused", "sent", "lost"}
      BY <2>1 DEF TypeOK, Sender
    <3> QED BY <3>1 DEF AfterCrash, RequestEnd, RetireEnd
  <2>4. \A t \in Senders : AttemptOf[t] \in Attempts
    BY AttemptAssumption
  <2> QED BY <2>2, <2>3, <2>4 DEF Starts, Started
<1> QED BY <1>r, <1>q, <1>o, <1>1, <1>5, <1>6, <1>7, <1>8, <1>9 DEF Next

\* An operation and lease leaves for the provider once, across retries, crashes,
\* expired rows and a clock that steps back.
THEOREM AttemptIsOnce == Spec => []AttemptOnce
<1>1. Init => TypeOK /\ Starts
  BY InitInv DEF IInv
<1>2. TypeOK /\ Starts /\ [Next]_vars => (TypeOK /\ Starts)'
  BY TypeInv, StartsInv
<1>3. Starts => AttemptOnce
  BY DEF Starts, Started, AttemptOnce
<1> QED BY <1>1, <1>2, <1>3, PTL DEF Spec

-----------------------------------------------------------------------------
\* Retirement.  Whatever D1 shows as retired is fenced on the disk.
LEMMA FencesKept ==
  ASSUME Fences, actor'.fence = actor.fence, UNCHANGED <<disk, d1, past, rt>>
  PROVE  Fences'
BY DEF Fences

LEMMA FencesInv == TypeOK /\ Fences /\ [Next]_vars => Fences'
<1> SUFFICES ASSUME TypeOK, Fences, [Next]_vars PROVE Fences'
  OBVIOUS
<1>t. actor \in Actor /\ disk \in Actor /\ d1 \in Row /\ past \subseteq Row /\ d1 \in past
      /\ rt \in [Retirers -> Retirer]
  BY DEF TypeOK, Fences
\* A row more, not retired.
<1>p. ASSUME NEW row, past' = past \cup {row}, row.retired = None, d1' = row, actor'.fence = actor.fence,
             UNCHANGED <<disk, rt>>
      PROVE  Fences'
  BY <1>p DEF Fences
<1>r. ASSUME NEW r \in Requests, \/ StartRequest(r) \/ Observe(r) \/ Read(r) \/ Replay(r) \/ Reserve(r)
                         \/ Synced(r) \/ Submit(r) \/ Confirm(r) \/ Abandon(r)
      PROVE  Fences'
  <2>1. actor'.fence = actor.fence
    <3>1. CASE Replay(r)
      BY <3>1, <1>t DEF Replay, Confirmed, Actor
    <3>2. CASE Reserve(r)
      BY <3>2, <1>t DEF Reserve, Actor
    <3>3. CASE Confirm(r)
      BY <3>3, <1>t DEF Confirm, Confirmed, Actor
    <3>4. CASE UNCHANGED actor
      BY <3>4
    <3> QED BY <1>r, <3>1, <3>2, <3>3, <3>4 DEF StartRequest, Observe, Read, Synced, Submit, Abandon
  <2>2. CASE Submit(r) /\ ~UNCHANGED <<d1, past>>
    <3> DEFINE S == IF rq[r].next.sealed THEN d1.intents ELSE d1.intents \cup {rq[r].intent}
               row == [d1 EXCEPT !.preference = rq[r].next, !.intents = S]
    <3>1. d1' = row /\ past' = past \cup {row} /\ UNCHANGED <<disk, rt>> /\ d1.retired = None
      BY <2>2 DEF Submit, MaySubmit, IsCurrent
    <3>2. row.retired = None
      BY <3>1, <1>t DEF Row
    <3> HIDE DEF row
    <3> QED BY <3>1, <3>2, <2>1, <1>p
  <2>3. CASE UNCHANGED <<d1, past, disk, rt>>
    BY <2>1, <2>3, FencesKept
  <2> QED BY <1>r, <2>2, <2>3
          DEF StartRequest, Observe, Read, Replay, Reserve, Synced, Submit, Confirm, Abandon
<1>s. ASSUME NEW s \in Senders, BeforeFetch(s) \/ Enter(s) \/ Refuse(s) \/ Leave(s)
      PROVE  Fences'
  <2>1. actor'.fence = actor.fence
    <3>1. CASE Enter(s)
      BY <3>1, <1>t DEF Enter, Actor
    <3>2. CASE Refuse(s)
      BY <3>2, <1>t DEF Refuse, Actor
    <3> QED BY <1>s, <3>1, <3>2 DEF BeforeFetch, Leave
  <2>2. UNCHANGED <<d1, past, disk, rt>>
    BY <1>s DEF BeforeFetch, Enter, Refuse, Leave
  <2> QED BY <2>1, <2>2, FencesKept
\* A retirement makes a step: what it must know of the fence it knows.
<1>q. ASSUME NEW q \in Retirers, NEW pc, rt' = [rt EXCEPT ![q].pc = pc],
             UNCHANGED <<d1, past, actor, disk>>,
             pc = "blocked" => actor.fence[rt[q].generation] # None,
             pc \in {"retire", "orphan", "retired", "found", "committed"} =>
               disk.fence[rt[q].generation] # None
      PROVE  Fences'
  <2>1. rt'[q].pc = pc /\ rt'[q].generation = rt[q].generation /\ \A p \in Retirers : p # q => rt'[p] = rt[p]
    BY <1>q, <1>t DEF Retirer
  <2> QED BY <1>q, <2>1 DEF Fences
<1>f. ASSUME NEW q \in Retirers PROVE rt[q].pc # "idle" => rt[q].op # None /\ rt[q].generation \in Generations
  BY NoneAssumption DEF TypeOK
<1>1. ASSUME NEW q \in Retirers, StartRetire(q) PROVE Fences'
  <2>1. PICK op \in RetireOps, kind \in {"retire", "lifecycle-status"} :
          rt' = [rt EXCEPT ![q] = [pc |-> "current", kind |-> kind, op |-> op, generation |-> op.generation]]
    BY <1>1 DEF StartRetire
  <2>2. rt'[q].pc = "current" /\ \A p \in Retirers : p # q => rt'[p] = rt[p]
    BY <2>1, <1>t
  <2> QED BY <1>1, <2>2 DEF StartRetire, Fences
<1>2. ASSUME NEW q \in Retirers, Current(q) PROVE Fences'
  BY <1>2, <1>q DEF Current, Step
<1>3. ASSUME NEW q \in Retirers, Block(q) PROVE Fences'
  <2>1. rt' = [rt EXCEPT ![q].pc = "blocked"] /\ UNCHANGED <<d1, past, disk>>
        /\ actor' = [actor EXCEPT !.fence = [actor.fence EXCEPT ![rt[q].generation] = rt[q].op]]
        /\ rt[q].pc = "block"
    BY <1>3 DEF Block, Step
  <2>2. rt[q].op # None /\ rt[q].generation \in Generations
    BY <2>1, <1>f
  <2>3. actor'.fence = [actor.fence EXCEPT ![rt[q].generation] = rt[q].op]
        /\ actor.fence \in [Generations -> RetireOps \cup {None}]
    BY <2>1, <1>t DEF Actor
  <2>4. rt'[q].pc = "blocked" /\ rt'[q].generation = rt[q].generation
        /\ \A p \in Retirers : p # q => rt'[p] = rt[p]
    BY <2>1, <1>t DEF Retirer
  <2>5. actor'.fence[rt[q].generation] # None
        /\ \A g \in Generations : actor.fence[g] # None => actor'.fence[g] # None
    BY <2>2, <2>3
  <2>6. \A p \in Retirers : rt[p].pc = "blocked" => rt[p].generation \in Generations
    BY <1>f
  <2> QED BY <2>1, <2>4, <2>5, <2>6 DEF Fences
<1>4. ASSUME NEW q \in Retirers, Blocked(q) PROVE Fences'
  <2>1. disk.fence[rt[q].generation] # None
    BY <1>4 DEF Blocked, Step, Fences
  <2> QED BY <1>4, <2>1, <1>q DEF Blocked, Step
<1>5. ASSUME NEW q \in Retirers, Retire(q) PROVE Fences'
  <2> DEFINE row == [d1 EXCEPT !.retired = rt[q].op, !.preference.enabled = FALSE, !.preference.sealed = TRUE]
             pc == IF rt[q].pc = "retire" THEN "retired" ELSE "lost"
  <2>1. /\ rt[q].pc \in {"retire", "orphan"} /\ d1.generation = rt[q].generation
        /\ d1' = row /\ past' = past \cup {row} /\ rt' = [rt EXCEPT ![q].pc = pc]
        /\ UNCHANGED <<actor, disk>>
    BY <1>5 DEF Retire, IsCurrent
  <2>2. row.generation = d1.generation
    BY <1>t DEF Row
  <2>3. rt[q].generation \in Generations /\ disk.fence[rt[q].generation] # None
    BY <2>1, <1>f DEF Fences
  <2>4. rt'[q].pc = pc /\ rt'[q].generation = rt[q].generation /\ \A p \in Retirers : p # q => rt'[p] = rt[p]
    BY <2>1, <1>t DEF Retirer
  <2>5. pc # "blocked"
    OBVIOUS
  <2> HIDE DEF row, pc
  <2> QED BY <2>1, <2>2, <2>3, <2>4, <2>5 DEF Fences
<1>6. ASSUME NEW q \in Retirers, Retired(q) PROVE Fences'
  <2>1. disk.fence[rt[q].generation] # None
    BY <1>6 DEF Retired, Step, Fences
  <2> QED BY <1>6, <2>1, <1>q DEF Retired, Step
<1>7. ASSUME NEW q \in Retirers, Status(q) PROVE Fences'
  <2>1. disk.fence[rt[q].generation] # None
    BY <1>7, <1>f DEF Status, Step, Fences
  <2> QED BY <1>7, <2>1, <1>q DEF Status, Step
<1>8. ASSUME NEW q \in Retirers, HasBlock(q) PROVE Fences'
  <2>1. disk.fence[rt[q].generation] # None
    BY <1>8 DEF HasBlock, Step, Fences
  <2> QED BY <1>8, <2>1, <1>q DEF HasBlock, Step
<1>9. ASSUME NEW q \in Retirers, AbandonRetire(q) PROVE Fences'
  <2>1. PICK to \in {"denied", "orphan", "unknown"} :
          (to = "orphan" <=> rt[q].pc = "retire") /\ rt' = [rt EXCEPT ![q].pc = to]
    BY <1>9 DEF AbandonRetire
  <2>2. to = "orphan" => disk.fence[rt[q].generation] # None
    BY <2>1 DEF Fences
  <2> QED BY <1>9, <2>1, <2>2, <1>q DEF AbandonRetire
<1>10. ASSUME InitializeDisabled \/ AdvanceGeneration \/ Tick \/ StepBack \/ UNCHANGED vars PROVE Fences'
  <2>1. UNCHANGED <<disk, d1, past, rt>>
    BY <1>10 DEF InitializeDisabled, AdvanceGeneration, Tick, StepBack, vars
  <2>2. actor'.fence = actor.fence
    BY <1>10, <1>t DEF InitializeDisabled, AdvanceGeneration, Tick, StepBack, vars, Actor
  <2> QED BY <2>1, <2>2, FencesKept
<1>11. ASSUME Pair PROVE Fences'
  <2> DEFINE row == [d1 EXCEPT !.generation = d1.generation + 1, !.preference = Baseline, !.retired = None]
  <2>1. d1' = row /\ past' = past \cup {row} /\ UNCHANGED <<actor, disk, rt>>
    BY <1>11 DEF Pair
  <2>2. row.retired = None
    BY <1>t DEF Row
  <2> HIDE DEF row
  <2> QED BY <2>1, <2>2, <1>p
<1>12. ASSUME Flush PROVE Fences'
  <2>1. disk' = actor /\ UNCHANGED <<actor, d1, past, rt>>
    BY <1>12 DEF Flush
  <2>2. \A p \in Retirers : rt[p].pc # "idle" => rt[p].generation \in Generations
    BY <1>f
  <2> QED BY <2>1, <2>2 DEF Fences
<1>13. ASSUME Crash PROVE Fences'
  <2>1. actor' = disk /\ UNCHANGED <<disk, d1, past>>
        /\ rt' = [q \in Retirers |-> [rt[q] EXCEPT !.pc = AfterCrash(rt[q].pc)]]
    BY <1>13 DEF Crash
  <2>2. ASSUME NEW q \in Retirers
        PROVE  /\ rt'[q].generation = rt[q].generation /\ rt'[q].pc # "blocked"
               /\ rt'[q].pc \in {"retire", "orphan", "retired", "found", "committed"} =>
                    rt[q].pc \in {"retire", "orphan", "retired", "found", "committed"}
    <3>1. rt'[q].pc = AfterCrash(rt[q].pc) /\ rt'[q].generation = rt[q].generation
      BY <2>1, <1>t DEF Retirer
    <3>2. rt[q].pc \in {"retire", "orphan"} \cup RetireEnd \cup {"idle"} \/ AfterCrash(rt[q].pc) = "lost"
      BY <1>t DEF AfterCrash, Retirer, RetireSteps, RequestEnd, RetireEnd
    <3>3. CASE rt[q].pc \in {"retire", "orphan"}
      BY <3>1, <3>3 DEF AfterCrash
    <3>4. CASE rt[q].pc \in RetireEnd \cup {"idle"}
      BY <3>1, <3>4 DEF AfterCrash, RequestEnd, RetireEnd
    <3>5. CASE AfterCrash(rt[q].pc) = "lost"
      BY <3>1, <3>5
    <3> QED BY <3>2, <3>3, <3>4, <3>5
  <2> QED BY <2>1, <2>2 DEF Fences
<1>14. ASSUME RestoreD1 PROVE Fences'
  BY <1>14 DEF RestoreD1, Fences
<1> QED BY <1>r, <1>s, <1>1, <1>2, <1>3, <1>4, <1>5, <1>6, <1>7, <1>8, <1>9, <1>10, <1>11, <1>12,
           <1>13, <1>14 DEF Next

-----------------------------------------------------------------------------
\* One history.  What a state knows of it stays, since it only grows.
Grows == \A g \in Generations : /\ Len(chain[g]) <= Len(chain'[g])
                               /\ \A k \in 1..Len(chain[g]) : chain'[g][k] = chain[g][k]

LEMMA CommittedStays ==
  ASSUME TypeOK, TypeOK', Grows, NEW g, NEW p, Committed(g, p)
  PROVE  Committed(g, p)'
BY DEF Committed, Grows, TypeOK

LEMMA KnownStays ==
  ASSUME TypeOK, TypeOK', Grows, NEW g, NEW p, Known(g, p)
  PROVE  Known(g, p)'
BY CommittedStays DEF Known

LEMMA GrowsSame == TypeOK /\ chain' = chain => Grows
BY DEF Grows, TypeOK

\* The actor knows the last preference, and nothing else is "confirmed".
LEMMA FollowsFacts ==
  ASSUME TypeOK, NEW x \in Actor, Follows(x), x.scope # 0
  PROVE  /\ x.pending = None => LatestOf(x.scope) = x.confirmed
         /\ x.pending # None => LatestOf(x.scope) \in {x.confirmed, x.pending}
<1> DEFINE g == x.scope
<1>1. g \in Generations /\ chain[g] \in Seq(Preference)
  BY DEF Actor, TypeOK
<1>2. ASSUME NEW p, p = Baseline \/ Committed(g, p), Len(chain[g]) = p.revision
      PROVE  LatestOf(g) = p
  <2>1. CASE p = Baseline
    BY <1>1, <1>2, <2>1 DEF LatestOf, Baseline
  <2>2. CASE Committed(g, p)
    BY <1>1, <1>2, <2>2 DEF LatestOf, Committed
  <2> QED BY <1>2, <2>1, <2>2
<1> HIDE DEF g
<1>3. /\ Known(g, x.confirmed)
      /\ x.pending = None => Len(chain[g]) = x.confirmed.revision
      /\ x.pending # None => (\/ Len(chain[g]) = x.confirmed.revision
                              \/ Len(chain[g]) = x.pending.revision /\ Committed(g, x.pending))
  BY DEF Follows, g
<1>4. Len(chain[g]) = x.confirmed.revision => LatestOf(g) = x.confirmed
  BY <1>2, <1>3 DEF Known
<1>5. Len(chain[g]) = x.pending.revision /\ Committed(g, x.pending) => LatestOf(g) = x.pending
  BY <1>2
<1> QED BY <1>3, <1>4, <1>5 DEF g

LEMMA HistoryShows == TypeOK /\ Fences /\ History => OneHistory
<1> SUFFICES ASSUME TypeOK, Fences, History PROVE OneHistory
  OBVIOUS
<1>1. AuthorityKnows
  BY FollowsFacts DEF AuthorityKnows, Knows, History, TypeOK
<1>2. NoFork
  <2> SUFFICES ASSUME IsCurrent(d1.generation), d1.preference # Baseline
      PROVE  /\ d1.preference.revision \in DOMAIN chain[d1.generation]
             /\ chain[d1.generation][d1.preference.revision] = d1.preference
    BY DEF NoFork
  <2>1. Committed(d1.generation, d1.preference)
    BY DEF IsCurrent, Fences, History, Known
  <2>2. chain[d1.generation] \in Seq(Preference)
    BY <2>1 DEF Committed, TypeOK
  <2> QED BY <2>1, <2>2 DEF Committed
<1>3. AnsweredIsCommitted
  <2> SUFFICES ASSUME NEW r \in Requests, rq[r].pc = "confirmed"
      PROVE  /\ rq[r].next.revision \in DOMAIN chain[rq[r].intent.generation]
             /\ chain[rq[r].intent.generation][rq[r].next.revision] = rq[r].next
    BY DEF AnsweredIsCommitted
  <2>1. Committed(rq[r].intent.generation, rq[r].next)
    BY DEF History, Consistent
  <2>2. chain[rq[r].intent.generation] \in Seq(Preference)
    BY <2>1 DEF Committed, TypeOK
  <2> QED BY <2>1, <2>2 DEF Committed
<1> QED BY <1>1, <1>2, <1>3 DEF OneHistory

\* A step that changes neither actor, disk, D1 nor the history.
LEMMA HistoryKept ==
  ASSUME TypeOK, TypeOK', History, UNCHANGED <<actor, disk, past, chain>>, NEW r \in Requests, NEW q,
         rq' = [rq EXCEPT ![r] = q], Consistent(q)
  PROVE  History'
<1>1. \A g, p : (Committed(g, p)' <=> Committed(g, p))
  BY DEF Committed
<1>2. \A g, p : (Known(g, p)' <=> Known(g, p))
  BY <1>1 DEF Known
<1>3. Follows(actor)' /\ Follows(disk)'
  BY <1>1, <1>2 DEF History, Follows
<1>4. \A s \in Requests : rq'[s] = IF s = r THEN q ELSE rq[s]
  BY DEF TypeOK
<1>5. \A s \in Requests : Consistent(rq[s])'
  <2> TAKE s \in Requests
  <2>1. Consistent(rq'[s])
    BY <1>4 DEF History
  <2> QED BY <2>1, <1>1 DEF Consistent, Holds
<1> QED BY <1>2, <1>3, <1>5 DEF History

LEMMA RequestSteps ==
  ASSUME TypeOK, TypeOK', Fences, History, NEW r \in Requests,
         StartRequest(r) \/ Observe(r) \/ Read(r) \/ Synced(r) \/ Abandon(r)
  PROVE  History'
<1>1. UNCHANGED <<actor, disk, past, chain>>
  BY DEF StartRequest, Observe, Read, Synced, Abandon
<1>2. rq[r] \in Request /\ Consistent(rq[r]) /\ (rq[r].pc # "idle" => rq[r].intent \in Intents)
  BY DEF TypeOK, History
<1>3. CASE StartRequest(r)
  <2>1. PICK i \in Intents : rq' = [rq EXCEPT ![r].pc = "observe", ![r].intent = i]
    BY <1>3 DEF StartRequest
  <2> DEFINE q == [rq[r] EXCEPT !.pc = "observe", !.intent = i]
  <2>2. rq' = [rq EXCEPT ![r] = q]
    BY <2>1
  <2>3. q.pc = "observe" /\ q.observed = Baseline
    BY <1>2, <1>3 DEF Request, Consistent, StartRequest
  <2> HIDE DEF q
  <2>4. Consistent(q)
    BY <2>3 DEF Consistent, Working, Reserved
  <2> QED BY <1>1, <2>2, <2>4, HistoryKept
<1>4. CASE Observe(r)
  <2> DEFINE q == [rq[r] EXCEPT !.pc = "read", !.next = NextState(rq[r].intent)]
  <2>1. rq' = [rq EXCEPT ![r] = q]
    BY <1>4 DEF Observe
  <2>2. q.pc = "read" /\ q.next = NextState(rq[r].intent) /\ q.observed = rq[r].observed
        /\ q.intent = rq[r].intent
    BY <1>2 DEF Request
  <2> HIDE DEF q
  <2>3. rq[r].intent \in Intents /\ rq[r].intent.expected \in Nat
    BY <1>2, <1>4, IntentAssumption DEF Observe
  <2>4. q.next.revision > 0
    BY <2>2, <2>3 DEF NextState
  <2>5. Consistent(q)
    BY <1>2, <2>2, <2>4 DEF Consistent
  <2> QED BY <1>1, <2>1, <2>5, HistoryKept
<1>5. CASE Read(r)
  <2> DEFINE pc == IF rq[r].pc = "read" THEN "reserve" ELSE "confirm"
             q == [rq[r] EXCEPT !.observed = d1.preference, !.pc = pc]
  <2>1. rq' = [rq EXCEPT ![r] = q] /\ rq[r].pc \in {"read", "readback"}
        /\ d1.generation = rq[r].intent.generation /\ d1.retired = None
    BY <1>5 DEF Read, IsCurrent
  <2>2. q.pc \in {"reserve", "confirm"} /\ q.next = rq[r].next /\ q.observed = d1.preference
        /\ q.intent = rq[r].intent
    BY <1>2 DEF Request
  <2> HIDE DEF q
  <2>3. Known(rq[r].intent.generation, d1.preference)
    BY <2>1 DEF Fences, History
  <2>4. q.next.revision > 0
    BY <1>2, <2>1, <2>2 DEF Consistent, Working, Reserved
  <2>5. Consistent(q)
    BY <2>2, <2>3, <2>4 DEF Consistent, Known
  <2> QED BY <1>1, <2>1, <2>5, HistoryKept
<1>6. CASE Synced(r)
  <2> DEFINE q == [rq[r] EXCEPT !.pc = "submit"]
  <2>1. rq' = [rq EXCEPT ![r] = q] /\ rq[r].pc = "sync" /\ actor = disk
        /\ Classify(rq[r].intent.generation, rq[r].next) = "pending"
    BY <1>6 DEF Synced
  <2>2. q.pc = "submit" /\ q.next = rq[r].next /\ q.observed = rq[r].observed /\ q.intent = rq[r].intent
    BY <1>2 DEF Request
  <2> HIDE DEF q
  <2>3. Holds(actor, q.intent.generation, q.next) /\ Holds(disk, q.intent.generation, q.next)
    <3>1. rq[r].next \in Preference
      BY <1>2 DEF Request
    <3> QED BY <2>1, <2>2, <3>1, ClassifyFacts DEF Holds
  <2>4. q.next.revision > 0
    BY <1>2, <2>1, <2>2 DEF Consistent, Working, Reserved
  <2>5. Consistent(q)
    BY <1>2, <2>2, <2>3, <2>4 DEF Consistent
  <2> QED BY <1>1, <2>1, <2>5, HistoryKept
<1>7. CASE Abandon(r)
  <2> DEFINE pc == CASE rq[r].pc = "submit"              -> "orphan"
                     [] rq[r].pc \in Reserved \ {"submit"} -> "unknown"
                     [] OTHER                            -> "unavailable"
             q == [rq[r] EXCEPT !.pc = pc]
  <2>1. rq' = [rq EXCEPT ![r] = q]
    BY <1>7 DEF Abandon
  <2>2. q.pc = pc /\ q.next = rq[r].next /\ q.observed = rq[r].observed /\ q.intent = rq[r].intent
    BY <1>2 DEF Request
  <2>3. pc \in {"unknown", "unavailable"} \/ (pc = "orphan" /\ rq[r].pc = "submit")
    <3>1. CASE rq[r].pc = "submit"
      BY <3>1
    <3>2. CASE rq[r].pc \in Reserved \ {"submit"}
      BY <3>2
    <3>3. CASE rq[r].pc # "submit" /\ rq[r].pc \notin Reserved \ {"submit"}
      BY <3>3
    <3> QED BY <3>1, <3>2, <3>3
  <2> HIDE DEF q, pc
  <2>4. Consistent(q)
    BY <1>2, <2>2, <2>3 DEF Consistent, Working, Reserved
  <2> QED BY <1>1, <2>1, <2>4, HistoryKept
<1> QED BY <1>3, <1>4, <1>5, <1>6, <1>7

\* The actor confirms or reserves, for one request.
LEMMA ActorSteps ==
  ASSUME TypeOK, TypeOK', Fences, History, NEW r \in Requests,
         Replay(r) \/ Confirm(r) \/ Reserve(r)
  PROVE  History'
<1>1. UNCHANGED <<disk, past, chain>> /\ disk.scope \in Nat
  BY GenerationAssumption DEF Replay, Confirm, Reserve, TypeOK, Actor
<1>2. rq[r] \in Request /\ Consistent(rq[r]) /\ actor \in Actor
  BY DEF TypeOK, History
<1> DEFINE i == rq[r].intent
           g == i.generation
<1>3. i \in Intents /\ g \in Generations /\ g # 0
  BY IntentAssumption, GenerationAssumption DEF TypeOK, Replay, Confirm, Reserve
<1>4. \A h, p : (Committed(h, p)' <=> Committed(h, p)) /\ (Known(h, p)' <=> Known(h, p))
  BY <1>1 DEF Committed, Known
<1>5. Follows(disk)'
  BY <1>1, <1>4 DEF History, Follows
\* What is left to show of a step.
<1>6. ASSUME NEW pc \in {"sync", "confirmed"}, rq' = [rq EXCEPT ![r].pc = pc],
             pc = "sync" => rq[r].next.revision > 0,
             pc = "confirmed" => Committed(g, rq[r].next),
             \A s \in Requests : s # r /\ rq[s].pc \in {"submit", "orphan"} =>
               \/ Committed(rq[s].intent.generation, rq[s].next)
               \/ Holds(actor, rq[s].intent.generation, rq[s].next)' /\ Holds(disk, rq[s].intent.generation, rq[s].next),
             actor'.scope = actor.scope, Follows(actor)'
      PROVE  History'
  <2>1. /\ rq'[r].pc = pc /\ rq'[r].next = rq[r].next /\ rq'[r].observed = rq[r].observed
        /\ rq'[r].intent = i /\ \A s \in Requests : s # r => rq'[s] = rq[s]
    BY <1>6 DEF TypeOK, Request
  <2>2. Consistent(rq[r])'
    BY <1>2, <1>4, <1>6, <2>1 DEF Consistent, Working, Reserved
  <2>3. ASSUME NEW s \in Requests, s # r PROVE Consistent(rq[s])'
    <3>1. Consistent(rq[s])
      BY DEF History
    <3>2. rq'[s] = rq[s]
      BY <2>1, <2>3
    <3>3. rq[s].pc \in {"submit", "orphan"} =>
            \/ Committed(rq[s].intent.generation, rq[s].next)'
            \/ Holds(actor, rq[s].intent.generation, rq[s].next)' /\ Holds(disk, rq[s].intent.generation, rq[s].next)'
      BY <1>1, <1>4, <1>6, <2>3, <3>2 DEF Holds
    <3> QED BY <1>4, <3>1, <3>2, <3>3 DEF Consistent
  <2> QED BY <1>1, <1>4, <1>5, <1>6, <2>2, <2>3 DEF History
\* Confirming what is pending and in the history: no other request may still
\* write it, and nothing else is pending.
<1>7. ASSUME NEW p \in Preference, Committed(g, p), actor.scope = g, actor.pending = p,
             actor' = Confirmed(p), rq' = [rq EXCEPT ![r].pc = "confirmed"], Committed(g, rq[r].next)
      PROVE  History'
  <2>1. actor'.scope = g /\ actor'.pending = None /\ actor'.confirmed = p
    BY <1>2, <1>7 DEF Confirmed, Actor
  <2>2. p # None /\ p.revision \in Nat
    BY <1>7, NoneAssumption DEF Preference
  <2>3. p.revision \in 1..Len(chain[g]) /\ chain[g] \in Seq(Preference)
    BY <1>3, <1>7 DEF Committed, TypeOK
  <2>4. Len(chain[g]) = p.revision
    <3>1. /\ p.revision = actor.confirmed.revision + 1
          /\ Len(chain[g]) = actor.confirmed.revision \/ Len(chain[g]) = p.revision
      BY <1>3, <1>7, <2>2 DEF History, Follows
    <3>2. actor.confirmed.revision \in Nat
      BY <1>2 DEF Actor, Preference
    <3> QED BY <2>2, <2>3, <3>1, <3>2
  <2>5. Follows(actor)'
    BY <1>1, <1>3, <1>4, <1>7, <2>1, <2>4 DEF Follows, Known
  <2>6. \A s \in Requests : rq[s].pc \in {"submit", "orphan"} => Committed(rq[s].intent.generation, rq[s].next)
    BY <1>7 DEF History, Consistent, Holds
  <2> QED BY <1>6, <1>7, <2>1, <2>5, <2>6, "confirmed" \in {"sync", "confirmed"}, "confirmed" # "sync"
<1>8. rq[r].observed \in Preference /\ rq[r].next \in Preference
  BY <1>2 DEF Request
\* What a request saw of its own writing is in the history.
<1>9. ASSUME rq[r].observed = rq[r].next, rq[r].pc \in {"reserve", "confirm"}
      PROVE  Committed(g, rq[r].observed)
  <2>1. rq[r].observed # Baseline
    BY <1>2, <1>9 DEF Consistent, Working, Reserved, Baseline
  <2> QED BY <1>2, <2>1 DEF Consistent
<1>10. CASE Replay(r)
  <2>1. rq[r].observed = rq[r].next /\ rq[r].pc = "reserve" /\ rq' = [rq EXCEPT ![r].pc = "confirmed"]
    BY <1>10 DEF Replay
  <2>2. Committed(g, rq[r].observed) /\ Committed(g, rq[r].next)
    BY <2>1, <1>9
  <2>3. CASE Classify(g, rq[r].observed) = "pending"
    <3>1. actor' = Confirmed(rq[r].observed)
      BY <1>10, <2>3 DEF Replay
    <3>2. actor.scope = g /\ actor.pending = rq[r].observed
      BY <1>8, <2>3, ClassifyFacts
    <3> QED BY <1>7, <1>8, <2>1, <2>2, <3>1, <3>2
  <2>4. CASE Classify(g, rq[r].observed) # "pending"
    <3>1. actor' = actor
      BY <1>10, <2>4 DEF Replay
    <3>2. Follows(actor)'
      BY <3>1, <1>1, <1>4 DEF History, Follows
    <3>3. \A s \in Requests : s # r /\ rq[s].pc \in {"submit", "orphan"} =>
            \/ Committed(rq[s].intent.generation, rq[s].next)
            \/ Holds(actor, rq[s].intent.generation, rq[s].next)' /\ Holds(disk, rq[s].intent.generation, rq[s].next)
      <4> TAKE s \in Requests
      <4>1. Consistent(rq[s])
        BY DEF History
      <4>2. rq[s].pc \in {"submit", "orphan"} =>
              \/ Committed(rq[s].intent.generation, rq[s].next)
              \/ Holds(actor, rq[s].intent.generation, rq[s].next) /\ Holds(disk, rq[s].intent.generation, rq[s].next)
        BY <4>1 DEF Consistent
      <4>3. rq[s]' = rq[s] \/ s = r
        BY <2>1 DEF TypeOK
      <4> QED BY <1>1, <3>1, <4>2, <4>3 DEF Holds
    <3> QED BY <1>6, <2>1, <2>2, <3>1, <3>2, <3>3, "confirmed" \in {"sync", "confirmed"}, "confirmed" # "sync"
  <2> QED BY <2>3, <2>4
<1>11. CASE Confirm(r)
  <2>1. /\ rq[r].observed = rq[r].next /\ rq[r].pc = "confirm" /\ rq' = [rq EXCEPT ![r].pc = "confirmed"]
        /\ actor.scope = g /\ actor.pending = rq[r].observed /\ actor' = Confirmed(rq[r].observed)
    BY <1>11 DEF Confirm, MayConfirm
  <2>2. Committed(g, rq[r].observed) /\ Committed(g, rq[r].next)
    BY <2>1, <1>9
  <2> QED BY <1>7, <1>8, <2>1, <2>2
<1>12. CASE Reserve(r)
  <2>1. /\ rq[r].pc = "reserve" /\ rq' = [rq EXCEPT ![r].pc = "sync"]
        /\ Classify(g, rq[r].observed) = "confirmed" /\ actor' = [actor EXCEPT !.pending = rq[r].next]
        /\ rq[r].next.revision = rq[r].observed.revision + 1
    BY <1>12 DEF Reserve, MayBegin
  <2>2. actor.scope = g /\ actor.pending = None /\ actor.confirmed = rq[r].observed /\ rq[r].next # None
    BY <1>8, <2>1, ClassifyFacts
  <2>3. actor'.scope = g /\ actor'.pending = rq[r].next /\ actor'.confirmed = actor.confirmed
    BY <1>2, <2>1, <2>2 DEF Actor
  <2>4. Known(g, actor.confirmed) /\ Len(chain[g]) = actor.confirmed.revision
    BY <1>3, <2>2 DEF History, Follows
  <2>5. Follows(actor)'
    BY <1>1, <1>3, <1>4, <2>1, <2>2, <2>3, <2>4 DEF Follows
  <2>6. \A s \in Requests : rq[s].pc \in {"submit", "orphan"} => Committed(rq[s].intent.generation, rq[s].next)
    <3> TAKE s \in Requests
    <3>1. Consistent(rq[s]) /\ rq[s].next # None
      BY NoneAssumption DEF History, TypeOK, Request
    <3> QED BY <2>2, <3>1 DEF Consistent, Holds
  <2>7. rq[r].next.revision > 0
    BY <1>2, <2>1 DEF Consistent, Working, Reserved
  <2> QED BY <1>6, <2>1, <2>2, <2>3, <2>5, <2>6, <2>7, "sync" \in {"sync", "confirmed"}, "confirmed" # "sync"
<1> QED BY <1>10, <1>11, <1>12

\* The update of a request in D1.
LEMMA SubmitStep ==
  ASSUME TypeOK, TypeOK', Fences, History, NEW r \in Requests, Submit(r)
  PROVE  History'
<1>1. UNCHANGED <<actor, disk>> /\ rq[r] \in Request /\ Consistent(rq[r]) /\ rq[r].pc \in {"submit", "orphan"}
  BY DEF Submit, TypeOK, History
<1>d. PICK i, g, next : i = rq[r].intent /\ g = i.generation /\ next = rq[r].next
  OBVIOUS
<1> DEFINE pc == IF rq[r].pc = "submit" THEN "readback" ELSE "lost"
           row == [d1 EXCEPT !.preference = next,
                             !.intents = IF next.sealed THEN d1.intents ELSE d1.intents \cup {i}]
<1>2. i \in Intents /\ g \in Generations /\ g # 0 /\ next \in Preference /\ next # None /\ next.revision \in Nat
  <2>1. i \in Intents /\ next \in Preference
    BY <1>d, <1>1 DEF TypeOK, Request
  <2>2. g \in Generations /\ g # 0
    BY <1>d, <2>1, IntentAssumption, GenerationAssumption
  <2>3. next # None
    BY <2>1, NoneAssumption
  <2>4. next.revision \in Nat
    BY <2>1 DEF Preference
  <2> QED BY <2>1, <2>2, <2>3, <2>4
<1>3. next.revision > 0
  BY <1>d, <1>1 DEF Consistent, Working, Reserved
<1>4. rq'[r].pc = pc /\ rq'[r].next = next /\ rq'[r].observed = rq[r].observed /\ rq'[r].intent = i
      /\ \A s \in Requests : s # r => rq'[s] = rq[s]
  BY <1>d, <1>1 DEF Submit, TypeOK, Request
<1>5. CASE UNCHANGED <<d1, past, chain>>
  <2> DEFINE q == [rq[r] EXCEPT !.pc = pc]
  <2>1. rq' = [rq EXCEPT ![r] = q]
    BY DEF Submit
  <2>2. q.pc = pc /\ q.next = next /\ q.observed = rq[r].observed /\ q.intent = i
    BY <1>d, <1>1 DEF Request
  <2>3. pc \in {"readback", "lost"}
    OBVIOUS
  <2> HIDE DEF q, pc
  <2>4. Consistent(q)
    BY <1>d, <1>1, <1>3, <2>2, <2>3 DEF Consistent, Working, Reserved
  <2> QED BY <1>1, <1>5, <2>1, <2>4, HistoryKept
<1>6. CASE ~UNCHANGED <<d1, past, chain>>
  <2>c. PICK c : c = chain[g]
    OBVIOUS
  <2>1. /\ d1' = row /\ past' = past \cup {row} /\ d1.generation = g /\ d1.retired = None
        /\ chain' = IF next.revision > Len(c) THEN [chain EXCEPT ![g] = Append(c, next)] ELSE chain
    BY <1>d, <1>6, <2>c DEF Submit, MaySubmit, IsCurrent
  <2>2. row.generation = g /\ row.retired = None /\ row.preference = next
    BY <2>1 DEF TypeOK, Row
  <2>3. c \in Seq(Preference) /\ Len(c) \in Nat
    BY <1>2, <2>c DEF TypeOK
  <2> HIDE DEF row, pc
\* Either it is in the history already, or it is the next to come, and both
\* the actor and its disk wait for it.
  <2>4. \/ Committed(g, next)
        \/ /\ next.revision = Len(c) + 1 /\ actor.scope = g /\ actor.pending = next
           /\ disk.scope = g /\ disk.pending = next
    <3>1. CASE Committed(g, next)
      BY <3>1
    <3>2. CASE Holds(actor, g, next) /\ Holds(disk, g, next)
      <4>1. actor.scope = g /\ actor.pending = next /\ disk.scope = g /\ disk.pending = next
        BY <3>2 DEF Holds
      <4>2. Follows(actor) /\ actor.confirmed.revision \in Nat
        BY DEF History, TypeOK, Actor, Preference
      <4>3. /\ next.revision = actor.confirmed.revision + 1
            /\ Len(c) = actor.confirmed.revision \/ Committed(g, next)
        BY <1>2, <2>c, <4>1, <4>2 DEF Follows
      <4> QED BY <4>1, <4>3
    <3> QED BY <1>d, <1>1, <3>1, <3>2 DEF Consistent
  <2>5. CASE Committed(g, next)
    <3>1. chain' = chain
      <4>1. next.revision \in 1..Len(c)
        BY <2>5, <2>c DEF Committed
      <4> QED BY <1>2, <2>1, <2>3, <4>1
    <3>2. \A h, p : (Committed(h, p)' <=> Committed(h, p)) /\ (Known(h, p)' <=> Known(h, p))
      BY <3>1 DEF Committed, Known
    <3>3. Follows(actor)' /\ Follows(disk)'
      BY <1>1, <3>1, <3>2 DEF History, Follows
    <3>4. \A x \in past' : x.retired = None => Known(x.generation, x.preference)'
      BY <2>1, <2>2, <2>5, <3>2 DEF History, Known
    <3>5. Consistent(rq[r])'
      BY <1>d, <1>1, <1>3, <1>4, <2>5, <3>2 DEF Consistent, pc, Working, Reserved
    <3>6. ASSUME NEW s \in Requests, s # r PROVE Consistent(rq[s])'
      <4>1. rq'[s] = rq[s] /\ Consistent(rq[s])
        BY <1>4, <3>6 DEF History
      <4> QED BY <1>1, <3>2, <4>1 DEF Consistent, Holds
    <3> QED BY <1>1, <3>1, <3>3, <3>4, <3>5, <3>6 DEF History
  <2>6. CASE ~Committed(g, next)
    <3>1. next.revision = Len(c) + 1 /\ actor.scope = g /\ actor.pending = next /\ disk.scope = g
          /\ disk.pending = next
      BY <2>4, <2>6
    <3>2. chain' = [chain EXCEPT ![g] = Append(c, next)]
      BY <2>1, <2>3, <3>1
    <3>3. /\ chain'[g] = Append(c, next) /\ Len(chain'[g]) = Len(c) + 1 /\ chain'[g][Len(c) + 1] = next
          /\ \A k \in 1..Len(c) : chain'[g][k] = c[k]
          /\ \A h \in Generations : h # g => chain'[h] = chain[h]
      BY <1>2, <2>3, <2>c, <3>2 DEF TypeOK
    <3>4. Grows
      <4> SUFFICES ASSUME NEW h \in Generations
          PROVE  Len(chain[h]) <= Len(chain'[h]) /\ \A k \in 1..Len(chain[h]) : chain'[h][k] = chain[h][k]
        BY DEF Grows
      <4>1. CASE h = g
        BY <2>3, <2>c, <3>3, <4>1
      <4>2. CASE h # g
        <5>1. chain'[h] = chain[h] /\ Len(chain[h]) \in Nat
          BY <3>3, <4>2 DEF TypeOK
        <5> QED BY <5>1
      <4> QED BY <4>1, <4>2
    <3>5. Committed(g, next)'
      BY <1>2, <2>3, <3>1, <3>3 DEF Committed
    <3>6. \A h, p : (Committed(h, p) => Committed(h, p)') /\ (Known(h, p) => Known(h, p)')
      BY <3>4, CommittedStays, KnownStays
    <3>7. ASSUME NEW x \in Actor, Follows(x), x.scope = g, x.pending = next
          PROVE  Follows(x)'
      <4>1. Known(g, x.confirmed) /\ next.revision = x.confirmed.revision + 1
        BY <1>2, <3>7 DEF Follows
      <4>2. Known(g, x.confirmed)'
        BY <3>6, <4>1
      <4>3. Len(chain'[g]) = next.revision
        BY <3>1, <3>3
      <4> QED BY <1>2, <3>5, <3>7, <4>1, <4>2, <4>3 DEF Follows
    <3>8. Follows(actor)' /\ Follows(disk)'
      <4>1. actor \in Actor /\ disk \in Actor /\ Follows(actor) /\ Follows(disk)
        BY DEF TypeOK, History
      <4>2. PICK x, y : x = actor /\ y = disk
        OBVIOUS
      <4>3. Follows(x)' /\ Follows(y)'
        BY <3>1, <3>7, <4>1, <4>2
      <4> QED BY <1>1, <4>2, <4>3 DEF Follows
    <3>9. \A x \in past' : x.retired = None => Known(x.generation, x.preference)'
      BY <2>1, <2>2, <3>5, <3>6 DEF History, Known
    <3>10. \A h \in Generations : h > disk'.scope => chain'[h] = <<>>
      <4>1. \A h \in Generations : h > g => h # g
        BY GenerationAssumption, <1>2
      <4> QED BY <1>1, <3>1, <3>3, <4>1 DEF History
    <3>11. Consistent(rq[r])'
      BY <1>d, <1>1, <1>3, <1>4, <3>5, <3>6 DEF Consistent, pc, Working, Reserved
    <3>12. ASSUME NEW s \in Requests, s # r PROVE Consistent(rq[s])'
      <4>1. rq'[s] = rq[s] /\ Consistent(rq[s])
        BY <1>4, <3>12 DEF History
      <4> QED BY <1>1, <3>6, <4>1 DEF Consistent, Holds
    <3> QED BY <1>1, <3>8, <3>9, <3>10, <3>11, <3>12 DEF History
  <2> QED BY <2>5, <2>6
<1> QED BY <1>5, <1>6

\* Steps beside the preference: the authority and the history stay, and a row
\* more is retired or the first of its generation.
LEMMA HistoryAside ==
  ASSUME History, UNCHANGED <<disk, rq, chain>>, actor'.scope = actor.scope,
         actor'.confirmed = actor.confirmed, actor'.pending = actor.pending,
         \A row \in past' : row \in past \/ row.retired # None \/ row.preference = Baseline
  PROVE  History'
<1>1. \A h, p : (Committed(h, p)' <=> Committed(h, p)) /\ (Known(h, p)' <=> Known(h, p))
  BY DEF Committed, Known
<1>2. Follows(actor)' /\ Follows(disk)'
  BY <1>1 DEF History, Follows
<1>3. \A row \in past' : row.retired = None => Known(row.generation, row.preference)'
  BY <1>1 DEF History, Known
<1>4. ASSUME NEW r \in Requests PROVE Consistent(rq[r])'
  <2>1. Consistent(rq[r])
    BY DEF History
  <2> QED BY <1>1, <2>1 DEF Consistent, Holds
<1> QED BY <1>2, <1>3, <1>4 DEF History

LEMMA HistoryInv == TypeOK /\ Fences /\ History /\ [Next]_vars => History'
<1> SUFFICES ASSUME TypeOK, Fences, History, [Next]_vars PROVE History'
  OBVIOUS
<1>y. TypeOK'
  BY TypeInv
<1>t. /\ actor \in Actor /\ disk \in Actor /\ d1 \in Row /\ rq \in [Requests -> Request]
      /\ actor.scope \in Nat /\ disk.scope \in Nat
  <2>1. Generations \cup {0} \subseteq Nat
    BY GenerationAssumption
  <2>2. actor \in Actor /\ disk \in Actor /\ d1 \in Row /\ rq \in [Requests -> Request]
    BY DEF TypeOK
  <2>3. actor.scope \in Generations \cup {0} /\ disk.scope \in Generations \cup {0}
    BY <2>2 DEF Actor
  <2> QED BY <2>1, <2>2, <2>3
<1>r. ASSUME NEW r \in Requests, \/ StartRequest(r) \/ Observe(r) \/ Read(r) \/ Replay(r) \/ Reserve(r)
                         \/ Synced(r) \/ Submit(r) \/ Confirm(r) \/ Abandon(r)
      PROVE  History'
  BY <1>r, <1>y, RequestSteps, ActorSteps, SubmitStep
<1>s. ASSUME NEW s \in Senders, BeforeFetch(s) \/ Enter(s) \/ Refuse(s) \/ Leave(s)
      PROVE  History'
  <2>1. UNCHANGED <<disk, rq, chain, past>>
    BY <1>s DEF BeforeFetch, Enter, Refuse, Leave
  <2>2. actor'.scope = actor.scope /\ actor'.confirmed = actor.confirmed /\ actor'.pending = actor.pending
    <3>1. CASE Enter(s)
      BY <3>1, <1>t DEF Enter, Actor
    <3>2. CASE Refuse(s)
      BY <3>2, <1>t DEF Refuse, Actor
    <3> QED BY <1>s, <3>1, <3>2 DEF BeforeFetch, Leave
  <2> QED BY <2>1, <2>2, HistoryAside
<1>q. ASSUME NEW q \in Retirers,
             \/ StartRetire(q) \/ Current(q) \/ Block(q) \/ Blocked(q) \/ Retire(q) \/ Retired(q)
             \/ Status(q) \/ HasBlock(q) \/ AbandonRetire(q)
      PROVE  History'
  <2>1. UNCHANGED <<disk, rq, chain>>
    BY <1>q DEF StartRetire, Current, Block, Blocked, Retire, Retired, Status, HasBlock, AbandonRetire
  <2>2. actor'.scope = actor.scope /\ actor'.confirmed = actor.confirmed /\ actor'.pending = actor.pending
    <3>1. CASE Block(q)
      BY <3>1, <1>t DEF Block, Actor
    <3> QED BY <1>q, <3>1 DEF StartRetire, Current, Blocked, Retire, Retired, Status, HasBlock, AbandonRetire
  <2>3. CASE Retire(q)
    <3> DEFINE row == [d1 EXCEPT !.retired = rt[q].op, !.preference.enabled = FALSE, !.preference.sealed = TRUE]
    <3>1. past' = past \cup {row} /\ rt[q].pc # "idle"
      BY <2>3 DEF Retire
    <3>2. row.retired = rt[q].op /\ rt[q].op # None
      BY <3>1, <1>t, NoneAssumption DEF Row, TypeOK
    <3> HIDE DEF row
    <3> QED BY <2>1, <2>2, <3>1, <3>2, HistoryAside
  <2>4. CASE UNCHANGED past
    BY <2>1, <2>2, <2>4, HistoryAside
  <2> QED BY <1>q, <2>3, <2>4
          DEF StartRetire, Current, Block, Blocked, Retired, Status, HasBlock, AbandonRetire
<1>1. CASE Pair
  <2> DEFINE row == [d1 EXCEPT !.generation = d1.generation + 1, !.preference = Baseline, !.retired = None]
  <2>1. past' = past \cup {row} /\ UNCHANGED <<disk, rq, chain, actor>>
    BY <1>1 DEF Pair
  <2>2. row.preference = Baseline
    BY <1>t DEF Row
  <2> HIDE DEF row
  <2> QED BY <2>1, <2>2, HistoryAside
<1>2. CASE RestoreD1 \/ Tick \/ StepBack \/ UNCHANGED vars
  BY <1>2, HistoryAside DEF RestoreD1, Tick, StepBack, vars
\* The actor is bound to a new generation: nothing is pending, nothing committed.
<1>3. ASSUME NEW g \in Generations, g = actor.scope + 1, actor.pending = None,
             actor'.scope = g, actor'.confirmed = Baseline, actor'.pending = None,
             UNCHANGED <<disk, rq, chain, past>>
      PROVE  History'
  <2>1. \A h, p : (Committed(h, p)' <=> Committed(h, p)) /\ (Known(h, p)' <=> Known(h, p))
    BY <1>3 DEF Committed, Known
  <2>2. disk.scope <= actor.scope /\ disk.scope <= g /\ g > disk.scope
    BY <1>3, <1>t DEF History
  <2>3. chain'[g] = <<>> /\ Len(chain'[g]) = 0
    BY <1>3, <2>2 DEF History
  <2>4. Follows(actor)'
    BY <1>3, <1>t, <2>3 DEF Follows, Known, Baseline
  <2>5. Follows(disk)'
    BY <1>3, <2>1 DEF History, Follows
  <2>6. ASSUME NEW r \in Requests PROVE Consistent(rq[r])'
    <3>1. Consistent(rq[r]) /\ rq[r].next # None
      BY NoneAssumption DEF History, TypeOK, Request
    <3> QED BY <1>3, <2>1, <3>1 DEF Consistent, Holds
  <2> QED BY <1>3, <2>1, <2>2, <2>4, <2>5, <2>6 DEF History
<1>4. CASE InitializeDisabled
  <2>1. actor.confirmed = Baseline /\ actor.pending = None /\ actor.scope = 0 /\ 1 \in Generations
    BY <1>4 DEF InitializeDisabled, History, Follows
  <2>2. actor'.scope = 1 /\ actor'.confirmed = actor.confirmed /\ actor'.pending = actor.pending
    BY <1>4, <1>t DEF InitializeDisabled, Actor
  <2>3. UNCHANGED <<disk, rq, chain, past>>
    BY <1>4 DEF InitializeDisabled
  <2> QED BY <1>3, <2>1, <2>2, <2>3
<1>5. CASE AdvanceGeneration
  <2>1. actor.pending = None /\ actor.scope + 1 \in Generations /\ UNCHANGED <<disk, rq, chain, past>>
    BY <1>5 DEF AdvanceGeneration
  <2>2. actor'.scope = actor.scope + 1 /\ actor'.confirmed = Baseline /\ actor'.pending = actor.pending
    BY <1>5, <1>t DEF AdvanceGeneration, Actor
  <2> QED BY <1>3, <2>1, <2>2
<1>6. CASE Flush
  <2>1. disk' = actor /\ UNCHANGED <<actor, rq, chain, past>>
    BY <1>6 DEF Flush
  <2>2. \A h, p : (Committed(h, p)' <=> Committed(h, p)) /\ (Known(h, p)' <=> Known(h, p))
    BY <2>1 DEF Committed, Known
  <2>3. Follows(actor)' /\ Follows(disk)'
    BY <2>1, <2>2 DEF History, Follows
  <2>4. \A g \in Generations : g > disk'.scope => chain'[g] = <<>>
    <3>1. \A g \in Generations : g > actor.scope => g > disk.scope
      BY <1>t, GenerationAssumption DEF History
    <3> QED BY <2>1, <3>1 DEF History
  <2>5. ASSUME NEW r \in Requests PROVE Consistent(rq[r])'
    <3>1. Consistent(rq[r])
      BY DEF History
    <3> QED BY <2>1, <2>2, <3>1 DEF Consistent, Holds
  <2> QED BY <1>t, <2>1, <2>2, <2>3, <2>4, <2>5 DEF History
<1>7. CASE Crash
  <2>1. actor' = disk /\ UNCHANGED <<disk, chain, past>>
        /\ rq' = [r \in Requests |-> [rq[r] EXCEPT !.pc = AfterCrash(rq[r].pc)]]
    BY <1>7 DEF Crash
  <2>2. \A h, p : (Committed(h, p)' <=> Committed(h, p)) /\ (Known(h, p)' <=> Known(h, p))
    BY <2>1 DEF Committed, Known
  <2>3. Follows(actor)' /\ Follows(disk)'
    BY <2>1, <2>2 DEF History, Follows
  <2>4. ASSUME NEW r \in Requests PROVE Consistent(rq[r])'
    <3>1. /\ rq'[r].pc = AfterCrash(rq[r].pc) /\ rq'[r].next = rq[r].next
          /\ rq'[r].observed = rq[r].observed /\ rq'[r].intent = rq[r].intent
      BY <1>t, <2>1 DEF Request
    <3>2. \/ rq'[r].pc = "lost" \/ rq'[r].pc = rq[r].pc
          \/ rq[r].pc = "submit" /\ rq'[r].pc = "orphan"
      BY <1>t, <3>1 DEF AfterCrash, Request, Reserved, RequestEnd, RetireEnd
    <3>3. Consistent(rq[r]) /\ rq[r].intent = rq[r].intent
      BY DEF History
    <3>4. CASE rq'[r].pc = "lost"
      BY <2>2, <3>1, <3>3, <3>4 DEF Consistent, Working, Reserved
    <3>5. CASE rq'[r].pc = rq[r].pc
      BY <2>1, <2>2, <3>1, <3>3, <3>5 DEF Consistent, Holds
    <3>6. CASE rq[r].pc = "submit" /\ rq'[r].pc = "orphan"
      BY <2>1, <2>2, <3>1, <3>3, <3>6 DEF Consistent, Holds, Working, Reserved
    <3> QED BY <3>2, <3>4, <3>5, <3>6
  <2> QED BY <1>t, <2>1, <2>2, <2>3, <2>4 DEF History
<1> QED BY <1>r, <1>s, <1>q, <1>1, <1>2, <1>4, <1>5, <1>6, <1>7 DEF Next

LEMMA Inductive == IInv /\ [Next]_vars => IInv'
BY TypeInv, StartsInv, FencesInv, HistoryInv DEF IInv

\* D1, the actor and its disk tell one history, however often the owner of D1
\* restores it, whichever rivals write and whenever the actor crashes.
THEOREM OneHistoryIsTold == Spec => []OneHistory
<1>1. IInv => OneHistory
  BY HistoryShows DEF IInv
<1> QED BY <1>1, InitInv, Inductive, PTL DEF Spec

\* Only its own entry brings a dispatch into the provider.
LEMMA EntryIsEnter ==
  ASSUME TypeOK, [Next]_vars, NEW s \in Senders, sd[s].pc # "entered", sd'[s].pc = "entered"
  PROVE  Enter(s)
<1>1. sd \in [Senders -> Sender]
  BY DEF TypeOK
<1>2. CASE UNCHANGED sd
  BY <1>2
<1>3. CASE Crash
  <2>1. sd'[s].pc = AfterCrash(sd[s].pc)
    BY <1>1, <1>3 DEF Crash, Sender
  <2> QED BY <1>1, <2>1 DEF AfterCrash, Sender, RequestEnd, RetireEnd
<1>4. ASSUME NEW t \in Senders, BeforeFetch(t) \/ Refuse(t) \/ Leave(t) PROVE FALSE
  BY <1>1, <1>4 DEF BeforeFetch, Refuse, Leave, Sender
<1>5. ASSUME NEW t \in Senders, Enter(t) PROVE Enter(s)
  <2>1. t # s => sd'[s] = sd[s]
    BY <1>1, <1>5 DEF Enter
  <2> QED BY <1>5, <2>1
<1>6. ASSUME NEW r \in Requests, \/ StartRequest(r) \/ Observe(r) \/ Read(r) \/ Replay(r) \/ Reserve(r)
                         \/ Synced(r) \/ Submit(r) \/ Confirm(r) \/ Abandon(r)
      PROVE  UNCHANGED sd
  BY <1>6 DEF StartRequest, Observe, Read, Replay, Reserve, Synced, Submit, Confirm, Abandon
<1>7. ASSUME NEW q \in Retirers,
             \/ StartRetire(q) \/ Current(q) \/ Block(q) \/ Blocked(q) \/ Retire(q) \/ Retired(q)
             \/ Status(q) \/ HasBlock(q) \/ AbandonRetire(q)
      PROVE  UNCHANGED sd
  BY <1>7 DEF StartRetire, Current, Block, Blocked, Retire, Retired, Status, HasBlock, AbandonRetire
<1>8. ASSUME InitializeDisabled \/ AdvanceGeneration \/ Pair \/ Flush \/ RestoreD1 \/ Tick \/ StepBack
             \/ UNCHANGED vars
      PROVE  UNCHANGED sd
  BY <1>8 DEF InitializeDisabled, AdvanceGeneration, Pair, Flush, RestoreD1, Tick, StepBack, vars
<1> QED BY <1>2, <1>3, <1>4, <1>5, <1>6, <1>7, <1>8 DEF Next

\* What enters the provider is under the latest preference committed, which is
\* enabled, and its generation was not answered as retired.
THEOREM EntryIsAllowed == Spec => EntryAllowed
<1>1. ASSUME IInv, [Next]_vars, NEW s \in Senders, sd[s].pc # "entered", sd'[s].pc = "entered"
      PROVE  /\ sd[s].observed = LatestOf(sd[s].generation) /\ LatestOf(sd[s].generation).enabled
             /\ \A q \in Retirers : ~(rt[q].pc = "committed" /\ rt[q].generation = sd[s].generation)
  <2> DEFINE g == sd[s].generation
  <2>1. TypeOK /\ Starts /\ Fences /\ History /\ actor \in Actor
    BY <1>1 DEF IInv, TypeOK
  <2>2. Enter(s)
    BY <1>1, <2>1, EntryIsEnter
  <2>3. /\ sd[s].pc = "enter" /\ sd[s].observed.enabled /\ Classify(g, sd[s].observed) = "confirmed"
        /\ actor.fence[g] = None
    BY <2>2 DEF Enter, IsOpen
  <2>4. sd[s].observed \in Preference /\ g \in Generations /\ g # 0
    BY <2>1, <2>3, GenerationAssumption DEF TypeOK, Sender, Starts
  <2>5. actor.scope = g /\ actor.pending = None /\ actor.confirmed = sd[s].observed
    BY <2>1, <2>3, <2>4, ClassifyFacts
  <2>6. LatestOf(g) = sd[s].observed
    BY <2>1, <2>4, <2>5, FollowsFacts DEF History
  <2>7. disk.fence[g] = None
    BY <2>1, <2>3, <2>4 DEF Fences
  <2>8. \A q \in Retirers : ~(rt[q].pc = "committed" /\ rt[q].generation = g)
    BY <2>1, <2>7 DEF Fences
  <2> QED BY <2>3, <2>6, <2>8
<1>2. IInv /\ [Next]_vars =>
        [\A s \in Senders : sd[s].pc # "entered" /\ sd'[s].pc = "entered" =>
           /\ sd[s].observed = LatestOf(sd[s].generation)
           /\ LatestOf(sd[s].generation).enabled]_vars
  BY <1>1
<1>3. IInv /\ [Next]_vars =>
        [\A s \in Senders, q \in Retirers :
           sd[s].pc # "entered" /\ sd'[s].pc = "entered" =>
             ~(rt[q].pc = "committed" /\ rt[q].generation = sd[s].generation)]_vars
  BY <1>1
<1> QED BY <1>2, <1>3, InitInv, Inductive, PTL DEF Spec, EntryAllowed, ConsentRespected, RetiredIsSilent

(***************************************************************************)
(* The pairing.  The receipts of a receiver grow at their end, by the row  *)
(* that follows (Recorded), and a request commits in the one step between  *)
(* its submission and its reply.                                           *)
(***************************************************************************)
PairingTyped ==
  /\ issuer \in P!Issuer \cup {None} /\ challenges \in [Operators -> P!Challenge \cup {None}]
  /\ rows \in [Receivers -> P!Row \cup {None}] /\ used \in [Receivers -> SUBSET Incarnations]
  /\ receipts \subseteq P!Receipt /\ IsFiniteSet(receipts) /\ recovered \subseteq Recoveries
  /\ pairs \in [Calling -> P!Request] /\ committed \subseteq Calling

\* What a request may still be waiting for, and what it was told.
PairAt(r) ==
  LET q == pairs[r]
  IN /\ q.pc # "idle" => q.ask \in P!Ask
     /\ q.pc \in {"ingress", "private", "owner"} => q.ask.kind = "write"
     /\ q.pc \in {"verify", "check", "submit"} /\ q.ask.kind = "redeem" => challenges[q.ask.operator] # None
     /\ q.pc # "end" => q.answer \in {None, "unknown"}
     /\ r \in committed => q.pc \in {"reply", "end"}
     /\ q.pc = "reply" => (q.found <=> r \in committed)
     /\ q.answer = "unavailable" => r \notin committed
     /\ q.answer = "receipt" => r \in committed

Offered(o) == challenges[o] # None => challenges[o].epoch = IntentOf[o].expected + 1

Mine(x) == {c \in receipts : c.receiver = x}
Last(x) == IF rows[x] = None THEN 0 ELSE rows[x].lifecycle

\* The chain of a receiver; what it has been, and what was recovered for it, is used.
ChainOf(x) ==
  /\ {c.lifecycle : c \in Mine(x)} = 1 .. Last(x) /\ Cardinality(Mine(x)) = Last(x)
  /\ \A c \in Mine(x) : c.lifecycle = Last(x) =>
       c.incarnation = rows[x].incarnation /\ c.epoch = rows[x].epoch /\ c.retired = rows[x].retired
  /\ \A c, e \in Mine(x) : c.lifecycle < e.lifecycle =>
       c.epoch <= e.epoch /\ (c.retired => e.epoch > c.epoch) /\ (c.incarnation = e.incarnation => e.retired)
  /\ \A g \in recovered, c, e \in Mine(x) :
       GrantOf[g].receiver = x /\ c.incarnation = GrantOf[g].incarnation /\ c.lifecycle = e.lifecycle + 1 =>
         c.epoch = e.epoch \/ (e.incarnation = GrantOf[g].predecessor /\ e.epoch = GrantOf[g].from)
  /\ \A c \in Mine(x) : c.incarnation \in used[x]
  /\ \A g \in recovered : GrantOf[g].receiver = x => GrantOf[g].incarnation \in used[x]

PairingInv ==
  /\ PairingTyped /\ (\A r \in Calling : PairAt(r)) /\ (\A o \in Operators : Offered(o))
  /\ \A x \in Receivers : ChainOf(x)

\* A row may follow: of a later epoch if the row before is retired, of an
\* incarnation that is new unless it ends, and with a grant that names the row.
MayFollow(x, row) ==
  /\ row \in P!Row /\ row.lifecycle = Last(x) + 1
  /\ rows[x] # None => /\ rows[x].epoch <= row.epoch
                       /\ rows[x].retired => rows[x].epoch < row.epoch
  /\ row.incarnation \in used[x] => /\ row.retired /\ rows[x] # None
                                    /\ row.incarnation = rows[x].incarnation /\ row.epoch = rows[x].epoch
  /\ recovered \subseteq recovered' /\ recovered' \subseteq Recoveries
  /\ \A g \in recovered' \ recovered :
       /\ GrantOf[g].receiver = x /\ GrantOf[g].incarnation = row.incarnation /\ row.incarnation \notin used[x]
       /\ rows[x] # None /\ rows[x].incarnation = GrantOf[g].predecessor /\ rows[x].epoch = GrantOf[g].from

LEMMA ChainGrows ==
  ASSUME P!PairingAssumption, PairingTyped, NEW x \in Receivers, ChainOf(x), NEW row,
         MayFollow(x, row), P!Recorded(x, row)
  PROVE  ChainOf(x)'
<1>. DEFINE new == [receiver |-> x, epoch |-> row.epoch, operation |-> row.operation,
                    incarnation |-> row.incarnation, lifecycle |-> row.lifecycle, retired |-> row.retired]
<1>1. /\ rows[x] \in P!Row \cup {None} /\ row \in P!Row /\ None \notin P!Row /\ Epochs \subseteq Nat
      /\ receipts \subseteq P!Receipt /\ IsFiniteSet(receipts) /\ used[x] \subseteq Incarnations
  BY DEF PairingTyped, MayFollow, P!PairingAssumption
<1>2. /\ rows'[x] = row /\ used'[x] = used[x] \cup {row.incarnation} /\ receipts' = receipts \cup {new}
  BY DEF P!Recorded, PairingTyped
<1>3. /\ Last(x) \in Nat /\ row.lifecycle = Last(x) + 1 /\ Last(x)' = Last(x) + 1 /\ row # None
  BY <1>1, <1>2 DEF Last, MayFollow, P!Row
<1>4. Mine(x)' = Mine(x) \cup {new} /\ Mine(x) \subseteq P!Receipt
  BY <1>1, <1>2 DEF Mine
<1>5. \A c \in Mine(x) : c.lifecycle \in 1 .. Last(x) /\ c.epoch \in Nat
  BY <1>1, <1>4 DEF ChainOf, P!Receipt
<1>6. new \notin Mine(x) /\ new.lifecycle = Last(x) + 1 /\ new.epoch = row.epoch /\ row.epoch \in Nat
      /\ new.incarnation = row.incarnation /\ new.retired = row.retired
  <2>1. row.epoch \in Nat
    BY <1>1 DEF P!Row
  <2>2. new.lifecycle = Last(x) + 1
    BY <1>3
  <2>3. new.lifecycle \notin 1 .. Last(x)
    BY <1>3, <2>2
  <2>. QED BY <1>5, <2>1, <2>2, <2>3
<1>7. IsFiniteSet(Mine(x)) /\ IsFiniteSet(Mine(x)')
  <2>1. Mine(x) \subseteq receipts
    BY DEF Mine
  <2>2. IsFiniteSet(Mine(x))
    BY <1>1, <2>1, FS_Subset
  <2>. QED BY <1>4, <2>2, FS_AddElement
<1>8. Cardinality(Mine(x)') = Last(x)'
  BY <1>3, <1>4, <1>6, <1>7, FS_AddElement DEF ChainOf
<1>. HIDE DEF new
<1>9. {c.lifecycle : c \in Mine(x)'} = 1 .. Last(x)'
  <2>1. ASSUME NEW c \in Mine(x)'
        PROVE  c.lifecycle \in 1 .. Last(x)'
    <3>1. CASE c \in Mine(x)
      BY <1>3, <1>5, <3>1
    <3>2. CASE c = new
      BY <1>3, <1>6, <3>2
    <3>. QED BY <1>4, <3>1, <3>2
  <2>2. ASSUME NEW k \in 1 .. Last(x)'
        PROVE  \E c \in Mine(x)' : c.lifecycle = k
    <3>1. CASE k = Last(x) + 1
      BY <1>4, <1>6, <3>1
    <3>2. CASE k # Last(x) + 1
      <4>1. k \in 1 .. Last(x)
        BY <1>3, <3>2
      <4>2. k \in {c.lifecycle : c \in Mine(x)}
        BY <4>1 DEF ChainOf
      <4>. QED BY <1>4, <4>2
    <3>. QED BY <3>1, <3>2
  <2>. QED BY <2>1, <2>2
<1>10. \A c \in Mine(x)' : c.lifecycle = Last(x)' =>
         c.incarnation = rows'[x].incarnation /\ c.epoch = rows'[x].epoch /\ c.retired = rows'[x].retired
  BY <1>2, <1>3, <1>4, <1>5, <1>6
<1>11. \A c \in Mine(x) : /\ rows[x] # None /\ c.epoch <= rows[x].epoch
                          /\ c.retired => c.epoch < rows[x].epoch \/ rows[x].retired
                          /\ rows[x].epoch \in Nat
  <2>. SUFFICES ASSUME NEW c \in Mine(x)
                PROVE  /\ rows[x] # None /\ c.epoch <= rows[x].epoch
                       /\ c.retired => c.epoch < rows[x].epoch \/ rows[x].retired
                       /\ rows[x].epoch \in Nat
    OBVIOUS
  <2>1. rows[x] # None /\ Last(x) = rows[x].lifecycle /\ rows[x].epoch \in Nat
    <3>1. Last(x) # 0
      BY <1>5
    <3>2. rows[x] # None /\ Last(x) = rows[x].lifecycle
      BY <3>1 DEF Last
    <3>. QED BY <1>1, <3>2 DEF P!Row
  <2>2. PICK d \in Mine(x) : d.lifecycle = Last(x)
    <3>1. Last(x) \in {d.lifecycle : d \in Mine(x)}
      BY <1>3, <1>5 DEF ChainOf
    <3>. QED BY <3>1
  <2>3. d.epoch = rows[x].epoch /\ d.retired = rows[x].retired
    BY <2>2 DEF ChainOf
  <2>4. CASE c.lifecycle = Last(x)
    BY <2>1, <2>4 DEF ChainOf
  <2>5. CASE c.lifecycle < d.lifecycle
    BY <1>5, <2>1, <2>3, <2>5 DEF ChainOf
  <2>. QED BY <1>3, <1>5, <2>1, <2>2, <2>4, <2>5
<1>12. ASSUME NEW c \in Mine(x)', NEW e \in Mine(x)', c.lifecycle < e.lifecycle
       PROVE  c.epoch <= e.epoch /\ (c.retired => e.epoch > c.epoch) /\ (c.incarnation = e.incarnation => e.retired)
  <2>1. c \in Mine(x)
    BY <1>3, <1>4, <1>5, <1>6, <1>12
  <2>2. CASE e \in Mine(x)
    BY <1>12, <2>1, <2>2 DEF ChainOf
  <2>3. CASE e = new
    <3>1. c.epoch \in Nat /\ c.epoch <= rows[x].epoch /\ rows[x].epoch \in Nat /\ rows[x] # None
      BY <1>5, <1>11, <2>1
    <3>2. rows[x].epoch <= row.epoch /\ (rows[x].retired => rows[x].epoch < row.epoch)
      BY <3>1 DEF MayFollow
    <3>3. c.incarnation = row.incarnation => row.retired
      BY <2>1 DEF ChainOf, MayFollow
    <3>4. c.retired => c.epoch < row.epoch
      BY <1>6, <1>11, <2>1, <3>1, <3>2
    <3>. QED BY <1>6, <2>3, <3>1, <3>2, <3>3, <3>4
  <2>. QED BY <1>4, <2>2, <2>3
<1>13. ASSUME NEW g \in recovered', NEW c \in Mine(x)', NEW e \in Mine(x)', GrantOf[g].receiver = x,
              c.incarnation = GrantOf[g].incarnation, c.lifecycle = e.lifecycle + 1
       PROVE  c.epoch = e.epoch \/ (e.incarnation = GrantOf[g].predecessor /\ e.epoch = GrantOf[g].from)
  <2>1. e \in Mine(x)
    BY <1>3, <1>4, <1>5, <1>6, <1>13
  <2>2. CASE c \in Mine(x)
    <3>1. c.incarnation \in used[x]
      BY <2>2 DEF ChainOf
    <3>2. g \in recovered
      BY <1>13, <3>1 DEF MayFollow
    <3>. QED BY <1>13, <2>1, <2>2, <3>2 DEF ChainOf
  <2>3. CASE c = new
    <3>1. e.lifecycle = Last(x)
      BY <1>3, <1>5, <1>6, <1>13, <2>1, <2>3
    <3>2. e.incarnation = rows[x].incarnation /\ e.epoch = rows[x].epoch
      BY <2>1, <3>1 DEF ChainOf
    <3>3. CASE g \in recovered
      <4>1. row.incarnation \in used[x]
        BY <1>6, <1>13, <2>3, <3>3 DEF ChainOf
      <4>. QED BY <1>6, <2>3, <3>2, <4>1 DEF MayFollow
    <3>4. CASE g \notin recovered
      BY <1>13, <3>2, <3>4 DEF MayFollow
    <3>. QED BY <3>3, <3>4
  <2>. QED BY <1>4, <2>2, <2>3
<1>14. \A c \in Mine(x)' : c.incarnation \in used'[x]
  BY <1>2, <1>4, <1>6 DEF ChainOf
<1>15. \A g \in recovered' : GrantOf[g].receiver = x => GrantOf[g].incarnation \in used'[x]
  BY <1>2 DEF ChainOf, MayFollow
<1>. QED BY <1>8, <1>9, <1>10, <1>12, <1>13, <1>14, <1>15 DEF ChainOf

\* A row that keeps its place keeps its chain.
LEMMA ChainStays ==
  ASSUME NEW x \in Receivers, ChainOf(x), Mine(x)' = Mine(x), used'[x] = used[x],
         \A g \in recovered' : GrantOf[g].receiver = x => g \in recovered,
         rows[x] = None <=> rows'[x] = None,
         rows[x] # None => /\ rows'[x].lifecycle = rows[x].lifecycle /\ rows'[x].incarnation = rows[x].incarnation
                           /\ rows'[x].epoch = rows[x].epoch /\ rows'[x].retired = rows[x].retired
  PROVE  ChainOf(x)'
<1>1. Last(x)' = Last(x)
  BY DEF Last
<1>2. \A c \in Mine(x) : rows[x] # None
  BY DEF ChainOf, Last
<1>. QED BY <1>1, <1>2 DEF ChainOf

(***************************************************************************)
(* The steps of a request, and what they leave alone.                      *)
(***************************************************************************)
LEMMA PairingStart ==
  ASSUME P!PairingAssumption, P!Init
  PROVE  PairingInv
<1>1. PairingTyped
  <2>1. P!Idle \in P!Request
    BY DEF P!Idle, P!Request
  <2>. QED BY <2>1, FS_EmptySet DEF PairingTyped, P!Init
<1>2. ASSUME NEW r \in Calling
      PROVE  PairAt(r)
  BY DEF PairAt, P!Init, P!Idle, P!PairingAssumption, P!Answers
<1>3. ASSUME NEW x \in Receivers
      PROVE  ChainOf(x)
  <2>1. Mine(x) = {} /\ Last(x) = 0 /\ recovered = {}
    BY DEF P!Init, Mine, Last
  <2>2. 1 .. 0 = {} /\ Cardinality({}) = 0
    BY FS_EmptySet
  <2>. QED BY <2>1, <2>2 DEF ChainOf
<1>. QED BY <1>1, <1>2, <1>3 DEF PairingInv, Offered, P!Init

\* What the rows of D1 show to the chain of every receiver.
RowsAlike ==
  /\ UNCHANGED <<used, receipts, recovered>> /\ rows' \in [Receivers -> P!Row \cup {None}]
  /\ \A x \in Receivers :
       /\ rows[x] = None <=> rows'[x] = None
       /\ rows[x] # None =>
            /\ rows'[x].lifecycle = rows[x].lifecycle /\ rows'[x].incarnation = rows[x].incarnation
            /\ rows'[x].epoch = rows[x].epoch /\ rows'[x].retired = rows[x].retired

LEMMA ChainsStay ==
  ASSUME PairingInv, RowsAlike
  PROVE  \A x \in Receivers : ChainOf(x)'
BY ChainStays DEF PairingInv, RowsAlike, Mine

\* What a request keeps while another moves.
LEMMA OtherStays ==
  ASSUME NEW s \in Calling, PairAt(s), pairs'[s] = pairs[s], s \in committed' <=> s \in committed,
         \A o : challenges[o] # None => challenges'[o] # None
  PROVE  PairAt(s)'
BY DEF PairAt

\* A request moves and D1 stays.
Moves(r, q) ==
  /\ q \in P!Request /\ pairs' = [pairs EXCEPT ![r] = q]
  /\ UNCHANGED <<issuer, challenges, rows, used, receipts, recovered, committed>>

LEMMA MoveStep ==
  ASSUME P!PairingAssumption, PairingInv, NEW r \in Calling, NEW q, Moves(r, q), PairAt(r)'
  PROVE  PairingInv'
<1>1. PairingTyped'
  BY DEF PairingInv, PairingTyped, Moves
<1>2. \A x \in Receivers : ChainOf(x)'
  BY ChainsStay DEF Moves, RowsAlike, PairingInv, PairingTyped
<1>3. ASSUME NEW s \in Calling, s # r
      PROVE  PairAt(s)'
  <2>1. pairs'[s] = pairs[s]
    BY <1>3 DEF Moves, PairingInv, PairingTyped
  <2>. QED BY <2>1, OtherStays DEF Moves, PairingInv
<1>. QED BY <1>1, <1>2, <1>3 DEF PairingInv, Offered, Moves

\* A request ends before its statement, or after it.
LEMMA EndedAt ==
  ASSUME P!PairingAssumption, PairingInv, NEW r \in Calling, NEW answer \in P!Answers, P!End(r, answer),
         UNCHANGED committed, pairs[r].pc \notin {"idle", "end"},
         answer = "unavailable" => r \notin committed,
         answer = "receipt" => r \in committed
  PROVE  PairAt(r)' /\ \E q \in P!Request : pairs' = [pairs EXCEPT ![r] = q]
<1>. DEFINE q == [pairs[r] EXCEPT !.pc = "end", !.answer = P!Settled(r, answer)]
<1>1. /\ pairs \in [Calling -> P!Request] /\ PairAt(r)
  BY DEF PairingInv, PairingTyped
<1>2. P!Settled(r, answer) \in {answer, "unknown"}
  BY <1>1 DEF PairAt, P!Settled
<1>3. q \in P!Request /\ pairs' = [pairs EXCEPT ![r] = q] /\ pairs'[r] = q
  BY <1>1, <1>2 DEF P!End, P!Request, P!Answers
<1>4. q.pc = "end" /\ q.answer \in {answer, "unknown"} /\ q.ask = pairs[r].ask
  BY <1>1, <1>2 DEF P!Request
<1>. HIDE DEF q
<1>5. pairs[r].pc # "idle" => q.ask \in P!Ask
  BY <1>1, <1>4 DEF PairAt
<1>. QED BY <1>1, <1>3, <1>4, <1>5 DEF PairAt

\* A request goes on towards its statement.
LEMMA GoneAt ==
  ASSUME P!PairingAssumption, PairingInv, NEW r \in Calling, UNCHANGED <<committed, challenges>>,
         NEW pc \in {"private", "owner", "select", "verify", "check", "submit"}, P!Goto(r, pc),
         pairs[r].pc \notin {"idle", "reply", "end"},
         pc \in {"private", "owner"} => pairs[r].ask.kind = "write",
         pc \in {"verify", "check", "submit"} /\ pairs[r].ask.kind = "redeem" => challenges[pairs[r].ask.operator] # None
  PROVE  PairAt(r)' /\ \E q \in P!Request : pairs' = [pairs EXCEPT ![r] = q]
<1>. DEFINE q == [pairs[r] EXCEPT !.pc = pc]
<1>1. /\ pairs \in [Calling -> P!Request] /\ PairAt(r)
  BY DEF PairingInv, PairingTyped
<1>2. q \in P!Request /\ pairs' = [pairs EXCEPT ![r] = q] /\ pairs'[r] = q
  BY <1>1 DEF P!Goto, P!Request
<1>3. q.pc = pc /\ q.answer = pairs[r].answer /\ q.ask = pairs[r].ask
  BY <1>1 DEF P!Request
<1>. HIDE DEF q
<1>. QED BY <1>1, <1>2, <1>3 DEF PairAt

LEMMA StartPairing ==
  ASSUME P!PairingAssumption, PairingInv, NEW r \in Calling, P!Start(r)
  PROVE  PairingInv'
<1>1. /\ pairs \in [Calling -> P!Request] /\ PairAt(r) /\ pairs[r].pc = "idle"
      /\ UNCHANGED <<committed, challenges>>
  BY DEF PairingInv, PairingTyped, P!Start, P!d1
<1>2. PICK a \in AsksOf[r] : pairs' = [pairs EXCEPT ![r].pc = P!First(a.kind), ![r].ask = a]
  BY DEF P!Start
<1>3. a \in P!Ask
  BY <1>2 DEF P!PairingAssumption
<1>. DEFINE q == [pairs[r] EXCEPT !.pc = P!First(a.kind), !.ask = a]
<1>4. /\ P!First(a.kind) \in {"check", "select", "ingress", "submit"}
      /\ P!First(a.kind) \in {"check", "submit"} => a.kind # "redeem"
      /\ P!First(a.kind) = "ingress" => a.kind = "write"
  BY DEF P!First
<1>5. q \in P!Request /\ pairs' = [pairs EXCEPT ![r] = q] /\ pairs'[r] = q
  BY <1>1, <1>2, <1>3, <1>4 DEF P!Request
<1>6. q.pc = P!First(a.kind) /\ q.answer = pairs[r].answer /\ q.ask = a
  BY <1>1 DEF P!Request
<1>. HIDE DEF q
<1>7. PairAt(r)'
  BY <1>1, <1>3, <1>4, <1>5, <1>6 DEF PairAt
<1>8. Moves(r, q)
  BY <1>5 DEF Moves, P!Start, P!d1
<1>. QED BY <1>7, <1>8, MoveStep

LEMMA FrontStep ==
  ASSUME P!PairingAssumption, PairingInv, NEW r \in Calling,
         P!Ingress(r) \/ P!Entrypoint(r) \/ P!Owner(r) \/ P!Turndown(r)
  PROVE  PairingInv'
<1>1. /\ PairAt(r) /\ UNCHANGED <<issuer, challenges, rows, used, receipts, recovered, committed>>
      /\ pairs[r].pc \in {"ingress", "private", "owner"} /\ pairs[r].ask.kind = "write"
  BY DEF PairingInv, PairAt, P!Ingress, P!Entrypoint, P!Owner, P!Turndown, P!Pass, P!d1
<1>2. CASE P!Turndown(r)
  <2>1. P!End(r, "unavailable") /\ r \notin committed /\ "unavailable" \in P!Answers
    BY <1>1, <1>2 DEF P!Turndown, PairAt, P!Answers
  <2>2. PairAt(r)' /\ \E q \in P!Request : pairs' = [pairs EXCEPT ![r] = q]
    BY <1>1, <2>1, EndedAt
  <2>. QED BY <1>1, <2>2, MoveStep DEF Moves
<1>3. CASE P!Ingress(r) \/ P!Entrypoint(r) \/ P!Owner(r)
  <2>1. PICK pc \in {"private", "owner", "select"} : P!Goto(r, pc)
    BY <1>3 DEF P!Ingress, P!Entrypoint, P!Owner, P!Pass
  <2>2. PairAt(r)' /\ \E q \in P!Request : pairs' = [pairs EXCEPT ![r] = q]
    BY <1>1, <2>1, GoneAt
  <2>. QED BY <1>1, <2>2, MoveStep DEF Moves
<1>. QED BY <1>2, <1>3

\* Whoever is given up says so: it is not known, once the write was forwarded
\* or the statement submitted.
LEMMA GiveUpStep ==
  ASSUME P!PairingAssumption, PairingInv, NEW r \in Calling, P!GiveUp(r)
  PROVE  PairingInv'
<1>1. /\ pairs \in [Calling -> P!Request] /\ PairAt(r) /\ pairs[r].answer = None
      /\ UNCHANGED <<issuer, challenges, rows, used, receipts, recovered, committed>>
      /\ pairs[r].pc \notin {"idle", "end"}
  BY DEF PairingInv, PairingTyped, P!GiveUp, P!d1
<1>. DEFINE q == [pairs[r] EXCEPT !.answer = IF P!Forwarded(r) THEN "unknown" ELSE "unavailable",
                                  !.pc = IF @ = "ingress" THEN "end" ELSE @]
<1>2. q \in P!Request /\ pairs' = [pairs EXCEPT ![r] = q] /\ pairs'[r] = q
  BY <1>1 DEF P!GiveUp, P!Request, P!Answers
<1>3. /\ q.pc = IF pairs[r].pc = "ingress" THEN "end" ELSE pairs[r].pc
      /\ q.answer = IF P!Forwarded(r) THEN "unknown" ELSE "unavailable"
      /\ q.ask = pairs[r].ask /\ q.found = pairs[r].found
  BY <1>1 DEF P!Request
<1>4. P!Forwarded(r) <=> pairs[r].pc # "ingress"
  BY <1>1 DEF P!GiveUp, P!Forwarded, PairAt
<1>. HIDE DEF q
<1>5. PairAt(r)'
  <2>1. CASE pairs[r].pc = "ingress"
    BY <1>1, <1>2, <1>3, <1>4, <2>1 DEF PairAt
  <2>2. CASE pairs[r].pc # "ingress"
    BY <1>1, <1>2, <1>3, <1>4, <2>2 DEF PairAt
  <2>. QED BY <2>1, <2>2
<1>. QED BY <1>1, <1>2, <1>5, MoveStep DEF Moves

LEMMA CheckStep ==
  ASSUME P!PairingAssumption, PairingInv, NEW r \in Calling, P!Select(r) \/ P!Check(r) \/ P!Refuse(r)
  PROVE  PairingInv'
<1>1. /\ PairAt(r) /\ UNCHANGED <<issuer, challenges, rows, used, receipts, recovered, committed>>
      /\ pairs[r].pc \in {"select", "verify", "check"}
  BY DEF PairingInv, P!Select, P!Check, P!Refuse, P!d1
<1>2. CASE P!End(r, "unavailable")
  <2>1. r \notin committed /\ "unavailable" \in P!Answers
    BY <1>1 DEF PairAt, P!Answers
  <2>2. PairAt(r)' /\ \E q \in P!Request : pairs' = [pairs EXCEPT ![r] = q]
    BY <1>1, <1>2, <2>1, EndedAt
  <2>. QED BY <1>1, <2>2, MoveStep DEF Moves
<1>3. CASE ~P!End(r, "unavailable")
  <2>1. PICK pc \in {"verify", "check", "submit"} : P!Goto(r, pc)
    BY <1>3 DEF P!Select, P!Check, P!Refuse
  <2>2. pairs[r].ask.kind = "redeem" => challenges[pairs[r].ask.operator] # None
    <3>1. CASE P!Select(r)
      BY <1>3, <3>1 DEF P!Select
    <3>2. CASE P!Check(r)
      BY <1>1, <3>2 DEF P!Check, PairAt
    <3>. QED BY <1>3, <3>1, <3>2 DEF P!Refuse
  <2>3. PairAt(r)' /\ \E q \in P!Request : pairs' = [pairs EXCEPT ![r] = q]
    BY <1>1, <2>1, <2>2, GoneAt
  <2>. QED BY <1>1, <2>3, MoveStep DEF Moves
<1>. QED BY <1>2, <1>3

LEMMA ReplyStep ==
  ASSUME P!PairingAssumption, PairingInv, NEW r \in Calling, P!Reply(r)
  PROVE  PairingInv'
<1>1. /\ PairAt(r) /\ UNCHANGED <<issuer, challenges, rows, used, receipts, recovered, committed>>
      /\ pairs[r].pc = "reply" /\ (pairs[r].found <=> r \in committed)
  BY DEF PairingInv, PairAt, P!Reply, P!d1
<1>2. PICK answer \in P!Answers : /\ P!End(r, answer)
                                  /\ answer = "unavailable" => r \notin committed
                                  /\ answer = "receipt" => r \in committed
  <2>1. CASE pairs[r].found /\ P!End(r, "receipt")
    BY <1>1, <2>1 DEF P!Answers
  <2>2. CASE pairs[r].found /\ P!End(r, "unknown")
    BY <2>2 DEF P!Answers
  <2>3. CASE ~pairs[r].found /\ P!End(r, "unavailable")
    BY <1>1, <2>3 DEF P!Answers
  <2>. QED BY <2>1, <2>2, <2>3 DEF P!Reply
<1>3. PairAt(r)' /\ \E q \in P!Request : pairs' = [pairs EXCEPT ![r] = q]
  BY <1>1, <1>2, EndedAt
<1>. QED BY <1>1, <1>3, MoveStep DEF Moves

(***************************************************************************)
(* The statements.                                                         *)
(***************************************************************************)
\* A statement that ran, and the history of what it did.
LEMMA RanAt ==
  ASSUME P!PairingAssumption, PairingInv, NEW r \in Calling, NEW kind, NEW found \in BOOLEAN, P!Run(r, kind, found),
         \A o : challenges[o] # None => challenges'[o] # None
  PROVE  /\ \A s \in Calling : PairAt(s)'
         /\ pairs' \in [Calling -> P!Request] /\ committed' \subseteq Calling
         /\ pairs[r].ask \in P!Ask /\ pairs[r].ask.kind = kind
<1>1. /\ pairs \in [Calling -> P!Request] /\ PairAt(r) /\ committed \subseteq Calling
      /\ pairs[r].pc = "submit" /\ pairs[r].ask.kind = kind
  BY DEF PairingInv, PairingTyped, P!Run
<1>. DEFINE q == [pairs[r] EXCEPT !.pc = "reply", !.found = found]
<1>2. q \in P!Request /\ pairs' = [pairs EXCEPT ![r] = q] /\ pairs'[r] = q
  BY <1>1 DEF P!Run, P!Request
<1>3. q.pc = "reply" /\ q.found = found /\ q.answer = pairs[r].answer /\ q.ask = pairs[r].ask
  BY <1>1 DEF P!Request
<1>. HIDE DEF q
<1>4. committed' = IF found THEN committed \cup {r} ELSE committed
  BY DEF P!Run
<1>5. r \notin committed /\ pairs[r].answer \in {None, "unknown"}
  BY <1>1 DEF PairAt
<1>6. r \in committed' <=> found
  BY <1>4, <1>5
<1>7. PairAt(r)'
  <2>1. q.answer # "unavailable" /\ q.answer # "receipt" /\ q.answer \in {None, "unknown"}
    BY <1>3, <1>5 DEF P!PairingAssumption, P!Answers
  <2>2. q.ask \in P!Ask
    BY <1>1, <1>3 DEF PairAt
  <2>. QED BY <1>2, <1>3, <1>6, <2>1, <2>2 DEF PairAt
<1>8. ASSUME NEW s \in Calling, s # r
      PROVE  PairAt(s)'
  <2>1. pairs'[s] = pairs[s] /\ (s \in committed' <=> s \in committed)
    BY <1>1, <1>2, <1>4, <1>8
  <2>. QED BY <2>1, OtherStays DEF PairingInv
<1>. QED BY <1>1, <1>2, <1>4, <1>7, <1>8 DEF PairAt

LEMMA RunIssueStep ==
  ASSUME P!PairingAssumption, PairingInv, NEW r \in Calling, P!RunIssue(r)
  PROVE  PairingInv'
<1>. DEFINE o == pairs[r].ask.operator
            found == /\ P!InTime(IntentOf[o].expires) /\ P!Successor(IntentOf[o].expected) /\ challenges[o] = None
                     /\ P!Cardinality({x \in Operators : challenges[x] # None}) < EnrollmentCapacity
            new == [epoch |-> IntentOf[o].expected + 1, expires |-> IntentOf[o].expires, consumed |-> FALSE]
<1>1. /\ P!Run(r, "issue", found) /\ UNCHANGED <<issuer, rows, used, receipts, recovered>>
      /\ challenges' = IF found THEN [challenges EXCEPT ![o] = new] ELSE challenges
  BY DEF P!RunIssue
<1>2. /\ PairingTyped /\ PairAt(r) /\ pairs[r].pc = "submit" /\ pairs[r].ask.kind = "issue"
  BY <1>1 DEF PairingInv, P!Run
<1>3. o \in Operators
  BY <1>2 DEF PairAt, P!Ask, P!Enrolling, P!Lifecycle, P!Recovering
<1>4. new \in P!Challenge /\ new.epoch = IntentOf[o].expected + 1
  BY <1>3 DEF P!PairingAssumption, P!Intent, P!Challenge
<1>5. new # None
  BY <1>4 DEF P!PairingAssumption
<1>6. challenges' \in [Operators -> P!Challenge \cup {None}]
  BY <1>1, <1>2, <1>3, <1>4 DEF PairingTyped
<1>. HIDE DEF found, new
<1>7. /\ \A p : challenges[p] # None => challenges'[p] # None
      /\ \A p \in Operators : Offered(p)'
  <2>1. CASE found
    BY <1>1, <1>2, <1>3, <1>4, <1>5, <2>1 DEF PairingTyped, Offered, PairingInv
  <2>2. CASE ~found
    BY <1>1, <2>2 DEF Offered, PairingInv
  <2>. QED BY <2>1, <2>2
<1>8. found \in BOOLEAN
  BY DEF found
<1>9. (\A s \in Calling : PairAt(s)') /\ pairs' \in [Calling -> P!Request] /\ committed' \subseteq Calling
  BY <1>1, <1>7, <1>8, RanAt
<1>10. \A x \in Receivers : ChainOf(x)'
  BY <1>1, <1>2, ChainsStay DEF RowsAlike, PairingTyped
<1>. QED BY <1>1, <1>2, <1>6, <1>7, <1>9, <1>10 DEF PairingInv, PairingTyped

LEMMA RunRedeemStep ==
  ASSUME P!PairingAssumption, PairingInv, NEW r \in Calling, P!RunRedeem(r)
  PROVE  PairingInv'
<1>. DEFINE o == pairs[r].ask.operator
            found == /\ ~challenges[o].consumed /\ P!InTime(challenges[o].expires)
                     /\ P!Successor(IntentOf[o].expected)
            next == [epoch |-> challenges[o].epoch, key |-> IntentOf[o].key, active |-> TRUE]
<1>1. /\ P!Run(r, "redeem", found) /\ UNCHANGED <<rows, used, receipts, recovered>>
      /\ challenges' = IF found THEN [challenges EXCEPT ![o].consumed = TRUE] ELSE challenges
      /\ issuer' = IF found THEN next ELSE issuer
  BY DEF P!RunRedeem
<1>2. /\ PairingTyped /\ PairAt(r) /\ pairs[r].pc = "submit" /\ pairs[r].ask.kind = "redeem"
  BY <1>1 DEF PairingInv, P!Run
<1>3. o \in Operators /\ challenges[o] \in P!Challenge
  <2>1. o \in Operators
    BY <1>2 DEF PairAt, P!Ask, P!Enrolling, P!Lifecycle, P!Recovering
  <2>. QED BY <1>2, <2>1 DEF PairAt, PairingTyped
<1>4. next \in P!Issuer
  BY <1>3 DEF P!PairingAssumption, P!Intent, P!Challenge, P!Issuer
<1>. DEFINE spent == [challenges[o] EXCEPT !.consumed = TRUE]
<1>5. spent \in P!Challenge /\ spent # None /\ spent.epoch = challenges[o].epoch
  BY <1>3 DEF P!Challenge, P!PairingAssumption
<1>6. challenges' = IF found THEN [challenges EXCEPT ![o] = spent] ELSE challenges
  BY <1>1
<1>. HIDE DEF found, next, spent
<1>7. challenges' \in [Operators -> P!Challenge \cup {None}] /\ issuer' \in P!Issuer \cup {None}
  BY <1>1, <1>2, <1>3, <1>4, <1>5, <1>6 DEF PairingTyped
<1>8. /\ \A p : challenges[p] # None => challenges'[p] # None
      /\ \A p \in Operators : Offered(p)'
  <2>1. CASE found
    <3>1. challenges[o] # None
      BY <1>3 DEF P!PairingAssumption
    <3>. QED BY <1>2, <1>3, <1>5, <1>6, <2>1, <3>1 DEF PairingTyped, Offered, PairingInv
  <2>2. CASE ~found
    BY <1>1, <2>2 DEF Offered, PairingInv
  <2>. QED BY <2>1, <2>2
<1>9. found \in BOOLEAN
  <2>1. challenges[o].consumed \in BOOLEAN
    BY <1>3 DEF P!Challenge
  <2>. QED BY DEF found
<1>10. (\A s \in Calling : PairAt(s)') /\ pairs' \in [Calling -> P!Request] /\ committed' \subseteq Calling
  BY <1>1, <1>8, <1>9, RanAt
<1>11. \A x \in Receivers : ChainOf(x)'
  BY <1>1, <1>2, ChainsStay DEF RowsAlike, PairingTyped
<1>. QED BY <1>1, <1>2, <1>7, <1>8, <1>10, <1>11 DEF PairingInv, PairingTyped

LEMMA RunWriteStep ==
  ASSUME P!PairingAssumption, PairingInv, NEW r \in Calling, P!RunWrite(r)
  PROVE  PairingInv'
<1>. DEFINE a == pairs[r].ask
            x == a.receiver
            row == rows[x]
            found == /\ P!InTime(a.expires) /\ P!IsIssuer(a.epoch, a.key)
                     /\ row # None /\ row.epoch = a.epoch /\ row.incarnation = a.incarnation /\ ~row.retired
            after == [row EXCEPT !.revision = @ + 1]
<1>1. /\ P!Run(r, "write", found) /\ UNCHANGED <<issuer, challenges, used, receipts, recovered>>
      /\ rows' = IF found THEN [rows EXCEPT ![x] = after] ELSE rows
  BY DEF P!RunWrite
<1>2. /\ PairingTyped /\ PairAt(r) /\ pairs[r].pc = "submit" /\ pairs[r].ask.kind = "write" /\ None \notin P!Row
  BY <1>1 DEF PairingInv, P!Run, P!PairingAssumption
<1>3. x \in Receivers
  BY <1>2 DEF PairAt, P!Ask, P!Enrolling, P!Lifecycle, P!Recovering
<1>4. found => row \in P!Row
  BY <1>2, <1>3 DEF PairingTyped
<1>5. found => /\ after \in P!Row /\ after.lifecycle = row.lifecycle /\ after.incarnation = row.incarnation
               /\ after.epoch = row.epoch /\ after.retired = row.retired /\ row # None /\ after # None
  BY <1>2, <1>4 DEF P!Row
<1>6. found \in BOOLEAN
  OBVIOUS
<1>. HIDE DEF found, after
<1>7. RowsAlike
  BY <1>1, <1>2, <1>3, <1>5 DEF RowsAlike, PairingTyped
<1>8. (\A s \in Calling : PairAt(s)') /\ pairs' \in [Calling -> P!Request] /\ committed' \subseteq Calling
  BY <1>1, <1>6, RanAt
<1>9. \A y \in Receivers : ChainOf(y)'
  BY <1>7, ChainsStay
<1>. QED BY <1>1, <1>2, <1>7, <1>8, <1>9 DEF PairingInv, PairingTyped, RowsAlike, Offered

\* A row that follows keeps every chain.
LEMMA RecordedStep ==
  ASSUME P!PairingAssumption, PairingInv, NEW x \in Receivers, NEW row, MayFollow(x, row), P!Recorded(x, row)
  PROVE  /\ \A y \in Receivers : ChainOf(y)'
         /\ rows' \in [Receivers -> P!Row \cup {None}] /\ used' \in [Receivers -> SUBSET Incarnations]
         /\ receipts' \subseteq P!Receipt /\ IsFiniteSet(receipts') /\ recovered' \subseteq Recoveries
<1>. DEFINE new == [receiver |-> x, epoch |-> row.epoch, operation |-> row.operation,
                    incarnation |-> row.incarnation, lifecycle |-> row.lifecycle, retired |-> row.retired]
<1>1. PairingTyped /\ row \in P!Row
  BY DEF PairingInv, MayFollow
<1>2. new \in P!Receipt /\ new.receiver = x /\ row.incarnation \in Incarnations
  BY <1>1 DEF P!Row, P!Receipt
<1>3. /\ rows' = [rows EXCEPT ![x] = row] /\ receipts' = receipts \cup {new}
      /\ used' = [used EXCEPT ![x] = @ \cup {row.incarnation}]
  BY DEF P!Recorded
<1>. HIDE DEF new
<1>4. rows' \in [Receivers -> P!Row \cup {None}] /\ used' \in [Receivers -> SUBSET Incarnations]
  BY <1>1, <1>2, <1>3 DEF PairingTyped
<1>5. receipts' \subseteq P!Receipt /\ IsFiniteSet(receipts')
  BY <1>1, <1>2, <1>3, FS_AddElement DEF PairingTyped
<1>6. ASSUME NEW y \in Receivers, y # x
      PROVE  ChainOf(y)'
  <2>1. rows'[y] = rows[y] /\ used'[y] = used[y]
    BY <1>1, <1>3, <1>6 DEF PairingTyped
  <2>2. Mine(y)' = Mine(y)
    BY <1>2, <1>3, <1>6 DEF Mine
  <2>3. \A g \in recovered' : GrantOf[g].receiver = y => g \in recovered
    BY <1>6 DEF MayFollow
  <2>. QED BY <2>1, <2>2, <2>3, ChainStays DEF PairingInv
<1>7. ChainOf(x)'
  BY <1>1, ChainGrows DEF PairingInv
<1>. QED BY <1>4, <1>5, <1>6, <1>7 DEF MayFollow

\* The row of a pairing.
LEMMA PairedRow ==
  ASSUME NEW incarnation \in Incarnations, NEW epoch \in Epochs, NEW lifecycle \in Nat, NEW operation \in Operations
  PROVE  LET p == P!Paired(incarnation, epoch, lifecycle, operation)
         IN /\ p \in P!Row /\ p.lifecycle = lifecycle /\ p.incarnation = incarnation /\ p.epoch = epoch
            /\ ~p.retired
BY DEF P!Paired, P!Row

LEMMA RetiredRow ==
  ASSUME NEW row \in P!Row, NEW operation \in Operations
  PROVE  LET p == [row EXCEPT !.retired = TRUE, !.lifecycle = @ + 1, !.operation = operation]
         IN /\ p \in P!Row /\ p.lifecycle = row.lifecycle + 1 /\ p.incarnation = row.incarnation
            /\ p.epoch = row.epoch /\ p.retired
<1>. DEFINE p == [row EXCEPT !.retired = TRUE, !.lifecycle = @ + 1, !.operation = operation]
<1>1. /\ p.lifecycle = row.lifecycle + 1 /\ p.incarnation = row.incarnation /\ p.epoch = row.epoch /\ p.retired = TRUE
  BY DEF P!Row
<1>2. row.lifecycle \in Nat /\ row.lifecycle + 1 \in Nat
  BY DEF P!Row
<1>3. p \in P!Row
  BY <1>2 DEF P!Row
<1>. QED BY <1>1, <1>3

LEMMA RunLifecycleStep ==
  ASSUME P!PairingAssumption, PairingInv, NEW r \in Calling, P!RunLifecycle(r)
  PROVE  PairingInv'
<1>. DEFINE a == pairs[r].ask
            x == a.receiver
            row == rows[x]
            standing(incarnation) == row # None /\ row.epoch = a.epoch /\ row.incarnation = incarnation /\ ~row.retired
            signed == P!InTime(a.expires) /\ P!IsIssuer(a.epoch, a.key) /\ P!IsFresh(x, a.epoch, a.operation)
            found == signed /\ CASE a.kind = "pair"    -> row = None /\ P!IsUnused(x, a.incarnation)
                                 [] a.kind = "replace" -> standing(a.predecessor) /\ P!IsUnused(x, a.incarnation)
                                 [] a.kind = "retire"  -> standing(a.incarnation)
            after == CASE a.kind = "pair"    -> P!Paired(a.incarnation, a.epoch, 1, a.operation)
                       [] a.kind = "replace" -> P!Paired(a.incarnation, a.epoch, row.lifecycle + 1, a.operation)
                       [] a.kind = "retire"  -> [row EXCEPT !.retired = TRUE, !.lifecycle = @ + 1,
                                                            !.operation = a.operation]
<1>1. /\ a.kind \in {"pair", "replace", "retire"} /\ P!Run(r, a.kind, found)
      /\ UNCHANGED <<issuer, challenges, recovered>>
      /\ IF found THEN P!Recorded(x, after) ELSE UNCHANGED <<rows, used, receipts>>
  BY DEF P!RunLifecycle
<1>2. /\ PairingTyped /\ PairAt(r) /\ pairs[r].pc = "submit" /\ None \notin P!Row
  BY <1>1 DEF PairingInv, P!Run, P!PairingAssumption
<1>3. x \in Receivers /\ a.epoch \in Epochs /\ a.incarnation \in Incarnations /\ a.operation \in Operations
  BY <1>1, <1>2 DEF PairAt, P!Ask, P!Enrolling, P!Lifecycle, P!Recovering
<1>4. row \in P!Row \cup {None} /\ Epochs \subseteq Nat
  BY <1>2, <1>3 DEF PairingTyped, P!PairingAssumption
<1>5. found \in BOOLEAN
  BY <1>1
<1>10. recovered' = recovered /\ recovered \subseteq Recoveries
  BY <1>1, <1>2 DEF PairingTyped
<1>6. ASSUME found
      PROVE  MayFollow(x, after)
  <2>1. CASE a.kind = "pair"
    <3>1. row = None /\ a.incarnation \notin used[x] /\ after = P!Paired(a.incarnation, a.epoch, 1, a.operation)
      BY <1>6, <2>1 DEF P!IsUnused
    <3>. HIDE DEF after, found
    <3>2. after \in P!Row /\ after.lifecycle = 1 /\ after.incarnation = a.incarnation
      BY <1>3, <3>1, PairedRow
    <3>3. Last(x) = 0
      BY <3>1 DEF Last
    <3>. QED BY <1>10, <3>1, <3>2, <3>3 DEF MayFollow
  <2>2. CASE a.kind = "replace"
    <3>1. /\ row # None /\ row.epoch = a.epoch /\ ~row.retired /\ a.incarnation \notin used[x]
          /\ after = P!Paired(a.incarnation, a.epoch, row.lifecycle + 1, a.operation)
      BY <1>6, <2>2 DEF P!IsUnused
    <3>2. row \in P!Row /\ row.lifecycle \in Nat
      BY <1>4, <3>1 DEF P!Row
    <3>. HIDE DEF after, found
    <3>3. /\ after \in P!Row /\ after.lifecycle = row.lifecycle + 1 /\ after.incarnation = a.incarnation
          /\ after.epoch = a.epoch
      BY <1>3, <3>1, <3>2, PairedRow
    <3>4. after.lifecycle = Last(x) + 1
      BY <3>1, <3>3 DEF Last
    <3>5. rows[x].epoch <= after.epoch /\ ~rows[x].retired
      <4>1. a.epoch \in Nat
        BY <1>3, <1>4
      <4>. QED BY <3>1, <3>3, <4>1
    <3>. QED BY <1>10, <3>1, <3>3, <3>4, <3>5 DEF MayFollow
  <2>3. CASE a.kind = "retire"
    <3>1. /\ row # None /\ row.epoch = a.epoch /\ ~row.retired
          /\ after = [row EXCEPT !.retired = TRUE, !.lifecycle = @ + 1, !.operation = a.operation]
      BY <1>6, <2>3
    <3>2. row \in P!Row /\ row.lifecycle \in Nat
      BY <1>4, <3>1 DEF P!Row
    <3>. HIDE DEF after, found
    <3>3. /\ after \in P!Row /\ after.lifecycle = row.lifecycle + 1 /\ after.incarnation = row.incarnation
          /\ after.epoch = row.epoch /\ after.retired
      BY <1>3, <3>1, <3>2, RetiredRow
    <3>4. after.lifecycle = Last(x) + 1
      BY <3>1, <3>3 DEF Last
    <3>5. rows[x].epoch <= after.epoch /\ ~rows[x].retired
      <4>1. a.epoch \in Nat
        BY <1>3, <1>4
      <4>. QED BY <3>1, <3>3, <4>1
    <3>. QED BY <1>10, <3>1, <3>3, <3>4, <3>5 DEF MayFollow
  <2>. QED BY <1>1, <2>1, <2>2, <2>3
<1>. HIDE DEF found, after
<1>7. (\A s \in Calling : PairAt(s)') /\ pairs' \in [Calling -> P!Request] /\ committed' \subseteq Calling
  BY <1>1, <1>5, RanAt
<1>8. /\ \A y \in Receivers : ChainOf(y)'
      /\ rows' \in [Receivers -> P!Row \cup {None}] /\ used' \in [Receivers -> SUBSET Incarnations]
      /\ receipts' \subseteq P!Receipt /\ IsFiniteSet(receipts') /\ recovered' \subseteq Recoveries
  <2>1. CASE found
    BY <1>1, <1>3, <1>6, <2>1, RecordedStep
  <2>2. CASE ~found
    BY <1>1, <1>2, <2>2, ChainsStay DEF RowsAlike, PairingTyped
  <2>. QED BY <2>1, <2>2
<1>. QED BY <1>1, <1>2, <1>7, <1>8 DEF PairingInv, PairingTyped, Offered

LEMMA RunRecoverStep ==
  ASSUME P!PairingAssumption, PairingInv, NEW r \in Calling, P!RunRecover(r)
  PROVE  PairingInv'
<1>. DEFINE a == pairs[r].ask
            g == GrantOf[a.grant]
            x == g.receiver
            found == a.grant \notin recovered /\ P!Recoverable(g, a)
            after == P!Paired(g.incarnation, g.epoch, rows[x].lifecycle + 1, a.operation)
<1>1. /\ a.kind = "recover" /\ P!Run(r, "recover", found) /\ UNCHANGED <<issuer, challenges>>
      /\ recovered' = IF found THEN recovered \cup {a.grant} ELSE recovered
      /\ IF found THEN P!Recorded(x, after) ELSE UNCHANGED <<rows, used, receipts>>
  BY DEF P!RunRecover
<1>2. /\ PairingTyped /\ PairAt(r) /\ pairs[r].pc = "submit" /\ None \notin P!Row
  BY <1>1 DEF PairingInv, P!Run, P!PairingAssumption
<1>3. a.grant \in Recoveries /\ a.operation \in Operations
  BY <1>1, <1>2 DEF PairAt, P!Ask, P!Enrolling, P!Lifecycle, P!Recovering
<1>4. /\ x \in Receivers /\ g.epoch \in Epochs /\ g.incarnation \in Incarnations /\ g.from \in Epochs
      /\ g.from < g.epoch /\ Epochs \subseteq Nat
  BY <1>3 DEF P!PairingAssumption, P!Grant
<1>5. found \in BOOLEAN
  OBVIOUS
<1>6. ASSUME found
      PROVE  MayFollow(x, after)
  <2>1. /\ rows[x] # None /\ rows[x].epoch = g.from /\ rows[x].incarnation = g.predecessor
        /\ g.incarnation \notin used[x]
    BY <1>6 DEF P!Recoverable, P!IsUnused
  <2>2. rows[x] \in P!Row /\ rows[x].lifecycle \in Nat
    BY <1>2, <1>4, <2>1 DEF PairingTyped, P!Row
  <2>3. /\ after \in P!Row /\ after.lifecycle = rows[x].lifecycle + 1 /\ after.incarnation = g.incarnation
        /\ after.epoch = g.epoch
    BY <1>3, <1>4, <2>2 DEF P!Paired, P!Row
  <2>4. recovered' = recovered \cup {a.grant}
    BY <1>1, <1>6
  <2>5. Last(x) = rows[x].lifecycle
    BY <2>1 DEF Last
  <2>. HIDE DEF after, found
  <2>6. /\ recovered \subseteq recovered' /\ recovered' \subseteq Recoveries
        /\ \A h \in recovered' \ recovered :
             /\ GrantOf[h].receiver = x /\ GrantOf[h].incarnation = after.incarnation /\ after.incarnation \notin used[x]
             /\ rows[x] # None /\ rows[x].incarnation = GrantOf[h].predecessor /\ rows[x].epoch = GrantOf[h].from
    <3>1. recovered \subseteq Recoveries
      BY <1>2 DEF PairingTyped
    <3>2. ASSUME NEW h \in recovered' \ recovered
          PROVE  GrantOf[h] = g
      BY <2>4, <3>2
    <3>. HIDE DEF g
    <3>3. ASSUME NEW h \in recovered' \ recovered
          PROVE  /\ GrantOf[h].receiver = x /\ GrantOf[h].incarnation = after.incarnation
                 /\ after.incarnation \notin used[x]
                 /\ rows[x] # None /\ rows[x].incarnation = GrantOf[h].predecessor /\ rows[x].epoch = GrantOf[h].from
      BY <2>1, <2>3, <3>2
    <3>. QED BY <1>3, <2>4, <3>1, <3>3
  <2>7. rows[x].epoch <= after.epoch /\ rows[x].epoch < after.epoch
    <3>1. g.from \in Nat /\ g.epoch \in Nat /\ g.from < g.epoch
      BY <1>4
    <3>. HIDE DEF g
    <3>. QED BY <2>1, <2>3, <3>1
  <2>. QED BY <2>1, <2>3, <2>5, <2>6, <2>7 DEF MayFollow
<1>. HIDE DEF found, after
<1>7. (\A s \in Calling : PairAt(s)') /\ pairs' \in [Calling -> P!Request] /\ committed' \subseteq Calling
  BY <1>1, <1>5, RanAt
<1>8. /\ \A y \in Receivers : ChainOf(y)'
      /\ rows' \in [Receivers -> P!Row \cup {None}] /\ used' \in [Receivers -> SUBSET Incarnations]
      /\ receipts' \subseteq P!Receipt /\ IsFiniteSet(receipts') /\ recovered' \subseteq Recoveries
  <2>1. CASE found
    BY <1>1, <1>4, <1>6, <2>1, RecordedStep
  <2>2. CASE ~found
    BY <1>1, <1>2, <2>2, ChainsStay DEF RowsAlike, PairingTyped
  <2>. QED BY <2>1, <2>2
<1>. QED BY <1>1, <1>2, <1>7, <1>8 DEF PairingInv, PairingTyped, Offered

\* The actor, the operator and the clock; and a stutter.
LEMMA RestStep ==
  ASSUME P!PairingAssumption, PairingInv, P!Deactivate \/ P!Tick \/ UNCHANGED P!vars
           \/ \E o \in Operators : P!Authorize(o) \/ P!Revoke(o)
  PROVE  PairingInv'
<1>1. UNCHANGED <<challenges, rows, used, receipts, recovered, pairs, committed>>
  BY DEF P!Deactivate, P!Tick, P!vars, P!Authorize, P!Revoke, P!d1, P!owner
<1>2. issuer' \in P!Issuer \cup {None}
  BY DEF P!Deactivate, P!Tick, P!vars, P!Authorize, P!Revoke, P!d1, P!owner, PairingInv, PairingTyped, P!Issuer
<1>3. \A x \in Receivers : ChainOf(x)'
  BY <1>1, ChainsStay DEF RowsAlike, PairingInv, PairingTyped
<1>4. \A s \in Calling : PairAt(s)'
  BY <1>1, OtherStays DEF PairingInv
<1>. QED BY <1>1, <1>2, <1>3, <1>4 DEF PairingInv, PairingTyped, Offered

LEMMA PairingStep ==
  ASSUME P!PairingAssumption, PairingInv, [P!Next]_(P!vars)
  PROVE  PairingInv'
<1>1. CASE \E r \in Calling : P!Start(r)
  BY <1>1, StartPairing
<1>2. CASE \E r \in Calling : P!Ingress(r) \/ P!Entrypoint(r) \/ P!Owner(r) \/ P!Turndown(r)
  BY <1>2, FrontStep
<1>3. CASE \E r \in Calling : P!GiveUp(r)
  BY <1>3, GiveUpStep
<1>4. CASE \E r \in Calling : P!Select(r) \/ P!Check(r) \/ P!Refuse(r)
  BY <1>4, CheckStep
<1>5. CASE \E r \in Calling : P!RunIssue(r) \/ P!RunRedeem(r) \/ P!RunWrite(r)
  BY <1>5, RunIssueStep, RunRedeemStep, RunWriteStep
<1>6. CASE \E r \in Calling : P!RunLifecycle(r) \/ P!RunRecover(r)
  BY <1>6, RunLifecycleStep, RunRecoverStep
<1>7. CASE \E r \in Calling : P!Reply(r)
  BY <1>7, ReplyStep
<1>8. CASE P!Deactivate \/ P!Tick \/ UNCHANGED P!vars \/ \E o \in Operators : P!Authorize(o) \/ P!Revoke(o)
  BY <1>8, RestStep
<1>. QED BY <1>1, <1>2, <1>3, <1>4, <1>5, <1>6, <1>7, <1>8 DEF P!Next

LEMMA PairingHolds ==
  ASSUME P!PairingAssumption
  PROVE  P!Spec => []PairingInv
<1>1. P!Init => PairingInv
  BY PairingStart
<1>2. PairingInv /\ [P!Next]_(P!vars) => PairingInv'
  BY PairingStep
<1>. QED BY <1>1, <1>2, PTL DEF P!Spec

\* What is answered unavailable has no effect, however late its statement runs,
\* and the receipts of a receiver are its lifecycle without a gap, across epochs
\* and recoveries (access-ingress.ts, pairing.ts, recovery.ts).
THEOREM ReceiptsAreHonest ==
  ASSUME P!PairingAssumption
  PROVE  P!Spec => []ReceiptsHonest
<1>1. PairingInv => ReceiptsHonest
  <2>. SUFFICES ASSUME PairingInv
                PROVE  P!AnswerHonest /\ P!ReceiptChain
    BY DEF ReceiptsHonest, P!ReceiptsHonest
  <2>1. P!AnswerHonest
    BY DEF PairingInv, PairAt, P!AnswerHonest
  <2>2. ASSUME NEW S
        PROVE  P!Cardinality(S) = Cardinality(S)
    BY DEF P!Cardinality, Cardinality
  <2>3. \A x \in Receivers : ChainOf(x)
    BY DEF PairingInv
  <2>4. P!ReceiptChain
    BY <2>2, <2>3 DEF P!ReceiptChain, ChainOf, Mine, Last
  <2>. QED BY <2>1, <2>4
<1>. QED BY <1>1, PairingHolds, PTL

\* Whatever challenges were issued and read before, an issuer is followed only
\* when it is out of use, and by the next epoch (enrollment.ts).
THEOREM IssuersSucceed ==
  ASSUME P!PairingAssumption
  PROVE  P!Spec => IssuerSuccession
<1>. DEFINE Succeeds ==
       issuer' # issuer =>
         IF issuer = None THEN issuer'.epoch = 1
         ELSE \/ issuer.active /\ issuer' = [issuer EXCEPT !.active = FALSE]
              \/ ~issuer.active /\ issuer'.active /\ issuer'.epoch = issuer.epoch + 1
<1>1. ASSUME PairingInv, [P!Next]_(P!vars)
      PROVE  [Succeeds]_(P!vars)
  <2>1. ASSUME NEW r \in Calling, P!RunRedeem(r)
        PROVE  Succeeds
    <3>. DEFINE o == pairs[r].ask.operator
    <3>1. /\ PairingTyped /\ PairAt(r) /\ pairs[r].pc = "submit" /\ pairs[r].ask.kind = "redeem"
      BY <1>1, <2>1 DEF PairingInv, P!RunRedeem, P!Run
    <3>2. o \in Operators
      BY <3>1 DEF PairAt, P!Ask, P!Enrolling, P!Lifecycle, P!Recovering
    <3>3. challenges[o] # None /\ challenges[o].epoch = IntentOf[o].expected + 1
      BY <1>1, <3>1, <3>2 DEF PairAt, PairingInv, Offered
    <3>4. CASE issuer' # issuer
      <4>1. /\ issuer' = [epoch |-> challenges[o].epoch, key |-> IntentOf[o].key, active |-> TRUE]
            /\ P!Successor(IntentOf[o].expected)
        BY <2>1, <3>4 DEF P!RunRedeem
      <4>. QED BY <3>3, <4>1 DEF P!Successor
    <3>. QED BY <3>4
  <2>2. CASE P!Deactivate
    BY <2>2 DEF P!Deactivate
  <2>3. ASSUME NEW r \in Calling,
               \/ P!Start(r) \/ P!Ingress(r) \/ P!Entrypoint(r) \/ P!Owner(r) \/ P!Turndown(r) \/ P!GiveUp(r)
               \/ P!Select(r) \/ P!Check(r) \/ P!Refuse(r) \/ P!Reply(r)
               \/ P!RunIssue(r) \/ P!RunLifecycle(r) \/ P!RunRecover(r) \/ P!RunWrite(r)
        PROVE  issuer' = issuer
    BY <2>3 DEF P!Start, P!Ingress, P!Entrypoint, P!Owner, P!Pass, P!Turndown, P!GiveUp, P!Select, P!Check, P!Refuse,
       P!Reply, P!RunIssue, P!RunLifecycle, P!RunRecover, P!RunWrite, P!d1
  <2>4. CASE P!Tick \/ UNCHANGED P!vars \/ \E o \in Operators : P!Authorize(o) \/ P!Revoke(o)
    BY <2>4 DEF P!Tick, P!vars, P!Authorize, P!Revoke, P!d1
  <2>. QED BY <1>1, <2>1, <2>2, <2>3, <2>4 DEF P!Next
<1>2. P!Spec => []PairingInv
  BY PairingHolds
<1>. QED BY <1>1, <1>2, PTL DEF P!Spec, IssuerSuccession, P!IssuerSuccession
=============================================================================
