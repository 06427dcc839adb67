----------------------------- MODULE RichDelivery -----------------------------
(***************************************************************************)
(* The delivery of rich sessions (src/coordinator/rich-delivery/adapter.ts *)
(* over the data of src/coordinator/rich-session/profile-data.ts).  A call *)
(* has its attempt admitted, checks the carrier, asks for the provider's   *)
(* authorization, has the dispatch marked, and sends once.                 *)
(*                                                                         *)
(* A step is what an adapter does between two awaits, or the effect of a   *)
(* port.  The ports are not in the repository: admission may lease an      *)
(* operation again or refuse, a marker is set once for all adapters, and   *)
(* the effect and the answer of every port may each be lost.  Within one   *)
(* turn the clock is read once.                                            *)
(***************************************************************************)
EXTENDS Integers, FiniteSets

CONSTANTS
  Requests, LeasesOf,   \* [Requests -> SUBSET Lease]: what an attempt may be admitted with
  Adapters, Operations, None,
  Capacity,             \* 4096
  MaxLife,              \* 120 seconds
  MaxTime               \* bound of the clock

Time == 0..MaxTime
Interval == [from : Time, to : Time]
\* The frame: its bounds, those of its state and of its rich part; parsed: it is
\* within the byte limits and every field has its shape.
Frame == [parsed : BOOLEAN, bounds : Interval, state : Interval, rich : Interval \cup {None}]
Lease == [op : Operations, frame : Frame, original : Interval \cup {None}, event : {"update", "end"},
          dismissed : BOOLEAN, expires : Time]

VARIABLES
  now,       \* the clock, which may step back
  current,   \* the operations whose owner still holds
  marked,    \* the durable markers
  adapter,   \* [closed, highWater, operations]: of the running isolates
  sent,      \* what the provider was asked: by whom, when, and whether it accepted
  rq         \* the calls of deliver

vars == <<now, current, marked, adapter, sent, rq>>

Adapter == [closed : BOOLEAN, highWater : Time, operations : SUBSET Operations]
Observations == {"provider_accepted", "provider_rejected", "outcome_unknown", "not_sent"}
Request ==
  [pc : {"idle", "admit", "digest", "authorize", "mark", "marked", "spent", "fetch", "finish", "ended", "threw"},
   on : Adapters \cup {None}, lease : Lease \cup {None}, aborted : BOOLEAN,
   outcome : Observations \cup {"already_attempted", None}]

\* No lease and no outcome is the missing one.
RichAssumption ==
  /\ LeasesOf \in [Requests -> SUBSET Lease] /\ MaxTime \in Nat
  /\ None \notin Lease \cup Observations \cup {"already_attempted"}

Fresh == [closed |-> FALSE, highWater |-> 0, operations |-> {}]
Idle == [pc |-> "idle", on |-> None, lease |-> None, aborted |-> FALSE, outcome |-> None]

(***************************************************************************)
(* Rich session data.                                                      *)
(***************************************************************************)
IsWindow(i) == i.from < i.to /\ i.to - i.from <= MaxLife

\* decodeRichCarrier
Decodes(f) ==
  /\ f.parsed /\ f.bounds.from < f.bounds.to /\ IsWindow(f.state)
  /\ f.rich # None => IsWindow(f.rich) /\ f.state.to <= f.rich.to

\* checkOriginalRichData: the texts and bounds of the carrier.
IsOriginal(l) == l.original = l.frame.bounds

\* prepareApnsData
Prepares(l) == l.frame.rich # None /\ (l.event = "end") = l.dismissed

(***************************************************************************)
(* The guards of a turn.                                                   *)
(***************************************************************************)
StepsBack(a) == now < adapter[a].highWater
Ticking(a) == ~adapter[a].closed /\ ~StepsBack(a)

\* A reading that steps back closes the adapter.
Read(a) == IF adapter[a].closed THEN adapter[a]
           ELSE IF StepsBack(a) THEN [adapter[a] EXCEPT !.closed = TRUE]
                ELSE [adapter[a] EXCEPT !.highWater = now]

Guarded(r, l) == Ticking(rq[r].on) /\ ~rq[r].aborted /\ now < l.expires /\ l.op \in current

\* Whether or not it is cancelled before it reads, a guard that fails throws.
GuardReads(r) == adapter' = [adapter EXCEPT ![rq[r].on] = IF rq[r].aborted THEN @ ELSE Read(rq[r].on)]

Goto(r, pc) == rq' = [rq EXCEPT ![r].pc = pc]
Observe(r, outcome) == rq' = [rq EXCEPT ![r].pc = "finish", ![r].outcome = outcome]
Return(r, outcome) == rq' = [rq EXCEPT ![r].pc = "ended", ![r].outcome = outcome]

(***************************************************************************)
(* deliver                                                                 *)
(***************************************************************************)
Deliver(r) ==
  /\ rq[r].pc = "idle"
  /\ \E a \in Adapters :
       /\ rq' = [rq EXCEPT ![r].on = a, ![r].pc = IF Ticking(a) /\ ~rq[r].aborted THEN "admit" ELSE "threw"]
       /\ adapter' = [adapter EXCEPT ![a] = IF rq[r].aborted THEN @ ELSE Read(a)]
  /\ UNCHANGED <<now, current, marked, sent>>

\* Admission refuses, or its answer is lost.
Refuse(r) == rq[r].pc = "admit" /\ Goto(r, "threw") /\ UNCHANGED <<now, current, marked, adapter, sent>>

\* The lease comes: the fence of the process, then everything up to the digest.
Valid(l) ==
  /\ Decodes(l.frame) /\ IsOriginal(l) /\ Prepares(l)
  /\ l.frame.bounds.from <= now /\ now < l.frame.bounds.to /\ l.expires <= l.frame.bounds.to

Admit(r) ==
  LET a == rq[r].on
      IsTold(l) == ~adapter[a].closed /\ ~rq[r].aborted
      IsNew(l) == IsTold(l) /\ l.op \notin adapter[a].operations
      HasRoom == Cardinality(adapter[a].operations) < Capacity
  IN /\ rq[r].pc = "admit"
     /\ \E l \in LeasesOf[r] :
          \/ ~IsTold(l) /\ Goto(r, "threw") /\ UNCHANGED adapter
          \/ /\ IsTold(l) /\ l.op \in adapter[a].operations
             /\ rq' = [rq EXCEPT ![r].pc = "ended", ![r].lease = l, ![r].outcome = "already_attempted"]
             /\ UNCHANGED adapter
          \/ IsNew(l) /\ ~HasRoom /\ Goto(r, "threw") /\ UNCHANGED adapter
          \/ /\ IsNew(l) /\ HasRoom
             /\ adapter' = [adapter EXCEPT ![a] = [Read(a) EXCEPT !.operations = @ \cup {l.op}]]
             /\ rq' = [rq EXCEPT ![r].lease = l,
                  ![r].pc = IF Guarded(r, l) /\ Valid(l) THEN "digest" ELSE "finish",
                  ![r].outcome = IF Guarded(r, l) /\ Valid(l) THEN None ELSE "not_sent"]
     /\ UNCHANGED <<now, current, marked, sent>>

\* The digest is there, and authorizeProvider is called; or it fails.
Digest(r) ==
  /\ rq[r].pc = "digest"
  /\ \/ GuardReads(r) /\ IF Guarded(r, rq[r].lease) THEN Goto(r, "authorize") ELSE Observe(r, "not_sent")
     \/ UNCHANGED adapter /\ Observe(r, "not_sent")
  /\ UNCHANGED <<now, current, marked, sent>>

\* The authorization comes and markDispatch is called; or it is malformed, or fails.
Authorize(r) ==
  /\ rq[r].pc = "authorize"
  /\ \/ GuardReads(r) /\ Guarded(r, rq[r].lease) /\ Goto(r, "mark")
     \/ GuardReads(r) /\ Observe(r, "not_sent")
     \/ UNCHANGED adapter /\ Observe(r, "not_sent")
  /\ UNCHANGED <<now, current, marked, sent>>

\* The durable marker: the first to come sets it.
SetMarker(r) ==
  LET op == rq[r].lease.op
  IN /\ rq[r].pc = "mark" /\ marked' = marked \cup {op}
     /\ Goto(r, IF op \in marked THEN "spent" ELSE "marked")
     /\ UNCHANGED <<now, current, adapter, sent>>

AlreadyAttempted(r) ==
  /\ rq[r].pc = "spent" /\ Return(r, "already_attempted")
  /\ UNCHANGED <<now, current, marked, adapter, sent>>

\* A marker that failed, or whose answer was lost, is uncertain.
LoseMarker(r) ==
  /\ rq[r].pc \in {"mark", "marked", "spent"} /\ Observe(r, "outcome_unknown")
  /\ UNCHANGED <<now, current, marked, adapter, sent>>

\* The sole outbound call, in the turn of the last guards.
Send(r) ==
  /\ rq[r].pc = "marked" /\ GuardReads(r)
  /\ IF Guarded(r, rq[r].lease)
       THEN Goto(r, "fetch") /\ sent' = sent \cup {[by |-> r, at |-> now]}
       ELSE Observe(r, "not_sent") /\ UNCHANGED sent
  /\ UNCHANGED <<now, current, marked>>

\* The provider's answer; or a timeout, an abort, a failure of the connection.
Answer(r) ==
  /\ rq[r].pc = "fetch"
  /\ \E o \in {"provider_accepted", "provider_rejected", "outcome_unknown"} : Observe(r, o)
  /\ UNCHANGED <<now, current, marked, adapter, sent>>

\* The observation is recorded, if the port does; a positive answer needs the guard.
Finish(r) ==
  /\ rq[r].pc = "finish"
  /\ \/ Return(r, "outcome_unknown") /\ UNCHANGED adapter
     \/ /\ GuardReads(r)
        /\ Return(r, IF Guarded(r, rq[r].lease) THEN rq[r].outcome ELSE "outcome_unknown")
  /\ UNCHANGED <<now, current, marked, sent>>

(***************************************************************************)
(* Around it.                                                              *)
(***************************************************************************)
IsOpen(r) == rq[r].pc \notin {"ended", "threw"}

Abort(r) == IsOpen(r) /\ ~rq[r].aborted /\ rq' = [rq EXCEPT ![r].aborted = TRUE]
            /\ UNCHANGED <<now, current, marked, adapter, sent>>

Close(a) == ~adapter[a].closed /\ adapter' = [adapter EXCEPT ![a].closed = TRUE]
            /\ UNCHANGED <<now, current, marked, sent, rq>>

\* The isolate goes, with the calls it had.
Restart(a) ==
  /\ adapter' = [adapter EXCEPT ![a] = Fresh]
  /\ rq' = [r \in Requests |-> IF rq[r].on = a /\ IsOpen(r) THEN [rq[r] EXCEPT !.pc = "threw"] ELSE rq[r]]
  /\ UNCHANGED <<now, current, marked, sent>>

Withdraw == \E op \in current : current' = current \ {op} /\ UNCHANGED <<now, marked, adapter, sent, rq>>

Tick == now' \in {now - 1, now + 1} \cap Time /\ UNCHANGED <<current, marked, adapter, sent, rq>>

Init ==
  /\ now = 0 /\ current = Operations /\ marked = {} /\ sent = {}
  /\ adapter = [a \in Adapters |-> Fresh] /\ rq = [r \in Requests |-> Idle]

Next ==
  \/ \E r \in Requests :
       \/ Deliver(r) \/ Refuse(r) \/ Admit(r) \/ Digest(r) \/ Authorize(r) \/ SetMarker(r)
       \/ AlreadyAttempted(r) \/ LoseMarker(r) \/ Send(r) \/ Answer(r) \/ Finish(r) \/ Abort(r)
  \/ \E a \in Adapters : Close(a) \/ Restart(a)
  \/ Withdraw \/ Tick

Spec == Init /\ [][Next]_vars

(***************************************************************************)
(* Properties                                                              *)
(***************************************************************************)
\* An operation reaches the provider once, whatever adapters it is given to,
\* however often they restart, and whichever answers are lost (adapter.ts 46,
\* 103-114).
SentOnce == \A s, t \in sent : rq[s.by].lease.op = rq[t.by].lease.op => s = t

\* What is sent is the original carrier, inside both its bounds when it leaves,
\* although they were checked turns ago and the clock may have stepped back
\* since (adapter.ts 71, 92-94, 113).
SentInTime == \A s \in sent : LET l == rq[s.by].lease IN
  Decodes(l.frame) /\ IsOriginal(l) /\ l.frame.bounds.from <= s.at /\ s.at < l.frame.bounds.to /\ s.at < l.expires

\* "Not sent" was not sent, an answer of the provider is one, and nothing is
\* called already attempted that no one attempted (adapter.ts 104, 118-122).
AnswerTruthful == \A r \in Requests :
  /\ rq[r].outcome \in {"provider_accepted", "provider_rejected"} => \E s \in sent : s.by = r
  /\ rq[r].outcome = "not_sent" => \A s \in sent : s.by # r
  /\ rq[r].outcome = "already_attempted" =>
       rq[r].lease.op \in marked \/ \E q \in Requests \ {r} : rq[q].on = rq[r].on /\ rq[q].lease # None
                                      /\ rq[q].lease.op = rq[r].lease.op
DeliveryTruthful == SentOnce /\ SentInTime /\ AnswerTruthful
=============================================================================
