---------------------------- MODULE WatchRestore ----------------------------
(***************************************************************************)
(* Preferences, retirement and provider entry of one Watch receiver        *)
(* (src/src/watch-lifecycle).  The D1 row holds the preference, and the    *)
(* owner of the database can restore it to an earlier moment.  A Durable   *)
(* Object, the stable actor, keeps what D1 must not be able to take back:  *)
(* the confirmed preference and the one being written, the fence of a      *)
(* retirement, and the attempts that entered the provider.                 *)
(*                                                                         *)
(* A step is one D1 statement or one turn of the actor, the code between   *)
(* two awaits.  What leaves the actor (a provider request, the end of      *)
(* storage.sync()) waits until the actor's writes are on its disk.         *)
(***************************************************************************)
EXTENDS Integers, FiniteSets, Sequences

CONSTANTS
  Requests,          \* preference requests in progress
  Intents,           \* signed preference-write bodies
  Senders, Attempts, \* dispatches in progress; operation and lease of each
  AttemptOf, ExpiryOf,
  Retirers,          \* retirement and lifecycle-status requests in progress
  RetireOps,         \* signed retirement bodies
  Generations,       \* incarnation, epoch and key of the pairing, in order
  IntentCapacity,    \* intents D1 keeps per generation
  StartCapacity,     \* attempts the actor keeps
  MaxTtl,            \* the longest life of an event
  MaxTime, MaxRegress, MaxRestores, MaxCrashes,  \* bounds
  None

ASSUME GenerationAssumption ==
  Generations \subseteq Nat \ {0} /\ \A g \in Generations : 1..g \subseteq Generations

ASSUME IntentAssumption ==
  \A i \in Intents : i.generation \in Generations /\ i.expected \in Nat /\ i.enabled \in BOOLEAN

ASSUME AttemptAssumption == AttemptOf \in [Senders -> Attempts] /\ ExpiryOf \in [Attempts -> Nat]

ASSUME BoundAssumption ==
  /\ IntentCapacity \in Nat /\ StartCapacity \in Nat /\ MaxTtl \in Nat
  /\ MaxTime \in Nat /\ MaxRegress \in Nat /\ MaxRestores \in Nat /\ MaxCrashes \in Nat

ASSUME RetireAssumption == \A op \in RetireOps : op.generation \in Generations

VARIABLES
  d1,        \* the receiver's row in D1, with the intents recorded
  past,      \* the states D1 can be restored to
  actor,     \* what the actor's storage holds
  disk,      \* what a restarted actor finds
  rq, sd, rt,\* requests, dispatches and retirements in progress
  now,
  done,      \* restores, crashes and clock regressions so far
  chain      \* per generation, the preferences D1 ever committed, by revision

vars == <<d1, past, actor, disk, rq, sd, rt, now, done, chain>>

\* revision, operation and body_hash, enabled, sealed.
Preference == [revision : Nat, intent : Intents \cup {None},
               enabled : BOOLEAN, sealed : BOOLEAN]
Baseline == [revision |-> 0, intent |-> None, enabled |-> FALSE, sealed |-> FALSE]

ASSUME NoneAssumption == None \notin Intents \cup RetireOps \cup Preference

\* Generation 0 is a receiver that was never paired.
Row == [generation : Generations \cup {0}, preference : Preference,
        retired : RetireOps \cup {None}, intents : SUBSET Intents]

\* The tables of the actor: restore authority, fence, starts and clock.
Actor == [scope : Generations \cup {0}, confirmed : Preference,
          pending : Preference \cup {None},
          fence : [Generations -> RetireOps \cup {None}],
          starts : SUBSET Attempts, high : Nat]

(***************************************************************************)
(* The restore authority.                                                  *)
(***************************************************************************)
\* A state the code has no key for is never admitted.
HasKey(p) == /\ ~(p.sealed /\ p.enabled)
             /\ IF p.revision = 0 THEN p = Baseline ELSE p.intent # None

Classify(g, p) ==
  LET admitted == HasKey(p) /\ actor.scope = g
  IN CASE admitted /\ actor.pending = p                              -> "pending"
       [] admitted /\ actor.pending = None /\ actor.confirmed = p -> "confirmed"
       [] OTHER                                                    -> "unavailable"

MayBegin(g, previous, next) ==
  /\ HasKey(previous) /\ HasKey(next) /\ ~previous.sealed
  /\ next.revision = previous.revision + 1
  /\ actor.scope = g /\ actor.confirmed = previous
  /\ actor.pending \in {None, next}

MayConfirm(g, p) == HasKey(p) /\ actor.scope = g /\ actor.pending = p

Confirmed(p) == [actor EXCEPT !.confirmed = p, !.pending = None]

(***************************************************************************)
(* A preference-write.  Its proof, its credential or its deadline may end  *)
(* at any check, and D1 then answers nothing.                              *)
(***************************************************************************)
NoRequest == [pc |-> "idle", intent |-> None, next |-> Baseline, observed |-> Baseline]
RequestEnd == {"confirmed", "unavailable", "unknown", "lost"}
Reserved == {"sync", "submit", "readback", "confirm"}

\* The row a statement guarded by the current pairing can find.
IsCurrent(g) == d1.generation = g /\ d1.retired = None

StartRequest(r) ==
  /\ rq[r].pc = "idle"
  /\ \E i \in Intents : rq' = [rq EXCEPT ![r].pc = "observe", ![r].intent = i]
  /\ UNCHANGED <<d1, past, actor, disk, sd, rt, now, done, chain>>

\* The intents recorded for a generation.
Recorded(g) == {i \in d1.intents : i.generation = g}
IsFull(g) == Cardinality(Recorded(g)) >= IntentCapacity

\* What the signed body makes of the row: the intent that does not fit seals it.
NextState(i) ==
  LET replay == d1.preference.revision = i.expected + 1 /\ d1.preference.intent = i
  IN [revision |-> i.expected + 1, intent |-> i, enabled |-> i.enabled,
      sealed |-> IF replay THEN d1.preference.sealed ELSE IsFull(i.generation)]

Observe(r) ==
  /\ rq[r].pc = "observe"
  /\ LET i == rq[r].intent
     IN /\ IsCurrent(i.generation)
        /\ ~(NextState(i).enabled /\ NextState(i).sealed)
        /\ rq' = [rq EXCEPT ![r].pc = "read", ![r].next = NextState(i)]
  /\ UNCHANGED <<d1, past, actor, disk, sd, rt, now, done, chain>>

Read(r) ==
  /\ rq[r].pc \in {"read", "readback"}
  /\ IsCurrent(rq[r].intent.generation)
  /\ rq' = [rq EXCEPT ![r].observed = d1.preference,
                      ![r].pc = IF rq[r].pc = "read" THEN "reserve" ELSE "confirm"]
  /\ UNCHANGED <<d1, past, actor, disk, sd, rt, now, done, chain>>

\* D1 holds the written state already: only what is reserved is confirmed.
Replay(r) ==
  /\ rq[r].pc = "reserve" /\ rq[r].observed = rq[r].next
  /\ LET class == Classify(rq[r].intent.generation, rq[r].observed)
     IN /\ class # "unavailable"
        /\ actor' = IF class = "pending" THEN Confirmed(rq[r].observed) ELSE actor
  /\ rq' = [rq EXCEPT ![r].pc = "confirmed"]
  /\ UNCHANGED <<d1, past, disk, sd, rt, now, done, chain>>

Reserve(r) ==
  /\ rq[r].pc = "reserve" /\ rq[r].observed # rq[r].next
  /\ rq[r].observed.revision = rq[r].intent.expected
  /\ Classify(rq[r].intent.generation, rq[r].observed) = "confirmed"
  /\ MayBegin(rq[r].intent.generation, rq[r].observed, rq[r].next)
  /\ actor' = [actor EXCEPT !.pending = rq[r].next]
  /\ rq' = [rq EXCEPT ![r].pc = "sync"]
  /\ UNCHANGED <<d1, past, disk, sd, rt, now, done, chain>>

\* The reservation is on disk before the update may leave.
Synced(r) ==
  /\ rq[r].pc = "sync" /\ actor = disk
  /\ Classify(rq[r].intent.generation, rq[r].next) = "pending"
  /\ rq' = [rq EXCEPT ![r].pc = "submit"]
  /\ UNCHANGED <<d1, past, actor, disk, sd, rt, now, done, chain>>

\* The guards of the revision-guarded update.
MaySubmit(i, observed, next) ==
  /\ IsCurrent(i.generation)
  /\ d1.preference.revision = i.expected /\ ~d1.preference.sealed
  /\ ~i.enabled \/ ~IsFull(i.generation)
  /\ \A j \in Recorded(i.generation) : j.op # i.op
  /\ d1.preference.intent = observed.intent /\ d1.preference.enabled = observed.enabled
  /\ IsFull(i.generation) = next.sealed

\* The update executes in D1, or finds no row; so does one whose actor crashed.
Submit(r) ==
  /\ rq[r].pc \in {"submit", "orphan"}
  /\ LET i == rq[r].intent
         next == rq[r].next
         row == [d1 EXCEPT !.preference = next,
                           !.intents = IF next.sealed THEN d1.intents ELSE d1.intents \cup {i}]
     IN \/ /\ MaySubmit(i, rq[r].observed, next)
           /\ d1' = row /\ past' = past \cup {row}
           /\ chain' = IF next.revision > Len(chain[i.generation])
                       THEN [chain EXCEPT ![i.generation] = Append(chain[i.generation], next)]
                       ELSE chain
        \/ UNCHANGED <<d1, past, chain>>
  /\ rq' = [rq EXCEPT ![r].pc = IF rq[r].pc = "submit" THEN "readback" ELSE "lost"]
  /\ UNCHANGED <<actor, disk, sd, rt, now, done>>

ConfirmUnread(r) ==
  /\ rq[r].pc = "confirm"
  /\ MayConfirm(rq[r].intent.generation, rq[r].next)
  /\ actor' = Confirmed(rq[r].next)
  /\ rq' = [rq EXCEPT ![r].pc = "confirmed"]
  /\ UNCHANGED <<d1, past, disk, sd, rt, now, done, chain>>

Confirm(r) ==
  /\ rq[r].pc = "confirm" /\ rq[r].observed = rq[r].next
  /\ MayConfirm(rq[r].intent.generation, rq[r].observed)
  /\ actor' = Confirmed(rq[r].observed)
  /\ rq' = [rq EXCEPT ![r].pc = "confirmed"]
  /\ UNCHANGED <<d1, past, disk, sd, rt, now, done, chain>>

\* A check or a call that fails, at any step: what may be reserved is answered
\* unknown, and an update on its way may still execute.
Abandon(r) ==
  /\ rq[r].pc \in {"observe", "read", "reserve"} \cup Reserved
  /\ rq' = [rq EXCEPT ![r].pc = CASE rq[r].pc = "submit"              -> "orphan"
                                  [] rq[r].pc \in Reserved \ {"submit"} -> "unknown"
                                  [] OTHER                            -> "unavailable"]
  /\ UNCHANGED <<d1, past, actor, disk, sd, rt, now, done, chain>>

(***************************************************************************)
(* A dispatch: it reads the preference, prepares the provider request and  *)
(* enters the provider in one turn of the actor.                           *)
(***************************************************************************)
NoSend == [pc |-> "idle", generation |-> 0, observed |-> Baseline]

BeforeFetch(s) ==
  /\ sd[s].pc = "idle" /\ d1.generation # 0 /\ d1.retired = None
  /\ sd' = [sd EXCEPT ![s] = [pc |-> "enter", generation |-> d1.generation,
                              observed |-> d1.preference]]
  /\ UNCHANGED <<d1, past, actor, disk, rq, rt, now, done, chain>>

\* Mutant: the preference D1 was read with is not compared with the actor's.
IsOpenToD1(s) ==
  LET g == sd[s].generation
      expires == ExpiryOf[AttemptOf[s]]
  IN /\ sd[s].observed.enabled /\ actor.scope = g
     /\ expires > now /\ expires - now <= MaxTtl
     /\ actor.fence[g] = None /\ now >= actor.high

\* The authority and the fence let the attempt reach the table of starts.
IsOpen(s) ==
  LET g == sd[s].generation
      expires == ExpiryOf[AttemptOf[s]]
  IN /\ sd[s].observed.enabled /\ Classify(g, sd[s].observed) = "confirmed"
     /\ expires > now /\ expires - now <= MaxTtl
     /\ actor.fence[g] = None /\ now >= actor.high

Unexpired == {a \in actor.starts : ExpiryOf[a] > now}

\* Mutant: the start is inserted or ignored, and nobody looks which.
IsFreshIgnored(a) == Cardinality(Unexpired) < StartCapacity

IsFresh(a) == a \notin Unexpired /\ Cardinality(Unexpired) < StartCapacity

Enter(s) ==
  /\ sd[s].pc = "enter" /\ IsOpen(s) /\ IsFresh(AttemptOf[s])
  /\ actor' = [actor EXCEPT !.high = now, !.starts = Unexpired \cup {AttemptOf[s]}]
  /\ sd' = [sd EXCEPT ![s].pc = "entered"]
  /\ UNCHANGED <<d1, past, disk, rq, rt, now, done, chain>>

\* A start already taken, or no room: the clock has moved all the same.
Refuse(s) ==
  /\ sd[s].pc = "enter" /\ ~(IsOpen(s) /\ IsFresh(AttemptOf[s]))
  /\ actor' = IF IsOpen(s) THEN [actor EXCEPT !.high = now, !.starts = Unexpired] ELSE actor
  /\ sd' = [sd EXCEPT ![s].pc = "refused"]
  /\ UNCHANGED <<d1, past, disk, rq, rt, now, done, chain>>

\* The provider request leaves the actor.
Leave(s) ==
  /\ sd[s].pc = "entered" /\ actor = disk
  /\ sd' = [sd EXCEPT ![s].pc = "sent"]
  /\ UNCHANGED <<d1, past, actor, disk, rq, rt, now, done, chain>>

(***************************************************************************)
(* Retirement: the fence first, D1 next; or the status of a retirement.    *)
(***************************************************************************)
NoRetire == [pc |-> "idle", kind |-> None, op |-> None, generation |-> 0]
RetireEnd == {"committed", "denied", "unknown", "lost"}
RetireSteps == {"current", "block", "blocked", "retire", "retired", "status", "found"}

StartRetire(q) ==
  /\ rt[q].pc = "idle"
  /\ \E op \in RetireOps, kind \in {"retire", "lifecycle-status"} :
       rt' = [rt EXCEPT ![q] = [pc |-> "current", kind |-> kind, op |-> op,
                                generation |-> op.generation]]
  /\ UNCHANGED <<d1, past, actor, disk, rq, sd, now, done, chain>>

Step(q, from, to) == rt[q].pc = from /\ rt' = [rt EXCEPT ![q].pc = to]

\* isRestoreCurrent, before anything else.
Current(q) ==
  /\ Step(q, "current", IF rt[q].kind = "retire" THEN "block" ELSE "status")
  /\ actor.scope = rt[q].generation
  /\ UNCHANGED <<d1, past, actor, disk, rq, sd, now, done, chain>>

\* INSERT OR IGNORE: the fence of another body stays, and refuses this one.
Block(q) ==
  LET g == rt[q].generation
  IN /\ Step(q, "block", "blocked")
     /\ actor.fence[g] \in {None, rt[q].op}
     /\ actor' = [actor EXCEPT !.fence = [actor.fence EXCEPT ![g] = rt[q].op]]
     /\ UNCHANGED <<d1, past, disk, rq, sd, now, done, chain>>

Blocked(q) ==
  /\ Step(q, "blocked", "retire") /\ actor = disk /\ actor.scope = rt[q].generation
  /\ UNCHANGED <<d1, past, actor, disk, rq, sd, now, done, chain>>

\* The retirement update; it clears the preference and keeps its revision.
Retire(q) ==
  LET row == [d1 EXCEPT !.retired = rt[q].op, !.preference.enabled = FALSE,
                        !.preference.sealed = TRUE]
  IN /\ rt[q].pc \in {"retire", "orphan"} /\ IsCurrent(rt[q].generation)
     /\ d1' = row /\ past' = past \cup {row}
     /\ rt' = [rt EXCEPT ![q].pc = IF rt[q].pc = "retire" THEN "retired" ELSE "lost"]
     /\ UNCHANGED <<actor, disk, rq, sd, now, done, chain>>

Retired(q) ==
  /\ Step(q, "retired", "committed") /\ actor.scope = rt[q].generation
  /\ UNCHANGED <<d1, past, actor, disk, rq, sd, now, done, chain>>

\* lifecycle-status: D1 shows the retirement, then the actor shows its fence.
Status(q) ==
  /\ Step(q, "status", "found") /\ d1.generation = rt[q].generation /\ d1.retired = rt[q].op
  /\ UNCHANGED <<d1, past, actor, disk, rq, sd, now, done, chain>>

HasBlock(q) ==
  /\ Step(q, "found", "committed")
  /\ actor.scope = rt[q].generation /\ actor.fence[rt[q].generation] = rt[q].op
  /\ UNCHANGED <<d1, past, actor, disk, rq, sd, now, done, chain>>

\* Denied while nothing was tried; an update on its way; unknown otherwise.
AbandonRetire(q) ==
  /\ rt[q].pc \in RetireSteps
  /\ \E to \in {"denied", "orphan", "unknown"} :
       /\ to = "denied" => rt[q].pc \in {"current", "block"}
       /\ to = "orphan" <=> rt[q].pc = "retire"
       /\ to = "unknown" => rt[q].pc # "current"
       /\ rt' = [rt EXCEPT ![q].pc = to]
  /\ UNCHANGED <<d1, past, actor, disk, rq, sd, now, done, chain>>

(***************************************************************************)
(* Enrollment of the actor, pairing in D1, and their advance: each on its  *)
(* own operator approval, in either order.                                 *)
(***************************************************************************)
InitializeDisabled ==
  /\ actor.scope = 0 /\ 1 \in Generations
  /\ actor' = [actor EXCEPT !.scope = 1]
  /\ UNCHANGED <<d1, past, disk, rq, sd, rt, now, done, chain>>

AdvanceGeneration ==
  /\ actor.scope # 0 /\ actor.scope + 1 \in Generations /\ actor.pending = None
  /\ actor' = [actor EXCEPT !.scope = actor.scope + 1, !.confirmed = Baseline]
  /\ UNCHANGED <<d1, past, disk, rq, sd, rt, now, done, chain>>

\* pair, then replace or recover: a new incarnation starts disabled.
Pair ==
  LET row == [d1 EXCEPT !.generation = d1.generation + 1, !.preference = Baseline,
                        !.retired = None]
  IN /\ row.generation \in Generations
     /\ d1' = row /\ past' = past \cup {row}
     /\ UNCHANGED <<actor, disk, rq, sd, rt, now, done, chain>>

(***************************************************************************)
(* The platform: the actor's disk, its crashes, D1 restores, the clock.    *)
(***************************************************************************)
Flush ==
  /\ actor # disk /\ disk' = actor
  /\ UNCHANGED <<d1, past, actor, rq, sd, rt, now, done, chain>>

\* Requests end with the actor, except an update that already left it.
AfterCrash(pc) ==
  IF pc \in {"submit", "retire", "orphan"} THEN "orphan"
  ELSE IF pc \in RequestEnd \cup RetireEnd \cup {"idle", "sent", "refused"} THEN pc
  ELSE "lost"

Crash ==
  /\ done.crashes < MaxCrashes /\ done' = [done EXCEPT !.crashes = done.crashes + 1]
  /\ actor' = disk
  /\ rq' = [r \in Requests |-> [rq[r] EXCEPT !.pc = AfterCrash(rq[r].pc)]]
  /\ sd' = [s \in Senders |-> [sd[s] EXCEPT !.pc = AfterCrash(sd[s].pc)]]
  /\ rt' = [q \in Retirers |-> [rt[q] EXCEPT !.pc = AfterCrash(rt[q].pc)]]
  /\ UNCHANGED <<d1, past, disk, now, chain>>

RestoreD1 ==
  /\ done.restores < MaxRestores /\ done' = [done EXCEPT !.restores = done.restores + 1]
  /\ \E row \in past : row # d1 /\ d1' = row
  /\ UNCHANGED <<past, actor, disk, rq, sd, rt, now, chain>>

Tick ==
  /\ now < MaxTime /\ now' = now + 1
  /\ UNCHANGED <<d1, past, actor, disk, rq, sd, rt, done, chain>>

StepBack ==
  /\ done.regress < MaxRegress /\ done' = [done EXCEPT !.regress = done.regress + 1]
  /\ now > 0 /\ now' = now - 1
  /\ UNCHANGED <<d1, past, actor, disk, rq, sd, rt, chain>>

Unpaired == [generation |-> 0, preference |-> Baseline, retired |-> None, intents |-> {}]
NewActor == [scope |-> 0, confirmed |-> Baseline, pending |-> None,
             fence |-> [g \in Generations |-> None], starts |-> {}, high |-> 0]

Init ==
  /\ d1 = Unpaired /\ past = {Unpaired}
  /\ actor = NewActor /\ disk = NewActor
  /\ rq = [r \in Requests |-> NoRequest]
  /\ sd = [s \in Senders |-> NoSend]
  /\ rt = [q \in Retirers |-> NoRetire]
  /\ now = 0 /\ done = [restores |-> 0, crashes |-> 0, regress |-> 0]
  /\ chain = [g \in Generations |-> <<>>]

Next ==
  \/ \E r \in Requests : \/ StartRequest(r) \/ Observe(r) \/ Read(r) \/ Replay(r) \/ Reserve(r)
                         \/ Synced(r) \/ Submit(r) \/ Confirm(r) \/ Abandon(r)
  \/ \E s \in Senders : BeforeFetch(s) \/ Enter(s) \/ Refuse(s) \/ Leave(s)
  \/ \E q \in Retirers : \/ StartRetire(q) \/ Current(q) \/ Block(q) \/ Blocked(q) \/ Retire(q) \/ Retired(q)
                         \/ Status(q) \/ HasBlock(q) \/ AbandonRetire(q)
  \/ InitializeDisabled \/ AdvanceGeneration \/ Pair
  \/ Flush \/ Crash \/ RestoreD1 \/ Tick \/ StepBack

Spec == Init /\ [][Next]_vars

(***************************************************************************)
(* Properties.                                                             *)
(***************************************************************************)
Request == [pc : RequestEnd \cup Reserved \cup {"idle", "observe", "read", "reserve", "orphan"},
            intent : Intents \cup {None}, next : Preference, observed : Preference]
Sender == [pc : {"idle", "enter", "entered", "refused", "sent", "lost"},
           generation : Generations \cup {0}, observed : Preference]
Retirer == [pc : RetireSteps \cup RetireEnd \cup {"idle", "orphan"},
            kind : {"retire", "lifecycle-status", None},
            op : RetireOps \cup {None}, generation : Generations \cup {0}]

\* The stores and the programs in progress have their shape.
TypeOK ==
  /\ d1 \in Row /\ past \subseteq Row /\ actor \in Actor /\ disk \in Actor
  /\ rq \in [Requests -> Request] /\ sd \in [Senders -> Sender] /\ rt \in [Retirers -> Retirer]
  /\ \A r \in Requests : rq[r].pc # "idle" => rq[r].intent \in Intents
  /\ \A q \in Retirers :
       rt[q].pc # "idle" => rt[q].op \in RetireOps /\ rt[q].generation \in Generations
  /\ now \in Nat /\ chain \in [Generations -> Seq(Preference)]

\* The last preference D1 committed in a generation.
LatestOf(g) == IF chain[g] = <<>> THEN Baseline ELSE chain[g][Len(chain[g])]

\* The actor knows what D1 committed last, whatever D1 is restored to and
\* whenever the actor crashes: with nothing pending it is the confirmed
\* preference, otherwise the confirmed or the pending one.
Knows(a) ==
  a.scope # 0 =>
    IF a.pending = None THEN LatestOf(a.scope) = a.confirmed
    ELSE LatestOf(a.scope) \in {a.confirmed, a.pending}
AuthorityKnows == Knows(actor) /\ Knows(disk)

\* One history per generation: D1 never holds, for a revision, another
\* preference than the one first committed with it, not even after a restore
\* with an update still on its way.
NoFork ==
  LET p == d1.preference
  IN IsCurrent(d1.generation) /\ p # Baseline =>
       /\ p.revision \in DOMAIN chain[d1.generation]
       /\ chain[d1.generation][p.revision] = p

\* A preference-write answered "confirmed" is in the history.
AnsweredIsCommitted ==
  \A r \in Requests : rq[r].pc = "confirmed" =>
    LET c == chain[rq[r].intent.generation]
    IN rq[r].next.revision \in DOMAIN c /\ c[rq[r].next.revision] = rq[r].next

\* An attempt enters the provider only under the latest preference committed,
\* and only if that one is enabled: a row read before a disable, or from a
\* restored database, is no consent.
ConsentRespected ==
  [][\A s \in Senders : sd[s].pc # "entered" /\ sd'[s].pc = "entered" =>
       /\ sd[s].observed = LatestOf(sd[s].generation)
       /\ LatestOf(sd[s].generation).enabled]_vars

\* One operation and lease leaves for the provider at most once, across
\* retries, crashes, expiry of its row and a clock that steps back.
AttemptOnce ==
  \A s, t \in Senders : sd[s].pc = "sent" /\ sd[t].pc = "sent" /\ AttemptOf[s] = AttemptOf[t] => s = t

\* After a retirement was answered "committed" nothing enters the provider for
\* its generation, though D1 be restored to a moment before it.
RetiredIsSilent ==
  [][\A s \in Senders, q \in Retirers :
       sd[s].pc # "entered" /\ sd'[s].pc = "entered" =>
         ~(rt[q].pc = "committed" /\ rt[q].generation = sd[s].generation)]_vars

\* Three stores tell one history: D1, the actor and its disk.
OneHistory == TypeOK /\ AuthorityKnows /\ NoFork /\ AnsweredIsCommitted

\* What enters the provider has the consent of the moment and no retirement.
EntryAllowed == ConsentRespected /\ RetiredIsSilent
=============================================================================
