---------------------------- MODULE SurfacePush ----------------------------
(***************************************************************************)
(* Surface push (src/src/surface-push): a delegation issues at most one    *)
(* capability against a challenge, and its holder registers, rotates,      *)
(* revokes and pushes to targets.  Every handler runs in its own           *)
(* invocation and one step is one D1 statement or batch; between two       *)
(* steps other invocations run, the clock moves, and the invocation may    *)
(* end.                                                                    *)
(*                                                                         *)
(* There is one enrolled delegation.  A call is one request; its name      *)
(* stands for the random claim id the handler draws, so a retry is another *)
(* call with the same operation.                                           *)
(***************************************************************************)
EXTENDS Integers, FiniteSets

CONSTANTS
  Calls, KindsOf,  \* [Calls -> SUBSET Kinds]: what each of them may ask
  Targets,         \* a registration and its generation
  Ops, IssueOps,   \* operation ids of the holder and of the issuer
  MaxRevision,     \* bound: revisions asked for
  Expiries,        \* expires_at_ms a registration may ask for
  Deadline,        \* [Ops \cup IssueOps -> Nat]: creation plus five minutes
  ChallengeLife, GrantExpiry,
  MaxOperations, MaxEvents, MaxChallenges,
  MaxTime,         \* bound: the clock
  None

Kinds == {"register", "revoke", "event", "challenge", "issue", "withdraw"}

ASSUME ConstantsAssumption ==
  /\ None \notin Calls /\ KindsOf \in [Calls -> SUBSET Kinds] /\ Ops \cap IssueOps = {}
  /\ Deadline \in [Ops \cup IssueOps -> Nat]
  /\ Expiries \subseteq 1 .. GrantExpiry /\ GrantExpiry \in Nat
  /\ {MaxRevision, ChallengeLife, MaxOperations, MaxEvents, MaxChallenges, MaxTime}
       \subseteq Nat

ASSUME FiniteAssumption == IsFiniteSet(Calls) /\ IsFiniteSet(Ops)

VARIABLES
  revoked,     \* revoked_at of the delegation is set
  challenges,  \* issuer operations of kind challenge
  caps,        \* capabilities, by the operation that issued them
  targets,     \* surface_push_targets
  ops,         \* surface_push_operations
  calls,       \* the invocations
  now

vars == <<revoked, challenges, caps, targets, ops, calls, now>>

Revisions == 1 .. MaxRevision
Counted == {"event_reserved", "dispatch_started", "provider_accepted",
            "provider_rejected", "outcome_unknown"}
Outcomes == Counted \cup {"registered", "revoked", "conflict", "not_sent"}

Challenge == [state : {"open", "consumed", "withdrawn"}, until : Nat]
Target == [revision : Revisions, expires : Nat, state : {"active", "revoked"}]
Operation == [kind : {"register", "revoke", "event"}, target : Targets,
              revision : Revisions, claim : Calls, outcome : Outcomes]

\* No row, state or answer is the absent one.
ASSUME NoneAssumption ==
  None \notin Challenge \cup Target \cup Operation \cup {"live", "revoked", "refused"}

\* A request, the clock it read last, until when its body may be sent, whether
\* it was sent, and what the provider answered.
Call == [pc : {"idle", "lookup", "write", "read", "reserve", "reread", "authorize",
               "dispatch", "send", "sent", "invalidate", "finish", "unsent", "unknown",
               "challenge", "issue", "withdraw", "done"},
         kind : Kinds \cup {None}, op : Ops \cup IssueOps \cup {None},
         target : Targets \cup {None}, revision : Nat, expires : Nat,
         clock : Nat, until : Nat, sent : BOOLEAN,
         answer : {"accepted", "refused", "rejected", None}]

Idle == [pc |-> "idle", kind |-> None, op |-> None, target |-> None, revision |-> 0,
         expires |-> 0, clock |-> 0, until |-> 0, sent |-> FALSE, answer |-> None]

Goto(c, pc) == calls' = [calls EXCEPT ![c].pc = pc, ![c].clock = now]

\* A handler reads the clock at some time after its last step and before the
\* statement it binds it to is executed.
Clocks(c) == calls[c].clock .. now

\* surface_push_live_capabilities, when the clock read says at.
IsLive(at) ==
  ~revoked /\ at < GrantExpiry /\ \E i \in IssueOps : caps[i] = "live"

(***************************************************************************)
(* The issuer: challenge, issue, withdraw.                                 *)
(***************************************************************************)
IsIssued == \E i \in IssueOps : caps[i] # None

\* Verify the statement and read what the operation needs before it writes.
AskIssuer(c) ==
  /\ calls[c].pc = "idle"
  /\ \E i \in IssueOps, kind \in KindsOf[c] \cap {"challenge", "issue", "withdraw"} :
       /\ now < Deadline[i]
       /\ kind = "withdraw" \/ (~revoked /\ now < GrantExpiry)
       /\ kind = "challenge" => ~IsIssued \/ caps[i] # None
       /\ kind = "issue" => challenges[i] # None /\ caps[i] = None
       /\ calls' = [calls EXCEPT ![c] =
            [Idle EXCEPT !.pc = kind, !.kind = kind, !.op = i, !.clock = now]]
  /\ UNCHANGED <<revoked, challenges, caps, targets, ops, now>>

Smallest(a, b) == IF a <= b THEN a ELSE b

OpenChallenge(c) ==
  LET i == calls[c].op
      room == Cardinality({j \in IssueOps : challenges[j] # None}) < MaxChallenges
  IN /\ calls[c].pc = "challenge"
     /\ \E at \in Clocks(c) :
          LET until == Smallest(at + ChallengeLife, Smallest(Deadline[i], GrantExpiry))
          IN challenges' =
               IF /\ at < Deadline[i] /\ challenges[i] = None
                  /\ ~revoked /\ at < GrantExpiry /\ room
                 THEN [challenges EXCEPT ![i] = [state |-> "open", until |-> until]]
                 ELSE challenges
     /\ Goto(c, "done")
     /\ UNCHANGED <<revoked, caps, targets, ops, now>>

\* The challenge as the batch requires it, when the clock read says at.
IsOpen(i, at) ==
  challenges[i] # None /\ challenges[i].state = "open" /\ at < challenges[i].until

\* The conditions of the first statement of the batch; the others repeat them.
MayIssue(i, at) ==
  /\ caps[i] = None /\ IsOpen(i, at) /\ ~revoked /\ at < GrantExpiry
  /\ ~IsIssued

\* The operation, the capability, and the challenge spent, in one batch.
Issue(c) ==
  LET i == calls[c].op
  IN /\ calls[c].pc = "issue"
     /\ \E at \in Clocks(c) :
          IF at < Deadline[i] /\ MayIssue(i, at)
            THEN /\ caps' = [caps EXCEPT ![i] = "live"]
                 /\ challenges' = [challenges EXCEPT ![i].state = "consumed"]
            ELSE UNCHANGED <<caps, challenges>>
     /\ Goto(c, "done")
     /\ UNCHANGED <<revoked, targets, ops, now>>

Closed(row) == IF row = None THEN None ELSE [row EXCEPT !.state = "revoked"]

\* The delegation, its capabilities, their targets and the open challenges.
Withdraw(c) ==
  /\ calls[c].pc = "withdraw" /\ Goto(c, "done")
  /\ \E at \in Clocks(c) :
       IF at < Deadline[calls[c].op]
         THEN /\ revoked' = TRUE
              /\ caps' = [i \in IssueOps |-> IF caps[i] = None THEN None ELSE "revoked"]
              /\ targets' = [t \in Targets |-> Closed(targets[t])]
              /\ challenges' = [i \in IssueOps |->
                   IF challenges[i] # None /\ challenges[i].state = "open"
                     THEN [challenges[i] EXCEPT !.state = "withdrawn"] ELSE challenges[i]]
         ELSE UNCHANGED <<revoked, caps, targets, challenges>>
  /\ UNCHANGED <<ops, now>>

(***************************************************************************)
(* The holder's requests, up to the write.                                 *)
(***************************************************************************)

\* decode, against the clock of the arrival.
IsDecoded(kind, o, expires) ==
  now < Deadline[o] /\ IF kind = "register" THEN now < expires ELSE expires = 0

\* authenticate and identity.
Arrive(c) ==
  /\ calls[c].pc = "idle" /\ IsLive(now)
  /\ \E kind \in KindsOf[c] \cap {"register", "revoke", "event"}, o \in Ops,
        t \in Targets, revision \in Revisions, expires \in Expiries \cup {0} :
       /\ IsDecoded(kind, o, expires)
       /\ calls' = [calls EXCEPT ![c] =
            [Idle EXCEPT !.pc = "lookup", !.kind = kind, !.op = o, !.target = t,
                         !.revision = revision, !.expires = expires, !.clock = now]]
  /\ UNCHANGED <<revoked, challenges, caps, targets, ops, now>>

\* A known operation is answered from its row, or refused as another one.
Lookup(c) ==
  LET q == calls[c]
  IN /\ q.pc = "lookup"
     /\ \/ ops[q.op] # None /\ Goto(c, "done")
        \/ ops[q.op] = None /\ q.kind # "event" /\ Goto(c, "write")
        \/ ops[q.op] = None /\ q.kind = "event" /\ calls' = [calls EXCEPT ![c].pc = "read"]
     /\ UNCHANGED <<revoked, challenges, caps, targets, ops, now>>

MayClaimWithdrawn(q, at) ==
  LET alike == {o \in Ops : ops[o] # None /\ (ops[o].kind = "revoke") = (q.kind = "revoke")}
  IN /\ at < Deadline[q.op] /\ ops[q.op] = None /\ Cardinality(alike) < MaxOperations

\* The condition of the claim every batch begins with.
MayClaim(q, at) ==
  LET alike == {o \in Ops : ops[o] # None /\ (ops[o].kind = "revoke") = (q.kind = "revoke")}
  IN /\ at < Deadline[q.op] /\ ops[q.op] = None
     /\ IsLive(at) /\ Cardinality(alike) < MaxOperations

Claimed(c, outcome) ==
  LET q == calls[c]
  IN [ops EXCEPT ![q.op] = [kind |-> q.kind, target |-> q.target, revision |-> q.revision,
                            claim |-> c, outcome |-> outcome]]

(***************************************************************************)
(* register and revoke.                                                    *)
(***************************************************************************)
MayRegisterRevoked(q, row) ==
  \/ row = None /\ q.revision = 1
  \/ row # None /\ row.revision = q.revision - 1

\* The first revision of an unseen target, or the next of the same one.
MayRegister(q, row) ==
  \/ row = None /\ q.revision = 1
  \/ /\ row # None /\ row.state = "active"
     /\ row.revision = q.revision - 1 /\ row.expires = q.expires

Register(c) ==
  LET q == calls[c]
      row == targets[q.target]
      outcome == IF MayRegister(q, row) THEN "registered"
                 ELSE IF row # None /\ row.state = "revoked" THEN "revoked" ELSE "conflict"
  IN /\ q.pc = "write" /\ q.kind = "register" /\ Goto(c, "done")
     /\ \E at \in Clocks(c) :
          IF at < q.expires /\ MayClaim(q, at)
            THEN /\ ops' = Claimed(c, outcome)
                 /\ targets' = IF outcome = "registered"
                      THEN [targets EXCEPT ![q.target] =
                              [revision |-> q.revision, expires |-> q.expires,
                               state |-> "active"]]
                      ELSE targets
            ELSE UNCHANGED <<ops, targets>>
     /\ UNCHANGED <<revoked, challenges, caps, now>>

\* A target nobody registered yet gets a tombstone; a known one is revoked at
\* the revision the request names.
Revoke(c) ==
  LET q == calls[c]
      row == targets[q.target]
      exact == row = None \/ row.revision = q.revision
  IN /\ q.pc = "write" /\ q.kind = "revoke" /\ Goto(c, "done")
     /\ \E at \in Clocks(c) :
          IF MayClaim(q, at)
            THEN /\ ops' = Claimed(c, IF exact THEN "revoked" ELSE "conflict")
                 /\ targets' = IF exact
                      THEN [targets EXCEPT ![q.target] =
                              [revision |-> q.revision, state |-> "revoked",
                               expires |-> IF row = None THEN 0 ELSE row.expires]]
                      ELSE targets
            ELSE UNCHANGED <<ops, targets>>
     /\ UNCHANGED <<revoked, challenges, caps, now>>

(***************************************************************************)
(* event.                                                                  *)
(***************************************************************************)
\* The target is one the request may be sent to, when the clock read says at.
IsCurrent(q, at) ==
  LET row == targets[q.target]
  IN row # None /\ row.state = "active" /\ row.revision = q.revision /\ at < row.expires

\* Judged by the clock of the arrival.  The body may be sent until the target
\* or the operation expires.
ReadTarget(c) ==
  LET q == calls[c]
  IN /\ q.pc = "read"
     /\ IF IsCurrent(q, q.clock)
          THEN calls' = [calls EXCEPT ![c].pc = "reserve", ![c].clock = now,
                 ![c].until = Smallest(targets[q.target].expires, Deadline[q.op])]
          ELSE Goto(c, "done")
     /\ UNCHANGED <<revoked, challenges, caps, targets, ops, now>>

\* The events of other operations that count.
Spent(o) ==
  {p \in Ops \ {o} : ops[p] # None /\ ops[p].kind = "event" /\ ops[p].outcome \in Counted}

\* The claim, then the reservation, which counts the events before this one.
ReserveEvent(c) ==
  LET q == calls[c]
  IN /\ q.pc = "reserve" /\ Goto(c, "reread")
     /\ \E at \in Clocks(c) :
          ops' = IF MayClaim(q, at)
                   THEN Claimed(c, IF IsCurrent(q, at) /\ Cardinality(Spent(q.op)) < MaxEvents
                                     THEN "event_reserved" ELSE "conflict")
                   ELSE ops
     /\ UNCHANGED <<revoked, challenges, caps, targets, now>>

OwnsReservation(c, row) ==
  row # None /\ row.claim = c /\ row.outcome = "event_reserved"

Reread(c) ==
  /\ calls[c].pc = "reread"
  /\ Goto(c, IF OwnsReservation(c, ops[calls[c].op]) THEN "authorize" ELSE "done")
  /\ UNCHANGED <<revoked, challenges, caps, targets, ops, now>>

\* Unseal the token and authorize to the provider; either may fail.
Authorize(c) ==
  /\ calls[c].pc = "authorize"
  /\ Goto(c, "dispatch") \/ Goto(c, "unsent")
  /\ UNCHANGED <<revoked, challenges, caps, targets, ops, now>>

\* The marker the one attempt needs.
MayDispatch(c, at) ==
  LET q == calls[c]
      row == ops[q.op]
  IN /\ row.claim = c /\ row.outcome = "event_reserved"
     /\ IsCurrent(q, at) /\ IsLive(at)

Dispatch(c) ==
  LET o == calls[c].op
  IN /\ calls[c].pc = "dispatch"
     /\ \E at \in Clocks(c) :
          IF at < calls[c].until /\ MayDispatch(c, at)
            THEN ops' = [ops EXCEPT ![o].outcome = "dispatch_started"] /\ Goto(c, "send")
            ELSE UNCHANGED ops /\ Goto(c, "unsent")
     /\ UNCHANGED <<revoked, challenges, caps, targets, now>>

\* The request is built only before the body expires; then it is the
\* provider's.
Fetch(c) ==
  /\ calls[c].pc = "send"
  /\ IF now < calls[c].until
       THEN calls' = [calls EXCEPT ![c].pc = "sent", ![c].clock = now, ![c].sent = TRUE]
       ELSE Goto(c, "unknown")
  /\ UNCHANGED <<revoked, challenges, caps, targets, ops, now>>

\* 200; 410 or a bad token; anything else.
Answer(c) ==
  /\ calls[c].pc = "sent"
  /\ \E answer \in {"accepted", "refused", "rejected"} :
       calls' = [calls EXCEPT ![c].pc = IF answer = "refused" THEN "invalidate" ELSE "finish",
                              ![c].clock = now, ![c].answer = answer]
  /\ UNCHANGED <<revoked, challenges, caps, targets, ops, now>>

IsSent(q, row) == row # None /\ row.revision = q.revision

\* invalidateSentGeneration; its answer may be lost.
Invalidate(c) ==
  LET q == calls[c]
      row == targets[q.target]
  IN /\ q.pc = "invalidate"
     /\ targets' = IF IsSent(q, row) THEN [targets EXCEPT ![q.target] = Closed(row)] ELSE targets
     /\ Goto(c, "finish") \/ Goto(c, "unknown")
     /\ UNCHANGED <<revoked, challenges, caps, ops, now>>

OutcomeOfUnanswered(q) ==
  CASE q.pc \in {"unsent", "unknown"} -> "not_sent"
    [] q.pc = "finish" -> IF q.answer = "accepted" THEN "provider_accepted" ELSE "provider_rejected"

OutcomeOf(q) ==
  CASE q.pc = "unsent"  -> "not_sent"
    [] q.pc = "unknown" -> "outcome_unknown"
    [] q.pc = "finish"  -> IF q.answer = "accepted" THEN "provider_accepted"
                           ELSE "provider_rejected"

MayFinish(c, row) == row.claim = c /\ row.outcome \in {"event_reserved", "dispatch_started"}

\* The outcome; a lost answer of the statement after the send is caught and
\* leads to a second one.
Finish(c) ==
  LET q == calls[c]
  IN /\ q.pc \in {"finish", "unsent", "unknown"}
     /\ ops' = IF MayFinish(c, ops[q.op])
                 THEN [ops EXCEPT ![q.op].outcome = OutcomeOf(q)] ELSE ops
     /\ Goto(c, "done") \/ (q.pc = "finish" /\ Goto(c, "unknown"))
     /\ UNCHANGED <<revoked, challenges, caps, targets, now>>

\* Building, sending, or a statement after it fails: caught.
Break(c) ==
  /\ calls[c].pc \in {"send", "sent", "invalidate", "finish"} /\ Goto(c, "unknown")
  /\ UNCHANGED <<revoked, challenges, caps, targets, ops, now>>

\* The invocation ends: a statement failed, or the isolate did.
Crash(c) ==
  /\ calls[c].pc \notin {"idle", "done"} /\ Goto(c, "done")
  /\ UNCHANGED <<revoked, challenges, caps, targets, ops, now>>

Tick ==
  /\ now < MaxTime /\ now' = now + 1
  /\ UNCHANGED <<revoked, challenges, caps, targets, ops, calls>>

Init ==
  /\ revoked = FALSE
  /\ challenges = [i \in IssueOps |-> None]
  /\ caps = [i \in IssueOps |-> None]
  /\ targets = [t \in Targets |-> None]
  /\ ops = [o \in Ops |-> None]
  /\ calls = [c \in Calls |-> Idle]
  /\ now = 0

Next ==
  \/ \E c \in Calls :
       \/ AskIssuer(c) \/ OpenChallenge(c) \/ Issue(c) \/ Withdraw(c)
       \/ Arrive(c) \/ Lookup(c) \/ Register(c) \/ Revoke(c)
       \/ ReadTarget(c) \/ ReserveEvent(c) \/ Reread(c) \/ Authorize(c) \/ Dispatch(c)
       \/ Fetch(c) \/ Answer(c) \/ Invalidate(c) \/ Finish(c) \/ Break(c) \/ Crash(c)
  \/ Tick

Spec == Init /\ [][Next]_vars

(***************************************************************************)
(* Properties.                                                             *)
(***************************************************************************)

\* The variables keep to their types.
TypeOK ==
  /\ revoked \in BOOLEAN /\ now \in 0 .. MaxTime
  /\ challenges \in [IssueOps -> Challenge \cup {None}]
  /\ caps \in [IssueOps -> {"live", "revoked", None}]
  /\ targets \in [Targets -> Target \cup {None}]
  /\ ops \in [Ops -> Operation \cup {None}]
  /\ calls \in [Calls -> Call]

SentFor(o) == {c \in Calls : calls[c].sent /\ calls[c].op = o}

\* Each event is sent to the provider at most once, whoever retries it and
\* whenever an invocation ends, and no more of them than the capability allows,
\* although a reservation that was not sent gives its place back.
SendBudget ==
  /\ \A o \in Ops : Cardinality(SentFor(o)) <= 1
  /\ Cardinality({c \in Calls : calls[c].sent}) <= MaxEvents

\* The ledger never denies a request that was made: what was sent is marked,
\* accepted, rejected or unknown; and "accepted" is only said of what was.
Truthful ==
  \A o \in Ops :
    /\ SentFor(o) # {} => ops[o].outcome \in Counted \ {"event_reserved"}
    /\ ops[o] # None /\ ops[o].outcome = "provider_accepted"
         => \E c \in SentFor(o) : calls[c].answer = "accepted"

\* A revision of a target is registered by one operation, after the one before
\* it, however rotations race.
OneLineage ==
  LET registered == {o \in Ops : ops[o] # None /\ ops[o].outcome = "registered"}
      same(o, p) == ops[o].target = ops[p].target
  IN \A o \in registered :
       /\ \A p \in registered : same(o, p) /\ ops[o].revision = ops[p].revision => o = p
       /\ ops[o].revision > 1 =>
            \E p \in registered : same(o, p) /\ ops[p].revision = ops[o].revision - 1

\* A target is revoked only by a withdrawal, by a revocation of its current
\* revision, or by a refusal of its current token: a late refusal of a token
\* that was rotated away leaves the new one alone.
RevokedForCause ==
  \A t \in Targets : targets[t] # None /\ targets[t].state = "revoked" =>
    \/ revoked
    \/ \E o \in Ops : /\ ops[o] # None /\ ops[o].kind = "revoke" /\ ops[o].outcome = "revoked"
                      /\ ops[o].target = t /\ ops[o].revision = targets[t].revision
    \/ \E c \in Calls : /\ calls[c].answer = "refused" /\ calls[c].target = t
                        /\ calls[c].revision = targets[t].revision

\* What is settled stays: a revoked target, against registrations on their way,
\* even the first one of a target that was revoked unseen; and the outcome of an
\* operation, also when the statement that settled it seemed to fail.
SettledStays ==
  [][/\ \A t \in Targets :
          targets[t] # None /\ targets[t].state = "revoked" => targets'[t] = targets[t]
     /\ \A o \in Ops :
          ops[o] # None /\ ops[o].outcome \notin {"event_reserved", "dispatch_started"}
            => ops'[o] = ops[o]]_vars

\* A delegation issues one capability, against one challenge, which is spent by
\* it.
OneCapability ==
  /\ Cardinality({i \in IssueOps : caps[i] # None}) <= 1
  /\ \A i \in IssueOps :
       caps[i] # None <=> challenges[i] # None /\ challenges[i].state = "consumed"

\* After a withdrawal nothing of the delegation is left that could be used, and
\* no request that was under way when it came adds anything.
WithdrawnIsDead ==
  revoked =>
    /\ \A i \in IssueOps : caps[i] # "live"
    /\ \A i \in IssueOps : challenges[i] # None => challenges[i].state # "open"
    /\ \A t \in Targets : targets[t] # None => targets[t].state = "revoked"
\* The ledger accounts for every push that was made.
EventAccount == SendBudget /\ Truthful

\* A capability and its targets have one line of descent and one end.
OneDescent == TypeOK /\ OneLineage /\ RevokedForCause /\ OneCapability /\ WithdrawnIsDead
=============================================================================
