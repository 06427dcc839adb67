------------------------------ MODULE HostWake ------------------------------
(***************************************************************************)
(* Host app wake (src/coordinator/host-app-wake): an original purpose is   *)
(* issued once with one credential, its holder registers and rotates the   *)
(* token of the host app and sends it silent wakes, and withdraws it.      *)
(* One step is one D1 statement or batch; between two steps other requests *)
(* run and time passes.                                                    *)
(*                                                                         *)
(* A call is one request; its name stands for the claim id it draws.  The  *)
(* service may be closed, its clock may regress, its ports may be replaced *)
(* and a request may be cancelled at any time: then the next guard throws, *)
(* which is Break inside a send and Drop elsewhere.                        *)
(***************************************************************************)
EXTENDS Integers, FiniteSets

CONSTANTS
  Calls, AsksOf,   \* [Calls -> SUBSET Request]: what each of them may ask
  Purposes, Ops, Generations,
  HostOf,          \* [Purposes -> hosts]: host_bundle, install_id, environment
  Expiry,          \* [Purposes -> Nat]: expires_at_ms
  Window,          \* thirty seconds
  Capacity, MaxOperations, MaxWakes,
  MaxRevision, MaxTime, \* bounds: revisions asked for, the clock
  None

Kinds == {"issue", "register", "wake", "revoke"}

\* What the decoders of the service admit: a route and the fields it has.
Request == [kind : Kinds, purpose : Purposes, op : Ops \cup {None},
            generation : Generations \cup {None}, revision : 0 .. MaxRevision]
WellFormed(r) ==
  /\ r.kind \in {"register", "wake"} => r.op # None /\ r.generation # None /\ r.revision > 0
  /\ r.kind \in {"issue", "revoke"} => r.op = None /\ r.generation = None /\ r.revision = 0

ASSUME ConstantsAssumption ==
  /\ None \notin Calls /\ \A c \in Calls : AsksOf[c] \subseteq {r \in Request : WellFormed(r)}
  /\ Expiry \in [Purposes -> Nat]
  /\ DOMAIN HostOf = Purposes
  /\ {Window, Capacity, MaxOperations, MaxWakes, MaxRevision, MaxTime} \subseteq Nat

VARIABLES
  purposes,  \* host_app_wake_purposes
  ops,       \* host_app_wake_operations
  calls,     \* the requests
  now

vars == <<purposes, ops, calls, now>>

\* token: a ciphertext is stored; revision 0: no generation yet.
Purpose == [withdrawn : BOOLEAN, generation : Generations \cup {None}, revision : 0 .. MaxRevision,
            token : BOOLEAN, claim : Calls]

InFlight == {"reserved", "dispatch_started"}
Counted == InFlight \cup {"provider_accepted", "provider_rejected", "unknown", "not_sent"}
Operation == [kind : {"register", "wake"}, claim : Calls, generation : Generations,
              revision : 1 .. MaxRevision, accepted : Nat, expires : Nat,
              outcome : Counted \cup {"conflict", "registered", "coalesced", "expired"}]

\* No row is the missing one, and a history has finitely many operations.
ASSUME NoneAssumption == None \notin Purpose \cup Operation \cup {"accepted", "gone", "rejected"}
ASSUME FiniteAssumption == IsFiniteSet(Ops)

Call == [pc : {"idle", "admit", "issue", "register", "withdraw", "expire", "reserve",
               "reread", "mark", "send", "sent", "invalidate", "finish", "unsent",
               "unknown", "issued", "done"},
         kind : Kinds \cup {None}, purpose : Purposes \cup {None}, op : Ops \cup {None},
         generation : Generations \cup {None}, revision : 0 .. MaxRevision,
         captured : Nat, clock : Nat, sent : BOOLEAN,
         answer : {"accepted", "gone", "rejected", None}]

Idle == [pc |-> "idle", kind |-> None, purpose |-> None, op |-> None, generation |-> None,
         revision |-> 0, captured |-> 0, clock |-> 0, sent |-> FALSE, answer |-> None]

Goto(c, pc) == calls' = [calls EXCEPT ![c].pc = pc, ![c].clock = now]
\* A request that is over: what it read of the clock is of no account, unless
\* that was when it sent.
End(c) == calls' = [calls EXCEPT ![c].pc = "done", ![c].captured = 0,
                                 ![c].clock = IF calls[c].sent THEN @ ELSE 0]

\* A guard reads the clock after the last step and before the statement runs.
Clocks(c) == calls[c].clock .. now

IsLive(p, at) == purposes[p] # None /\ ~purposes[p].withdrawn /\ at < Expiry[p]

Smallest(a, b) == IF a <= b THEN a ELSE b
\* Until when the wake of a call may be sent: from its first reading on.
Deadline(c) == Smallest(calls[c].captured + Window, Expiry[calls[c].purpose])

(***************************************************************************)
(* The statements of the store.                                            *)
(***************************************************************************)
OpRows(p) == {o \in Ops : ops[p][o] # None}

\* The claim every operation starts with.
MayClaim(q, at) ==
  /\ IsLive(q.purpose, at) /\ ops[q.purpose][q.op] = None
  /\ Cardinality(OpRows(q.purpose)) < MaxOperations

Claimed(c, accepted, expires, outcome) ==
  LET q == calls[c]
  IN [ops EXCEPT ![q.purpose][q.op] =
       [kind |-> q.kind, claim |-> c, generation |-> q.generation, revision |-> q.revision,
        accepted |-> accepted, expires |-> expires, outcome |-> outcome]]

\* The purpose holds the token the request names.
IsCurrent(q, at) ==
  LET row == purposes[q.purpose]
  IN /\ IsLive(q.purpose, at) /\ row.token
     /\ row.generation = q.generation /\ row.revision = q.revision

CountedWakes(p) == {o \in OpRows(p) : ops[p][o].kind = "wake" /\ ops[p][o].outcome \in Counted}

QuietPurpose(p, at) == \A o \in CountedWakes(p) : ops[p][o].accepted <= at - Window

\* No wake of any purpose of the host counts within the window before at.
Quiet(p, at) ==
  \A r \in Purposes : HostOf[r] = HostOf[p] =>
    \A o \in CountedWakes(r) : ops[r][o].accepted <= at - Window

\* The next revision, of the same generation unless it is the first.
MayRotate(q) ==
  LET row == purposes[q.purpose]
  IN /\ row.revision = q.revision - 1
     /\ row.revision = 0 \/ row.generation = q.generation

(***************************************************************************)
(* The service.                                                            *)
(***************************************************************************)
Arrive(c) ==
  /\ calls[c].pc = "idle"
  /\ \E r \in AsksOf[c] :
       calls' = [calls EXCEPT ![c] =
         [Idle EXCEPT !.kind = r.kind, !.purpose = r.purpose, !.op = r.op,
                      !.generation = r.generation, !.revision = r.revision,
                      !.captured = now, !.clock = now,
                      !.pc = IF r.kind = "issue" THEN "issue" ELSE "admit"]]
  /\ UNCHANGED <<purposes, ops, now>>

Issue(c) ==
  LET p == calls[c].purpose
      room == Cardinality({r \in Purposes : purposes[r] # None}) < Capacity
  IN /\ calls[c].pc = "issue"
     /\ \E at \in Clocks(c) :
          IF purposes[p] = None /\ room /\ at < Expiry[p]
            THEN /\ purposes' = [purposes EXCEPT ![p] =
                      [withdrawn |-> FALSE, generation |-> None, revision |-> 0,
                       token |-> FALSE, claim |-> c]]
                 /\ Goto(c, "issued") \/ End(c)
            ELSE UNCHANGED purposes /\ End(c)
     /\ UNCHANGED <<ops, now>>

\* Withdrawal only needs the credential; the rest needs a live purpose.  A
\* repeated operation is only answered.  A new registration is admitted by the
\* native port, or not; a new wake may be late already.  (Two reads; what
\* changes after them the statements check again.)
Admit(c) ==
  LET q == calls[c]
      row == purposes[q.purpose]
  IN /\ q.pc = "admit"
     /\ \/ row # None /\ q.kind = "revoke" /\ Goto(c, "withdraw")
        \/ /\ row # None /\ q.kind # "revoke" /\ IsLive(q.purpose, now)
           /\ ops[q.purpose][q.op] = None
           /\ Goto(c, IF q.kind = "register" THEN "register"
                      ELSE IF now < Deadline(c) THEN "reserve" ELSE "expire")
     /\ UNCHANGED <<purposes, ops, now>>

Withdraw(c) ==
  /\ calls[c].pc = "withdraw" /\ End(c)
  /\ purposes' = [purposes EXCEPT ![calls[c].purpose].withdrawn = TRUE,
                                  ![calls[c].purpose].token = FALSE]
  /\ UNCHANGED <<ops, now>>

\* The claim, the rotation, and the operation settled, in one batch.
Register(c) ==
  LET q == calls[c]
  IN /\ q.pc = "register" /\ End(c)
     /\ \E at \in Clocks(c) :
          IF MayClaim(q, at)
            THEN IF MayRotate(q)
                   THEN /\ ops' = Claimed(c, at, Expiry[q.purpose], "registered")
                        /\ purposes' = [purposes EXCEPT ![q.purpose] =
                             [@ EXCEPT !.generation = q.generation, !.revision = q.revision,
                                       !.token = TRUE, !.claim = c]]
                   ELSE /\ ops' = Claimed(c, at, Expiry[q.purpose], "conflict")
                        /\ UNCHANGED purposes
            ELSE UNCHANGED <<purposes, ops>>
     /\ UNCHANGED now

\* expireWake: what came too late keeps its first deadline.
Expire(c) ==
  /\ calls[c].pc = "expire" /\ End(c)
  /\ \E at \in Clocks(c) :
       ops' = IF MayClaim(calls[c], at)
                THEN Claimed(c, calls[c].captured, Deadline(c), "expired") ELSE ops
  /\ UNCHANGED <<purposes, now>>

\* The claim and its outcome, all at the first reading of the clock.
ReservedOutcome(q) ==
  LET fits == IsCurrent(q, q.captured) /\ Cardinality(CountedWakes(q.purpose)) < MaxWakes
  IN IF ~Quiet(q.purpose, q.captured) THEN "coalesced"
     ELSE IF fits THEN "reserved" ELSE "conflict"

Reserve(c) ==
  LET q == calls[c]
  IN /\ q.pc = "reserve" /\ Goto(c, "reread")
     /\ ops' = IF MayClaim(q, q.captured)
                 THEN Claimed(c, q.captured, Deadline(c), ReservedOutcome(q)) ELSE ops
     /\ UNCHANGED <<purposes, now>>

Owns(c) ==
  LET row == ops[calls[c].purpose][calls[c].op]
  IN row # None /\ row.claim = c

\* Read the operation and the row, unseal the token, authorize; every await is
\* followed by the guard and the deadline.
Prepare(c) ==
  LET q == calls[c]
  IN /\ q.pc = "reread"
     /\ IF ~Owns(c) \/ ops[q.purpose][q.op].outcome # "reserved" THEN End(c)
        ELSE Goto(c, IF IsCurrent(q, now) /\ now < Deadline(c) THEN "mark" ELSE "unsent")
     /\ UNCHANGED <<purposes, ops, now>>

MayMark(c, at) ==
  LET q == calls[c]
  IN /\ Owns(c) /\ ops[q.purpose][q.op].outcome = "reserved" /\ at < ops[q.purpose][q.op].expires
     /\ IsCurrent(q, at)

\* The marker of the one attempt; without its answer nothing is sent.
Mark(c) ==
  LET q == calls[c]
  IN /\ calls[c].pc = "mark"
     /\ \E at \in Clocks(c) :
          IF at >= Deadline(c) THEN UNCHANGED ops /\ Goto(c, "unknown")
          ELSE IF MayMark(c, at)
            THEN /\ ops' = [ops EXCEPT ![q.purpose][q.op].outcome = "dispatch_started"]
                 /\ Goto(c, "send") \/ Goto(c, "unknown")
            ELSE UNCHANGED ops /\ End(c)
     /\ UNCHANGED <<purposes, now>>

Fetch(c) ==
  /\ calls[c].pc = "send"
  /\ IF now < Deadline(c)
       THEN calls' = [calls EXCEPT ![c].pc = "sent", ![c].clock = now, ![c].sent = TRUE]
       ELSE Goto(c, "unsent")
  /\ UNCHANGED <<purposes, ops, now>>

\* The provider answers: 200, 410, or another status.  The call's clock stays
\* that of the sending.
Answer(c) ==
  /\ calls[c].pc = "sent"
  /\ \E answer \in {"accepted", "gone", "rejected"} :
       calls' = [calls EXCEPT ![c].pc = IF answer = "gone" THEN "invalidate" ELSE "finish",
                              ![c].answer = answer]
  /\ UNCHANGED <<purposes, ops, now>>

IsSentAny(q) == TRUE
\* The refused token is the one that is stored.
IsSent(q) ==
  purposes[q.purpose].generation = q.generation /\ purposes[q.purpose].revision = q.revision

Invalidate(c) ==
  LET q == calls[c]
  IN /\ q.pc = "invalidate"
     /\ purposes' = IF IsSent(q) THEN [purposes EXCEPT ![q.purpose].token = FALSE] ELSE purposes
     /\ \E pc \in {"finish", "unknown"} : calls' = [calls EXCEPT ![c].pc = pc]
     /\ UNCHANGED <<ops, now>>

Answered(q) == IF q.answer = "accepted" THEN "provider_accepted" ELSE "provider_rejected"

OutcomeForgiving(q) == IF q.pc = "finish" THEN Answered(q) ELSE "not_sent"

OutcomeOf(q) ==
  CASE q.pc = "finish"  -> Answered(q)
    [] q.pc = "unsent"  -> "not_sent"
    [] q.pc = "unknown" -> "unknown"

Finish(c) ==
  LET q == calls[c]
  IN /\ q.pc \in {"finish", "unsent", "unknown"}
     /\ End(c)
     /\ ops' = IF Owns(c) /\ ops[q.purpose][q.op].outcome \in InFlight
                 THEN [ops EXCEPT ![q.purpose][q.op].outcome = OutcomeOf(q)] ELSE ops
     /\ UNCHANGED <<purposes, now>>

\* A guard, a port or a statement inside send() throws: caught.
Break(c) ==
  /\ \/ calls[c].pc \in {"reread", "send"} /\ Owns(c)
        /\ calls' = [calls EXCEPT ![c].pc = "unsent"]
     \/ calls[c].pc \in {"mark", "sent", "invalidate"}
        /\ calls' = [calls EXCEPT ![c].pc = "unknown"]
  /\ UNCHANGED <<purposes, ops, now>>

\* The request ends with an error, or the isolate does.
Drop(c) ==
  /\ calls[c].pc \notin {"idle", "issued", "done"}
  /\ End(c)
  /\ UNCHANGED <<purposes, ops, now>>

Tick == now < MaxTime /\ now' = now + 1 /\ UNCHANGED <<purposes, ops, calls>>

Init ==
  /\ purposes = [p \in Purposes |-> None]
  /\ ops = [p \in Purposes |-> [o \in Ops |-> None]]
  /\ calls = [c \in Calls |-> Idle] /\ now = 0

Next ==
  \/ \E c \in Calls :
       \/ Arrive(c) \/ Issue(c) \/ Admit(c) \/ Withdraw(c) \/ Register(c) \/ Expire(c)
       \/ Reserve(c) \/ Prepare(c) \/ Mark(c) \/ Fetch(c) \/ Answer(c) \/ Invalidate(c) \/ Finish(c) \/ Break(c) \/ Drop(c)
  \/ Tick

Spec == Init /\ [][Next]_vars

(***************************************************************************)
(* Properties.                                                             *)
(***************************************************************************)
TypeOK ==
  /\ purposes \in [Purposes -> Purpose \cup {None}]
  /\ ops \in [Purposes -> [Ops -> Operation \cup {None}]]
  /\ calls \in [Calls -> Call] /\ now \in 0 .. MaxTime

Sent == {c \in Calls : calls[c].sent}

\* A host is not woken more often than its rate, whatever purpose asks and
\* however late the requests are that had been accepted before: two wakes are
\* accepted at least a window apart, and no three are sent within one window.
\* (Two may be sent right after each other.)
Spacing ==
  /\ \A p, r \in Purposes : HostOf[p] = HostOf[r] =>
       \A o \in CountedWakes(p), n \in CountedWakes(r) : <<p, o>> # <<r, n>> =>
         \/ ops[p][o].accepted - ops[r][n].accepted >= Window
         \/ ops[r][n].accepted - ops[p][o].accepted >= Window
  /\ \A a, b, c \in Sent :
       /\ Cardinality({a, b, c}) = 3
       /\ \A x, y \in {a, b, c} : HostOf[calls[x].purpose] = HostOf[calls[y].purpose]
       /\ calls[a].clock <= calls[b].clock /\ calls[b].clock <= calls[c].clock
       => calls[c].clock - calls[a].clock > Window

SentFor(p, o) == {c \in Sent : calls[c].purpose = p /\ calls[c].op = o}

\* A wake is sent at most once, whoever repeats it and wherever a request is
\* broken off, and the history never denies it: what was sent is under way,
\* accepted, rejected or unknown, and "accepted" is only said of what was.
Truthful ==
  /\ \A c \in Sent :
       LET row == ops[calls[c].purpose][calls[c].op]
       IN /\ row # None /\ row.outcome \in Counted \ {"reserved", "not_sent"}
          /\ SentFor(calls[c].purpose, calls[c].op) = {c}
  /\ \A p \in Purposes, o \in Ops : ops[p][o] # None /\ ops[p][o].outcome = "provider_accepted"
       => \E c \in SentFor(p, o) : calls[c].answer = "accepted"

\* The registrations of a purpose are its revisions, each by one operation and
\* all of the generation that was first; and one credential is answered.
RevisionChain ==
  \A p \in Purposes : purposes[p] # None =>
    LET registered == {o \in OpRows(p) : ops[p][o].outcome = "registered"}
    IN /\ Cardinality(registered) = purposes[p].revision
       /\ {ops[p][o].revision : o \in registered} = 1 .. purposes[p].revision
       /\ \A o \in registered : ops[p][o].generation = purposes[p].generation
       /\ Cardinality({c \in Calls : calls[c].pc = "issued" /\ calls[c].purpose = p}) <= 1

\* A registered token goes only with a withdrawal, or with a 410 for this very
\* revision: a late refusal of a token that was rotated leaves the new one. And
\* after a withdrawal there is none, whatever registration was on its way.
TokenForCause ==
  \A p \in Purposes : purposes[p] # None =>
    /\ purposes[p].withdrawn => ~purposes[p].token
    /\ ~purposes[p].token /\ ~purposes[p].withdrawn /\ purposes[p].revision > 0 =>
         \E c \in Calls : /\ calls[c].purpose = p /\ calls[c].answer = "gone"
                          /\ calls[c].generation = purposes[p].generation
                          /\ calls[c].revision = purposes[p].revision
\* The token of a purpose has one line of descent and goes only for a cause.
OneLine == RevisionChain /\ TokenForCause
=============================================================================
