-------------------------- MODULE SurfacePushProofs --------------------------
(***************************************************************************)
(* Proofs about surface push.  The inductive invariant says of each call   *)
(* what it may rely on at its step: from the reservation of its event to   *)
(* the outcome the row bears its claim, and nobody else writes it.         *)
(***************************************************************************)
EXTENDS Surface, TLAPS, FiniteSetTheorems

\* The steps of a call that owns the row of its event.
Holding == {"authorize", "dispatch", "send", "sent", "invalidate", "finish", "unsent", "unknown"}
EventSteps == {"read", "reserve", "reread"} \cup Holding
HolderSteps == {"lookup", "write"} \cup EventSteps
IssuerSteps == {"challenge", "issue", "withdraw"}
\* The steps at which the request has left; before them it has not.
Left == {"sent", "invalidate", "finish"}
Open == {"unknown", "done"} \cup Left

\* A call has the fields of its kind.
ShapeOf(c) ==
  LET q == calls[c]
  IN /\ q.pc \in HolderSteps => /\ q.kind \in {"register", "revoke", "event"} /\ q.op \in Ops
                                /\ q.target \in Targets /\ q.revision \in Revisions
     /\ q.pc = "write" => q.kind \in {"register", "revoke"}
     /\ q.pc \in EventSteps => q.kind = "event"
     /\ q.pc \in IssuerSteps => q.op \in IssueOps
Shape == \A c \in Calls : ShapeOf(c)

\* What a call may rely on.
ClaimOf(c) ==
  LET q == calls[c]
      row == ops[q.op]
  IN /\ q.pc \in Holding => row # None /\ row.claim = c
     /\ q.pc \in {"authorize", "dispatch", "unsent"} => row.outcome = "event_reserved"
     /\ q.pc \in {"send"} \cup Left => row.outcome = "dispatch_started"
     /\ q.pc \in Left => q.sent
     /\ q.pc = "invalidate" => q.answer = "refused"
     /\ q.pc \notin Open => ~q.sent
     /\ q.sent => /\ q.op \in Ops /\ row # None /\ row.claim = c
                  /\ row.outcome \in Counted \ {"event_reserved"}

\* What a row says of the call that claimed it.
RowOf(o) ==
  ops[o] # None =>
    LET row == ops[o]
        q == calls[row.claim]
    IN /\ q.pc # "idle" /\ q.op = o
       /\ row.outcome \in Counted => row.kind = "event"
       /\ row.outcome = "provider_accepted" => q.sent /\ q.answer = "accepted"
Ledger == (\A c \in Calls : ClaimOf(c)) /\ (\A o \in Ops : RowOf(o))

-----------------------------------------------------------------------------
\* The steps that write no table.
Reads(c) ==
  \/ AskIssuer(c) \/ Arrive(c) \/ Lookup(c) \/ ReadTarget(c) \/ Reread(c)
  \/ Authorize(c) \/ Fetch(c) \/ Answer(c) \/ Break(c) \/ Crash(c)

\* A step that only reads leaves the tables as they are.
LEMMA ReadsLeaveTables ==
  ASSUME NEW c \in Calls, Reads(c)
  PROVE  UNCHANGED <<revoked, challenges, caps, targets, ops, now>>
BY DEF Reads, AskIssuer, Arrive, Lookup, ReadTarget, Reread, Authorize, Fetch, Answer, Break, Crash

\* What a step of a call leaves of its request.
Same(q, r) ==
  /\ q.kind = r.kind /\ q.op = r.op /\ q.target = r.target /\ q.revision = r.revision
  /\ q.expires = r.expires
Still(q, r) == Same(q, r) /\ q.sent = r.sent /\ q.answer = r.answer

Steps == {"done"} \cup IssuerSteps \cup HolderSteps

\* Only the call that takes a step changes.
LEMMA CallFact ==
  ASSUME TypeOK, NEW c \in Calls, NEW r \in Call, calls' = [calls EXCEPT ![c] = r]
  PROVE  /\ calls' \in [Calls -> Call] /\ calls'[c] = r
         /\ \A d \in Calls : d # c => calls'[d] = calls[d]
BY DEF TypeOK

\* Goto changes the step and the clock of one call.
LEMMA GotoFact ==
  ASSUME TypeOK, NEW c \in Calls, NEW pc \in Steps, Goto(c, pc)
  PROVE  /\ calls' \in [Calls -> Call] /\ calls'[c].pc = pc /\ Still(calls'[c], calls[c])
         /\ \A d \in Calls : d # c => calls'[d] = calls[d]
<1> DEFINE r == [calls[c] EXCEPT !.pc = pc, !.clock = now]
<1>1. calls' = [calls EXCEPT ![c] = r]
  BY DEF Goto
<1>2. r \in Call /\ r.pc = pc /\ Still(r, calls[c])
  <2>1. now \in Nat /\ calls[c] \in Call
    BY ConstantsAssumption DEF TypeOK
  <2>. QED BY <2>1 DEF Call, Still, Same, Steps, IssuerSteps, HolderSteps, EventSteps, Holding
<1>. HIDE DEF r
<1>. QED BY <1>1, <1>2, CallFact

\* A request arrives with the fields of its kind.
LEMMA ArriveFact ==
  ASSUME TypeOK, NEW c \in Calls, AskIssuer(c) \/ Arrive(c)
  PROVE  /\ calls' \in [Calls -> Call] /\ ~calls'[c].sent /\ calls'[c].answer = None /\ calls[c].pc = "idle"
         /\ calls'[c].pc \in IssuerSteps \cup {"lookup"}
         /\ calls'[c].pc \in IssuerSteps => calls'[c].op \in IssueOps
         /\ calls'[c].pc = "lookup" =>
              /\ calls'[c].kind \in {"register", "revoke", "event"} /\ calls'[c].op \in Ops
              /\ calls'[c].target \in Targets /\ calls'[c].revision \in Revisions
         /\ \A d \in Calls : d # c => calls'[d] = calls[d]
<1>0. now \in Nat /\ Expiries \cup {0} \subseteq Nat /\ Revisions \subseteq Nat
  BY ConstantsAssumption DEF TypeOK, Revisions
<1>1. CASE AskIssuer(c)
  <2>1. PICK i \in IssueOps, kind \in IssuerSteps :
          calls' = [calls EXCEPT ![c] = [Idle EXCEPT !.pc = kind, !.kind = kind, !.op = i, !.clock = now]]
    BY <1>1 DEF AskIssuer, IssuerSteps
  <2> DEFINE r == [Idle EXCEPT !.pc = kind, !.kind = kind, !.op = i, !.clock = now]
  <2>2. r \in Call /\ r.pc = kind /\ r.op = i /\ ~r.sent /\ r.answer = None
    BY <1>0 DEF Call, Idle, IssuerSteps, Kinds
  <2>. HIDE DEF r
  <2>3. calls' = [calls EXCEPT ![c] = r]
    BY <2>1 DEF r
  <2>4. /\ calls' \in [Calls -> Call] /\ calls'[c] = r
        /\ \A d \in Calls : d # c => calls'[d] = calls[d]
    BY <2>2, <2>3, CallFact
  <2>. QED BY <1>1, <2>2, <2>4 DEF AskIssuer, IssuerSteps
<1>2. CASE Arrive(c)
  <2>1. PICK kind \in KindsOf[c] \cap {"register", "revoke", "event"}, o \in Ops, t \in Targets,
             revision \in Revisions, expires \in Expiries \cup {0} :
          /\ IsDecoded(kind, o, expires)
          /\ calls' = [calls EXCEPT ![c] =
               [Idle EXCEPT !.pc = "lookup", !.kind = kind, !.op = o, !.target = t,
                            !.revision = revision, !.expires = expires, !.clock = now]]
    BY <1>2, Zenon DEF Arrive
  <2> DEFINE r == [Idle EXCEPT !.pc = "lookup", !.kind = kind, !.op = o, !.target = t,
                               !.revision = revision, !.expires = expires, !.clock = now]
  <2>2. /\ r \in Call /\ r.pc = "lookup" /\ r.kind = kind /\ r.op = o /\ r.target = t
        /\ r.revision = revision /\ ~r.sent /\ r.answer = None
    BY <1>0 DEF Call, Idle, Kinds
  <2>. HIDE DEF r
  <2>3. calls' = [calls EXCEPT ![c] = r]
    BY <2>1 DEF r
  <2>4. /\ calls' \in [Calls -> Call] /\ calls'[c] = r
        /\ \A d \in Calls : d # c => calls'[d] = calls[d]
    BY <2>2, <2>3, CallFact
  <2>. QED BY <1>2, <2>2, <2>4 DEF Arrive, IssuerSteps
<1>. QED BY <1>1, <1>2

\* A call on the way to its event, and what the provider answers it.
LEMMA EventFact ==
  ASSUME TypeOK, Shape, NEW c \in Calls, ReadTarget(c) \/ Lookup(c) \/ Fetch(c) \/ Answer(c)
  PROVE  /\ calls' \in [Calls -> Call] /\ Same(calls'[c], calls[c])
         /\ \A d \in Calls : d # c => calls'[d] = calls[d]
         /\ Lookup(c) => /\ calls'[c].pc \in {"done", "write", "read"} /\ Still(calls'[c], calls[c])
                         /\ calls'[c].pc = "write" => calls[c].kind # "event"
                         /\ calls'[c].pc = "read" => calls[c].kind = "event"
         /\ ReadTarget(c) => calls'[c].pc \in {"reserve", "done"} /\ Still(calls'[c], calls[c])
         /\ Fetch(c) => /\ calls'[c].pc \in {"sent", "unknown"} /\ calls'[c].answer = calls[c].answer
                        /\ calls'[c].sent = (calls'[c].pc = "sent" \/ calls[c].sent)
         /\ Answer(c) => /\ calls'[c].sent = calls[c].sent
                         /\ calls'[c].pc \in {"invalidate", "finish"}
                         /\ calls'[c].pc = "invalidate" => calls'[c].answer = "refused"
<1>0. now \in Nat /\ calls[c] \in Call
  BY ConstantsAssumption DEF TypeOK
<1>1. CASE Lookup(c)
  <2>1. calls[c].pc = "lookup"
    BY <1>1 DEF Lookup
  <2>2. CASE calls[c].kind # "event" \/ ops[calls[c].op] # None
    <3>1. \E pc \in {"done", "write"} : Goto(c, pc) /\ (pc = "write" => calls[c].kind # "event")
      BY <1>1, <2>2 DEF Lookup
    <3>2. {"done", "write"} \subseteq Steps
      BY DEF Steps, HolderSteps
    <3>. QED BY <2>1, <3>1, <3>2, GotoFact DEF Still, Fetch, Answer, ReadTarget
  <2>3. CASE calls[c].kind = "event" /\ ops[calls[c].op] = None
    <3> DEFINE r == [calls[c] EXCEPT !.pc = "read"]
    <3>1. calls' = [calls EXCEPT ![c] = r]
      BY <1>1, <2>3 DEF Lookup
    <3>2. r \in Call /\ r.pc = "read" /\ Still(r, calls[c])
      BY <1>0 DEF Call, Still, Same
    <3>. HIDE DEF r
    <3>. QED BY <2>1, <2>3, <3>1, <3>2, CallFact DEF Still, Fetch, Answer, ReadTarget
  <2>. QED BY <2>2, <2>3
<1>2. CASE ReadTarget(c)
  <2>1. calls[c].pc = "read"
    BY <1>2 DEF ReadTarget
  <2>2. CASE IsCurrent(calls[c], calls[c].clock)
    <3> DEFINE until == Smallest(targets[calls[c].target].expires, Deadline[calls[c].op])
               r == [calls[c] EXCEPT !.pc = "reserve", !.clock = now, !.until = until]
    <3>1. calls' = [calls EXCEPT ![c] = r]
      BY <1>2, <2>2 DEF ReadTarget
    <3>2. until \in Nat
      BY <2>1, <2>2, ConstantsAssumption
      DEF IsCurrent, TypeOK, Target, Smallest, Shape, ShapeOf, HolderSteps, EventSteps
    <3>3. r \in Call /\ r.pc = "reserve" /\ Still(r, calls[c])
      BY <1>0, <3>2 DEF Call, Still, Same
    <3>. HIDE DEF r
    <3>. QED BY <2>1, <3>1, <3>3, CallFact DEF Still, Fetch, Answer, Lookup
  <2>3. CASE ~IsCurrent(calls[c], calls[c].clock)
    <3>1. Goto(c, "done") /\ "done" \in Steps
      BY <1>2, <2>3 DEF ReadTarget, Steps
    <3>. QED BY <2>1, <3>1, GotoFact DEF Still, Fetch, Answer, Lookup
  <2>. QED BY <2>2, <2>3
<1>3. CASE Fetch(c)
  <2>1. calls[c].pc = "send"
    BY <1>3 DEF Fetch
  <2>2. CASE now < calls[c].until
    <3> DEFINE r == [calls[c] EXCEPT !.pc = "sent", !.clock = now, !.sent = TRUE]
    <3>1. calls' = [calls EXCEPT ![c] = r]
      BY <1>3, <2>2 DEF Fetch
    <3>2. r \in Call /\ r.pc = "sent" /\ Same(r, calls[c]) /\ r.sent = TRUE /\ r.answer = calls[c].answer
      BY <1>0 DEF Call, Same
    <3>. HIDE DEF r
    <3>. QED BY <2>1, <3>1, <3>2, CallFact DEF Lookup, Answer, ReadTarget
  <2>3. CASE ~(now < calls[c].until)
    <3>1. Goto(c, "unknown") /\ "unknown" \in Steps
      BY <1>3, <2>3 DEF Fetch, Steps, HolderSteps, EventSteps, Holding
    <3>2. calls[c].sent \in BOOLEAN
      BY <1>0 DEF Call
    <3>. QED BY <2>1, <3>1, <3>2, GotoFact DEF Still, Lookup, Answer, ReadTarget
  <2>. QED BY <2>2, <2>3
<1>4. CASE Answer(c)
  <2>1. calls[c].pc = "sent"
    BY <1>4 DEF Answer
  <2>2. PICK answer \in {"accepted", "refused", "rejected"} :
          calls' = [calls EXCEPT ![c].pc = IF answer = "refused" THEN "invalidate" ELSE "finish",
                                 ![c].clock = now, ![c].answer = answer]
    BY <1>4 DEF Answer
  <2> DEFINE pc == IF answer = "refused" THEN "invalidate" ELSE "finish"
             r == [calls[c] EXCEPT !.pc = pc, !.clock = now, !.answer = answer]
  <2>3. calls' = [calls EXCEPT ![c] = r]
    BY <2>2
  <2>4. r \in Call /\ r.pc = pc /\ Same(r, calls[c]) /\ r.sent = calls[c].sent /\ r.answer = answer
    BY <1>0 DEF Call, Same
  <2>. HIDE DEF r
  <2>. QED BY <2>1, <2>3, <2>4, CallFact DEF Lookup, Fetch, ReadTarget
<1>. QED BY <1>1, <1>2, <1>3, <1>4

-----------------------------------------------------------------------------
\* Where the other steps lead.
Next1(pc) ==
  CASE pc \in IssuerSteps \cup {"write"} -> {"done"}
    [] pc = "reserve"    -> {"reread"}
    [] pc = "reread"     -> {"authorize", "done"}
    [] pc = "authorize"  -> {"dispatch", "unsent"}
    [] pc = "dispatch"   -> {"send", "unsent"}
    [] pc = "invalidate" -> {"finish", "unknown"}
    [] pc = "finish"     -> {"done", "unknown"}
    [] pc \in {"unsent", "unknown"} -> {"done"}

Moves(c) ==
  \/ OpenChallenge(c) \/ Issue(c) \/ Withdraw(c) \/ Register(c) \/ Revoke(c) \/ ReserveEvent(c)
  \/ Reread(c) \/ Authorize(c) \/ Dispatch(c) \/ Invalidate(c) \/ Finish(c) \/ Break(c) \/ Crash(c)

\* The steps that only move the program of their call.
LEMMA MoveFact ==
  ASSUME TypeOK, NEW c \in Calls, Moves(c)
  PROVE  \E pc \in Steps :
           /\ Goto(c, pc)
           /\ \/ pc \in Next1(calls[c].pc) /\ calls[c].pc \notin {"idle", "lookup", "read", "send", "sent", "done"}
              \/ pc = "unknown" /\ calls[c].pc \in {"send", "sent", "invalidate", "finish"}
              \/ pc = "done" /\ calls[c].pc # "idle"
<1>1. CASE OpenChallenge(c) \/ Issue(c) \/ Withdraw(c) \/ Register(c) \/ Revoke(c) \/ ReserveEvent(c)
  BY <1>1 DEF OpenChallenge, Issue, Withdraw, Register, Revoke, ReserveEvent, Next1, Steps, IssuerSteps,
              HolderSteps, EventSteps, Holding
<1>2. CASE Reread(c) \/ Authorize(c) \/ Dispatch(c)
  BY <1>2 DEF Reread, Authorize, Dispatch, Next1, Steps, IssuerSteps, HolderSteps, EventSteps, Holding
<1>3. CASE Invalidate(c) \/ Finish(c)
  BY <1>3 DEF Invalidate, Finish, Next1, Steps, IssuerSteps, HolderSteps, EventSteps, Holding
<1>4. CASE Break(c) \/ Crash(c)
  BY <1>4 DEF Break, Crash, Next1, Steps, IssuerSteps, HolderSteps, EventSteps, Holding
<1>. QED BY <1>1, <1>2, <1>3, <1>4 DEF Moves

-----------------------------------------------------------------------------
\* A step of a call, in the words of the lemmas above.
Step(c) == AskIssuer(c) \/ Arrive(c) \/ ReadTarget(c) \/ Lookup(c) \/ Fetch(c) \/ Answer(c) \/ Moves(c)

LEMMA NextIsStep ==
  ASSUME Next
  PROVE  (\E c \in Calls : Step(c)) \/ Tick
BY DEF Next, Step, Moves

\* Every step keeps the calls typed and in shape, and the requests of others.
LEMMA StepFact ==
  ASSUME TypeOK, Shape, NEW c \in Calls, Step(c)
  PROVE  /\ calls' \in [Calls -> Call] /\ Shape'
         /\ \A d \in Calls : d # c => calls'[d] = calls[d]
<1> SUFFICES /\ calls' \in [Calls -> Call] /\ ShapeOf(c)'
             /\ \A d \in Calls : d # c => calls'[d] = calls[d]
  <2>1. ASSUME NEW d \in Calls, d # c, calls'[d] = calls[d]
        PROVE  ShapeOf(d)'
    BY <2>1 DEF Shape, ShapeOf
  <2>. QED BY <2>1 DEF Shape, ShapeOf
<1>0. ShapeOf(c)
  BY DEF Shape
<1>1. CASE AskIssuer(c) \/ Arrive(c)
  BY <1>1, ArriveFact DEF ShapeOf, HolderSteps, IssuerSteps, EventSteps, Holding
<1>2. CASE ReadTarget(c) \/ Lookup(c) \/ Fetch(c) \/ Answer(c)
  <2>1. /\ calls' \in [Calls -> Call] /\ Same(calls'[c], calls[c])
        /\ \A d \in Calls : d # c => calls'[d] = calls[d]
    BY <1>2, EventFact
  <2>2. CASE Lookup(c)
    <3>1. calls[c].pc = "lookup" /\ calls'[c].pc \in {"done", "write", "read"}
      BY <2>2, <1>2, EventFact DEF Lookup
    <3>. QED BY <2>1, <2>2, <3>1, <1>2, <1>0, EventFact
         DEF ShapeOf, Same, HolderSteps, IssuerSteps, EventSteps, Holding
  <2>3. CASE ReadTarget(c)
    <3>1. calls[c].pc = "read" /\ calls'[c].pc \in {"reserve", "done"}
      BY <2>3, <1>2, EventFact DEF ReadTarget
    <3>. QED BY <2>1, <3>1, <1>0 DEF ShapeOf, Same, HolderSteps, IssuerSteps, EventSteps, Holding
  <2>4. CASE Fetch(c)
    <3>1. calls[c].pc = "send" /\ calls'[c].pc \in {"sent", "unknown"}
      BY <2>4, <1>2, EventFact DEF Fetch
    <3>. QED BY <2>1, <3>1, <1>0 DEF ShapeOf, Same, HolderSteps, IssuerSteps, EventSteps, Holding
  <2>5. CASE Answer(c)
    <3>1. calls[c].pc = "sent" /\ calls'[c].pc \in {"invalidate", "finish"}
      BY <2>5, <1>2, EventFact DEF Answer
    <3>. QED BY <2>1, <3>1, <1>0 DEF ShapeOf, Same, HolderSteps, IssuerSteps, EventSteps, Holding
  <2>. QED BY <1>2, <2>2, <2>3, <2>4, <2>5
<1>3. CASE Moves(c)
  <2>1. PICK pc \in Steps :
          /\ Goto(c, pc)
          /\ \/ pc \in Next1(calls[c].pc) /\ calls[c].pc \notin {"idle", "lookup", "read", "send", "sent", "done"}
             \/ pc = "unknown" /\ calls[c].pc \in {"send", "sent", "invalidate", "finish"}
             \/ pc = "done" /\ calls[c].pc # "idle"
    BY <1>3, MoveFact
  <2>2. /\ calls' \in [Calls -> Call] /\ calls'[c].pc = pc /\ Still(calls'[c], calls[c])
        /\ \A d \in Calls : d # c => calls'[d] = calls[d]
    BY <2>1, GotoFact
  <2>3. pc \in EventSteps \cup {"done"} /\ (pc # "done" => calls[c].pc \in EventSteps)
    <3>1. calls[c].pc \in {"idle", "lookup", "write", "read", "reserve", "reread", "authorize",
               "dispatch", "send", "sent", "invalidate", "finish", "unsent", "unknown",
               "challenge", "issue", "withdraw", "done"}
      BY DEF TypeOK, Call
    <3>. QED BY <2>1, <3>1, <1>3 DEF Next1, IssuerSteps, EventSteps, Holding
  <2>. QED BY <1>0, <2>2, <2>3 DEF ShapeOf, Still, Same, HolderSteps, IssuerSteps, EventSteps, Holding
<1>. QED BY <1>1, <1>2, <1>3 DEF Step

-----------------------------------------------------------------------------
\* What a step writes into the ledger: the row of its own operation, as a claim
\* of one nobody has claimed, or as the next outcome of its own claim.
Running == {"event_reserved", "dispatch_started"}

ClaimsRow(c, row) ==
  LET q == calls[c]
  IN /\ row.claim = c /\ row.kind = q.kind /\ row.target = q.target /\ row.revision = q.revision
     /\ \/ q.pc = "write" /\ row.outcome \in {"registered", "revoked", "conflict"}
        \/ q.pc = "reserve" /\ row.outcome \in {"event_reserved", "conflict"}

Settles(c, row, new) ==
  /\ row # None /\ row.claim = c /\ row.outcome \in Running
  /\ new.kind = row.kind /\ new.target = row.target /\ new.revision = row.revision /\ new.claim = c
  /\ \/ calls[c].pc = "dispatch" /\ new.outcome = "dispatch_started"
     \/ calls[c].pc \in {"finish", "unsent", "unknown"} /\ new.outcome = OutcomeOf(calls[c])

\* The row of a claim.
LEMMA ClaimFact ==
  ASSUME TypeOK, Shape, NEW c \in Calls, calls[c].pc \in {"write", "reserve"}, ops[calls[c].op] = None,
         NEW outcome \in Outcomes, ops' = Claimed(c, outcome),
         \/ calls[c].pc = "write" /\ outcome \in {"registered", "revoked", "conflict"}
         \/ calls[c].pc = "reserve" /\ outcome \in {"event_reserved", "conflict"}
  PROVE  /\ ops' \in [Ops -> Operation \cup {None}]
         /\ \A o \in Ops : o # calls[c].op => ops'[o] = ops[o]
         /\ ops'[calls[c].op] \in Operation /\ ops'[calls[c].op].outcome = outcome
         /\ ClaimsRow(c, ops'[calls[c].op])
<1> DEFINE q == calls[c]
           row == [kind |-> q.kind, target |-> q.target, revision |-> q.revision,
                   claim |-> c, outcome |-> outcome]
<1>1. /\ q.op \in Ops /\ q.kind \in {"register", "revoke", "event"} /\ q.target \in Targets
      /\ q.revision \in Revisions
  BY DEF Shape, ShapeOf, HolderSteps, EventSteps
<1>2. row \in Operation /\ row.outcome = outcome /\ ClaimsRow(c, row)
  BY <1>1 DEF Operation, ClaimsRow
<1>3. ops' = [ops EXCEPT ![q.op] = row]
  BY DEF Claimed
<1>. HIDE DEF row
<1>. QED BY <1>1, <1>2, <1>3 DEF TypeOK

LEMMA RowFact ==
  ASSUME TypeOK, Shape, Ledger, NEW c \in Calls, Step(c)
  PROVE  /\ ops' \in [Ops -> Operation \cup {None}]
         /\ \A o \in Ops : ops'[o] # ops[o] =>
              /\ o = calls[c].op /\ ops'[o] \in Operation
              /\ (ops[o] = None /\ ClaimsRow(c, ops'[o])) \/ Settles(c, ops[o], ops'[o])
<1>1. CASE UNCHANGED ops
  BY <1>1 DEF TypeOK
<1>2. CASE Register(c)
  <2>1. CASE UNCHANGED ops
    BY <2>1, <1>1
  <2>2. CASE ~UNCHANGED ops
    <3> DEFINE outcome == IF MayRegister(calls[c], targets[calls[c].target]) THEN "registered"
                          ELSE IF targets[calls[c].target] # None /\ targets[calls[c].target].state = "revoked"
                            THEN "revoked" ELSE "conflict"
    <3>1. calls[c].pc = "write" /\ ops[calls[c].op] = None /\ ops' = Claimed(c, outcome)
      BY <1>2, <2>2 DEF Register, MayClaim
    <3>2. outcome \in {"registered", "revoked", "conflict"} /\ outcome \in Outcomes
      BY DEF Outcomes
    <3>. HIDE DEF outcome
    <3>. QED BY <3>1, <3>2, ClaimFact
  <2>. QED BY <2>1, <2>2
<1>3. CASE Revoke(c)
  <2>1. CASE UNCHANGED ops
    BY <2>1, <1>1
  <2>2. CASE ~UNCHANGED ops
    <3> DEFINE outcome == IF targets[calls[c].target] = None \/ targets[calls[c].target].revision = calls[c].revision
                            THEN "revoked" ELSE "conflict"
    <3>1. calls[c].pc = "write" /\ ops[calls[c].op] = None /\ ops' = Claimed(c, outcome)
      BY <1>3, <2>2 DEF Revoke, MayClaim
    <3>2. outcome \in {"registered", "revoked", "conflict"} /\ outcome \in Outcomes
      BY DEF Outcomes
    <3>. HIDE DEF outcome
    <3>. QED BY <3>1, <3>2, ClaimFact
  <2>. QED BY <2>1, <2>2
<1>4. CASE ReserveEvent(c)
  <2>1. CASE UNCHANGED ops
    BY <2>1, <1>1
  <2>2. CASE ~UNCHANGED ops
    <3>1. PICK at \in Clocks(c) : ops' = IF MayClaim(calls[c], at)
            THEN Claimed(c, IF IsCurrent(calls[c], at) /\ Cardinality(Spent(calls[c].op)) < MaxEvents
                              THEN "event_reserved" ELSE "conflict")
            ELSE ops
      BY <1>4 DEF ReserveEvent
    <3> DEFINE outcome == IF IsCurrent(calls[c], at) /\ Cardinality(Spent(calls[c].op)) < MaxEvents
                            THEN "event_reserved" ELSE "conflict"
    <3>2. calls[c].pc = "reserve" /\ ops[calls[c].op] = None /\ ops' = Claimed(c, outcome)
      BY <1>4, <2>2, <3>1 DEF ReserveEvent, MayClaim
    <3>3. outcome \in {"event_reserved", "conflict"} /\ outcome \in Outcomes
      BY DEF Outcomes, Counted
    <3>. HIDE DEF outcome
    <3>. QED BY <3>2, <3>3, ClaimFact
  <2>. QED BY <2>1, <2>2
<1>5. CASE Dispatch(c) \/ Finish(c)
  <2> DEFINE o == calls[c].op
             outcome == IF calls[c].pc = "dispatch" THEN "dispatch_started" ELSE OutcomeOf(calls[c])
  <2>1. CASE UNCHANGED ops
    BY <2>1, <1>1
  <2>2. CASE ~UNCHANGED ops
    <3>1. /\ ops' = [ops EXCEPT ![o].outcome = outcome]
          /\ ops[o].claim = c /\ ops[o].outcome \in Running
          /\ calls[c].pc \in {"dispatch", "finish", "unsent", "unknown"}
      BY <1>5, <2>2 DEF Dispatch, Finish, MayDispatch, MayFinish, Running
    <3>2. o \in Ops /\ outcome \in Outcomes
      BY <3>1 DEF Shape, ShapeOf, HolderSteps, EventSteps, Holding, OutcomeOf, Outcomes, Counted
    <3>3. ops[o] # None
      BY <3>1 DEF Ledger, ClaimOf, Holding
    <3> DEFINE row == [ops[o] EXCEPT !.outcome = outcome]
    <3>4. ops[o] \in Operation
      BY <3>2, <3>3 DEF TypeOK
    <3>5. /\ row \in Operation /\ row.outcome = outcome /\ row.claim = ops[o].claim /\ row.kind = ops[o].kind
          /\ row.target = ops[o].target /\ row.revision = ops[o].revision
      BY <3>2, <3>4 DEF Operation
    <3>6. ops' = [ops EXCEPT ![o] = row]
      BY <3>1
    <3>7. Settles(c, ops[o], row)
      BY <3>1, <3>3, <3>5 DEF Settles
    <3>. HIDE DEF row
    <3>. QED BY <3>2, <3>5, <3>6, <3>7 DEF TypeOK
  <2>. QED BY <2>1, <2>2
<1>6. CASE OpenChallenge(c) \/ Issue(c) \/ Withdraw(c) \/ Reread(c) \/ Authorize(c) \/ Invalidate(c) \/ Break(c) \/ Crash(c)
  BY <1>1, <1>6 DEF OpenChallenge, Issue, Withdraw, Reread, Authorize, Invalidate, Break, Crash
<1>7. CASE AskIssuer(c) \/ Arrive(c) \/ ReadTarget(c) \/ Lookup(c) \/ Fetch(c) \/ Answer(c)
  BY <1>1, <1>7 DEF AskIssuer, Arrive, ReadTarget, Lookup, Fetch, Answer
<1>. QED BY <1>2, <1>3, <1>4, <1>5, <1>6, <1>7 DEF Step, Moves
\* What a step means for the call that takes it: how its request changes, and
\* that it may only hold a row it has seen reserved.
LEMMA OwnFact ==
  ASSUME TypeOK, Shape, Ledger, NEW c \in Calls, Step(c)
  PROVE  LET q == calls[c]
             r == calls'[c]
         IN /\ r.pc # "idle"
            /\ q.pc # "idle" => Same(r, q)
            /\ r.pc \in Holding =>
                 q.pc \in Holding \/ (q.pc = "reread" /\ UNCHANGED ops /\ OwnsReservation(c, ops[q.op]))
            /\ r.pc = "authorize" => q.pc = "reread"
            /\ r.pc \in {"dispatch", "unsent"} => q.pc \in {"authorize", "dispatch"} /\ UNCHANGED ops
            /\ r.pc = "send" => q.pc = "dispatch" /\ ops'[q.op].outcome = "dispatch_started"
            /\ r.pc \in Left => q.pc \in {"send", "sent", "invalidate"} /\ UNCHANGED ops /\ r.sent
            /\ r.pc = "sent" => q.pc = "send"
            /\ r.pc = "invalidate" => r.answer = "refused"
            /\ q.pc = "idle" => r.answer = None
            /\ r.sent => q.sent \/ (q.pc = "send" /\ r.pc = "sent")
            /\ q.sent => r.sent
            /\ q.pc \notin {"idle", "sent"} => r.answer = q.answer
            /\ q.sent => r.pc \in Open<1> DEFINE q == calls[c]
           r == calls'[c]
<1>0. /\ q \in Call /\ q.sent \in BOOLEAN
      /\ q.pc \in Holding => ops[q.op] # None /\ ops[q.op].claim = c
      /\ q.pc \in Left => q.sent
      /\ q.sent => q.pc \in Open
      /\ q.pc = "invalidate" => q.answer = "refused"
  BY DEF TypeOK, Call, Ledger, ClaimOf
<1>1. CASE AskIssuer(c) \/ Arrive(c)
  <2>1. q.pc = "idle" /\ ~r.sent /\ r.answer = None /\ r.pc \in IssuerSteps \cup {"lookup"}
    BY <1>1, ArriveFact
  <2>. QED BY <2>1, <1>0 DEF IssuerSteps, Holding, Left, Open
<1>2. CASE ReadTarget(c) \/ Lookup(c)
  <2>1. q.pc \in {"read", "lookup"} /\ r.pc \in {"done", "write", "read", "reserve"} /\ Still(r, q)
    BY <1>2, EventFact DEF ReadTarget, Lookup
  <2>. QED BY <2>1, <1>0 DEF Still, Holding, Left, Open
<1>3. CASE Fetch(c)
  <2>1. /\ q.pc = "send" /\ Same(r, q) /\ r.pc \in {"sent", "unknown"} /\ r.answer = q.answer
        /\ r.sent = (r.pc = "sent" \/ q.sent) /\ UNCHANGED ops
    BY <1>3, EventFact DEF Fetch
  <2>. QED BY <2>1, <1>0 DEF Holding, Left, Open
<1>4. CASE Answer(c)
  <2>1. /\ q.pc = "sent" /\ Same(r, q) /\ r.sent = q.sent /\ r.pc \in {"invalidate", "finish"}
        /\ r.pc = "invalidate" => r.answer = "refused"
        /\ UNCHANGED ops
    BY <1>4, EventFact DEF Answer
  <2>. QED BY <2>1, <1>0 DEF Holding, Left, Open
<1>5. CASE Moves(c)
  <2>1. \A pc \in Steps : Goto(c, pc) => r.pc = pc /\ Still(r, q)
    BY GotoFact
  <2>2. PICK pc \in Steps : Goto(c, pc)
    BY <1>5, MoveFact
  <2>3. r.pc = pc /\ Still(r, q)
    BY <2>1, <2>2
  <2>4. pc # "idle" /\ r.pc # "idle"
    BY <2>3 DEF Steps, IssuerSteps, HolderSteps, EventSteps, Holding
  <2>5. CASE OpenChallenge(c) \/ Issue(c) \/ Withdraw(c) \/ Register(c) \/ Revoke(c) \/ ReserveEvent(c)
    <3>1. q.pc \in IssuerSteps \cup {"write", "reserve"} /\ r.pc \in {"done", "reread"}
      <4>1. "done" \in Steps /\ "reread" \in Steps
        BY DEF Steps, HolderSteps, EventSteps
      <4>. QED BY <2>1, <2>5, <4>1 DEF OpenChallenge, Issue, Withdraw, Register, Revoke, ReserveEvent, IssuerSteps
    <3>. QED BY <2>3, <3>1, <1>0 DEF Still, IssuerSteps, Holding, Left, Open
  <2>6. CASE Reread(c)
    <3>1. /\ q.pc = "reread" /\ UNCHANGED ops /\ r.pc \in {"authorize", "done"}
          /\ r.pc = "authorize" => OwnsReservation(c, ops[q.op])
      <4>1. "done" \in Steps /\ "authorize" \in Steps
        BY DEF Steps, HolderSteps, EventSteps, Holding
      <4>. QED BY <2>1, <2>6, <4>1 DEF Reread
    <3>. QED BY <2>3, <3>1, <1>0 DEF Still, Holding, Left, Open
  <2>7. CASE Authorize(c)
    <3>1. q.pc = "authorize" /\ UNCHANGED ops /\ r.pc \in {"dispatch", "unsent"}
      <4>1. "dispatch" \in Steps /\ "unsent" \in Steps
        BY DEF Steps, HolderSteps, EventSteps, Holding
      <4>. QED BY <2>1, <2>7, <4>1 DEF Authorize
    <3>. QED BY <2>3, <3>1, <1>0 DEF Still, Holding, Left, Open
  <2>8. CASE Dispatch(c)
    <3>1. /\ q.pc = "dispatch" /\ r.pc \in {"send", "unsent"}
          /\ r.pc = "unsent" => UNCHANGED ops
          /\ r.pc = "send" => ops' = [ops EXCEPT ![q.op].outcome = "dispatch_started"]
      <4>1. "send" \in Steps /\ "unsent" \in Steps
        BY DEF Steps, HolderSteps, EventSteps, Holding
      <4>. QED BY <2>1, <2>8, <4>1 DEF Dispatch
    <3>2. q.op \in Ops /\ ops[q.op] \in Operation
      BY <3>1, <1>0 DEF Shape, ShapeOf, HolderSteps, EventSteps, Holding, TypeOK
    <3>3. r.pc = "send" => ops'[q.op].outcome = "dispatch_started"
      BY <3>1, <3>2 DEF TypeOK, Operation
    <3>. QED BY <2>3, <3>1, <3>3, <1>0 DEF Still, Holding, Left, Open
  <2>9. CASE Invalidate(c)
    <3>1. q.pc = "invalidate" /\ UNCHANGED ops /\ r.pc \in {"finish", "unknown"}
      <4>1. "finish" \in Steps /\ "unknown" \in Steps
        BY DEF Steps, HolderSteps, EventSteps, Holding
      <4>. QED BY <2>1, <2>9, <4>1 DEF Invalidate
    <3>. QED BY <2>3, <3>1, <1>0 DEF Still, Same, Holding, Left, Open
  <2>10. CASE Finish(c)
    <3>1. q.pc \in {"finish", "unsent", "unknown"} /\ r.pc \in {"done", "unknown"}
      <4>1. "done" \in Steps /\ "unknown" \in Steps
        BY DEF Steps, HolderSteps, EventSteps, Holding
      <4>. QED BY <2>1, <2>10, <4>1 DEF Finish
    <3>. QED BY <2>3, <3>1, <1>0 DEF Still, Same, Holding, Left, Open
  <2>11. CASE Break(c) \/ Crash(c)
    <3>1. /\ q.pc # "idle" /\ r.pc \in {"done", "unknown"}
          /\ r.pc = "unknown" => q.pc \in {"send", "sent", "invalidate", "finish"}
      <4>1. "done" \in Steps /\ "unknown" \in Steps
        BY DEF Steps, HolderSteps, EventSteps, Holding
      <4>. QED BY <2>1, <2>11, <4>1 DEF Break, Crash
    <3>. QED BY <2>3, <3>1, <1>0 DEF Still, Same, Holding, Left, Open
  <2>. QED BY <1>5, <2>5, <2>6, <2>7, <2>8, <2>9, <2>10, <2>11 DEF Moves
<1>. QED BY <1>1, <1>2, <1>3, <1>4, <1>5 DEF Step

\* The claims and the ledger go on agreeing.
LEMMA LedgerStep ==
  ASSUME TypeOK, Shape, Ledger, NEW c \in Calls, Step(c)
  PROVE  Ledger'
<1> DEFINE q == calls[c]
           r == calls'[c]
<1>1. /\ calls' \in [Calls -> Call] /\ Shape' /\ \A d \in Calls : d # c => calls'[d] = calls[d]
  BY StepFact
<1>2. /\ ops' \in [Ops -> Operation \cup {None}]
      /\ \A o \in Ops : ops'[o] # ops[o] =>
           /\ o = q.op /\ ops'[o] \in Operation
           /\ (ops[o] = None /\ ClaimsRow(c, ops'[o])) \/ Settles(c, ops[o], ops'[o])
  BY RowFact
<1>3. ASSUME NEW d \in Calls, d # c
      PROVE  ClaimOf(d)'
  <2>1. ClaimOf(d) /\ calls'[d] = calls[d] /\ ShapeOf(d)
    BY <1>1, <1>3 DEF Ledger, Shape
  <2>2. CASE calls[d].pc \in Holding \/ calls[d].sent
    <3>1. ops[calls[d].op] # None /\ ops[calls[d].op].claim = d /\ calls[d].op \in Ops
      BY <2>1, <2>2 DEF ClaimOf, ShapeOf, HolderSteps, EventSteps
    <3>2. ops'[calls[d].op] = ops[calls[d].op]
      BY <1>2, <1>3, <3>1 DEF Settles
    <3>. QED BY <2>1, <3>2 DEF ClaimOf
  <2>3. CASE calls[d].pc \notin Holding /\ ~calls[d].sent
    BY <2>1, <2>3 DEF ClaimOf, Holding, Left, Open
  <2>. QED BY <2>2, <2>3
<1>4. /\ r.pc # "idle"
      /\ q.pc # "idle" => Same(r, q)
      /\ r.pc \in Holding =>
           q.pc \in Holding \/ (q.pc = "reread" /\ UNCHANGED ops /\ OwnsReservation(c, ops[q.op]))
      /\ r.pc = "authorize" => q.pc = "reread"
      /\ r.pc \in {"dispatch", "unsent"} => q.pc \in {"authorize", "dispatch"} /\ UNCHANGED ops
      /\ r.pc = "send" => q.pc = "dispatch" /\ ops'[q.op].outcome = "dispatch_started"
      /\ r.pc \in Left => q.pc \in {"send", "sent", "invalidate"} /\ UNCHANGED ops /\ r.sent
      /\ r.pc = "invalidate" => r.answer = "refused"
      /\ r.sent => q.sent \/ (q.pc = "send" /\ r.pc = "sent")
      /\ q.sent => r.sent /\ r.pc \in Open
      /\ q.pc \notin {"idle", "sent"} => r.answer = q.answer
  BY OwnFact
<1>5. /\ ClaimOf(c) /\ ShapeOf(c) /\ q.sent \in BOOLEAN /\ r.sent \in BOOLEAN
      /\ \A row \in Operation : row # None
  BY <1>1, NoneAssumption DEF Ledger, Shape, TypeOK, Call
<1>6. ASSUME r.pc \in Holding
      PROVE  /\ q.op \in Ops /\ r.op = q.op /\ ops[q.op] # None /\ ops[q.op].claim = c
             /\ ops'[q.op] # None /\ ops'[q.op].claim = c
  <2>1. q.op \in Ops /\ r.op = q.op /\ ops[q.op] # None /\ ops[q.op].claim = c
    BY <1>4, <1>5, <1>6 DEF ClaimOf, ShapeOf, HolderSteps, EventSteps, Holding, OwnsReservation, Same
  <2>. QED BY <1>2, <1>5, <2>1 DEF Settles
<1>7. ASSUME r.sent
      PROVE  /\ r.op \in Ops /\ ops'[r.op] # None /\ ops'[r.op].claim = c
             /\ ops'[r.op].outcome \in Counted \ {"event_reserved"}
  <2>1. CASE q.sent
    <3>1. /\ q.op \in Ops /\ ops[q.op] # None /\ ops[q.op].claim = c
          /\ ops[q.op].outcome \in Counted \ {"event_reserved"} /\ q.pc \in Open /\ r.op = q.op
      BY <1>4, <1>5, <2>1 DEF ClaimOf, Open, Left, Same
    <3>2. CASE ops'[q.op] = ops[q.op]
      BY <3>1, <3>2
    <3>3. CASE ops'[q.op] # ops[q.op]
      <4>1. Settles(c, ops[q.op], ops'[q.op]) /\ ops'[q.op] # None
        BY <1>2, <1>5, <3>1, <3>3
      <4>. QED BY <3>1, <4>1 DEF Settles, Open, Left, OutcomeOf, Counted
    <3>. QED BY <3>2, <3>3
  <2>2. CASE q.pc = "send" /\ r.pc = "sent"
    BY <1>4, <1>5, <1>6, <2>2 DEF ClaimOf, Holding, Left, Counted
  <2>. QED BY <1>4, <1>7, <2>1, <2>2
<1>8. ClaimOf(c)'
  <2>1. ~r.sent \/ r.pc \in Open
    BY <1>4 DEF Open, Left
  <2>2. ASSUME r.pc \in {"authorize", "dispatch", "unsent"}
        PROVE  ops'[r.op].outcome = "event_reserved"
    BY <1>4, <1>5, <1>6, <2>2 DEF ClaimOf, Holding, OwnsReservation
  <2>3. ASSUME r.pc \in {"send"} \cup Left
        PROVE  ops'[r.op].outcome = "dispatch_started"
    BY <1>4, <1>5, <1>6, <2>3 DEF ClaimOf, Holding, Left
  <2>4. r.pc \in Holding => ops'[r.op] # None /\ ops'[r.op].claim = c
    BY <1>6
  <2>. QED BY <1>4, <1>5, <1>7, <2>1, <2>2, <2>3, <2>4 DEF ClaimOf
<1>9. ASSUME NEW o \in Ops, ops'[o] # None
      PROVE  /\ calls'[ops'[o].claim].pc # "idle" /\ calls'[ops'[o].claim].op = o
             /\ ops'[o].outcome \in Counted => ops'[o].kind = "event"
             /\ ops'[o].outcome = "provider_accepted" =>
                  calls'[ops'[o].claim].sent /\ calls'[ops'[o].claim].answer = "accepted"
  <2>1. CASE ops'[o] = ops[o]
    <3>1. RowOf(o) /\ ops[o].claim \in Calls /\ ops[o] # None
      BY <1>9, <2>1 DEF Ledger, TypeOK, Operation
    <3>2. CASE ops[o].claim # c
      BY <1>1, <2>1, <3>1, <3>2 DEF RowOf
    <3>3. CASE ops[o].claim = c
      <4>1. q.pc # "idle" /\ q.op = o
        BY <3>1, <3>3 DEF RowOf
      <4>2. ops[o].outcome = "provider_accepted" => q.pc # "sent" /\ q.sent /\ q.answer = "accepted"
        BY <1>5, <3>1, <3>3, <4>1 DEF RowOf, ClaimOf, Left
      <4>3. calls'[ops'[o].claim] = calls'[c]
        BY <2>1, <3>3
      <4>5. r.op = q.op
        BY <1>4, <4>1 DEF Same
      <4>4. ops'[o].outcome \in Counted => ops'[o].kind = "event"
        BY <2>1, <3>1 DEF RowOf
      <4>. QED BY <1>4, <2>1, <4>1, <4>2, <4>3, <4>4, <4>5
    <3>. QED BY <3>2, <3>3
  <2>2. CASE ops'[o] # ops[o] /\ ClaimsRow(c, ops'[o])
    <3>1. o = q.op /\ ops'[o].claim = c /\ q.pc \in {"write", "reserve"}
      BY <1>2, <2>2 DEF ClaimsRow
    <3>2. ops'[o].outcome \in Counted => ops'[o].kind = "event"
      BY <1>5, <2>2 DEF ClaimsRow, ShapeOf, EventSteps, Counted
    <3>3. ops'[o].outcome # "provider_accepted"
      BY <2>2 DEF ClaimsRow
    <3>4. calls'[ops'[o].claim] = calls'[c]
      BY <3>1
    <3>5. r.op = q.op
      BY <1>4, <3>1, <3>2 DEF Same
    <3>. QED BY <1>4, <3>1, <3>2, <3>3, <3>4, <3>5
  <2>3. CASE ops'[o] # ops[o] /\ Settles(c, ops[o], ops'[o])
    <3>1. o = q.op /\ ops'[o].claim = c /\ ops'[o].kind = ops[o].kind
      BY <1>2, <2>3 DEF Settles
    <3>2. q.pc \in {"dispatch", "finish", "unsent", "unknown"} /\ ops[o].kind = "event"
      BY <2>3 DEF Settles, Ledger, RowOf, Running, Counted
    <3>3. ops'[o].outcome = "provider_accepted" => q.pc = "finish" /\ q.answer = "accepted" /\ q.sent
      BY <1>5, <2>3 DEF Settles, OutcomeOf, ClaimOf, Left
    <3>4. calls'[ops'[o].claim] = calls'[c]
      BY <3>1
    <3>5. r.op = q.op
      BY <1>4, <3>1, <3>2 DEF Same
    <3>. QED BY <1>4, <3>1, <3>2, <3>3, <3>4, <3>5
  <2>. QED BY <1>2, <2>1, <2>2, <2>3
<1>10. \A o \in Ops : RowOf(o)'
  BY <1>9 DEF RowOf
<1>11. \A d \in Calls : ClaimOf(d)'
  BY <1>3, <1>8
<1>. QED BY <1>10, <1>11 DEF Ledger
-----------------------------------------------------------------------------
\* What a step does to a target, and the row or the request it does it with.
Advances(c, t) ==
  LET q == calls[c]
  IN /\ q.pc = "write" /\ q.kind = "register" /\ t = q.target /\ ops[q.op] = None /\ ~revoked
     /\ MayRegister(q, targets[t]) /\ ops'[q.op].outcome = "registered" /\ ops'[q.op] # ops[q.op]
     /\ targets'[t] = [revision |-> q.revision, expires |-> q.expires, state |-> "active"]
     /\ targets'[t] \in Target

Retires(c, t) ==
  LET q == calls[c]
  IN /\ q.pc = "write" /\ q.kind = "revoke" /\ t = q.target /\ ops[q.op] = None
     /\ targets[t] = None \/ targets[t].revision = q.revision
     /\ ops'[q.op].outcome = "revoked" /\ ops'[q.op] # ops[q.op]
     /\ targets'[t] = [revision |-> q.revision, state |-> "revoked",
                       expires |-> IF targets[t] = None THEN 0 ELSE targets[t].expires]
     /\ targets'[t] \in Target

Closes(c, t) ==
  /\ targets'[t] = Closed(targets[t])
  /\ \/ revoked'
     \/ calls[c].pc = "invalidate" /\ t = calls[c].target /\ IsSent(calls[c], targets[t])

LEMMA TargetFact ==
  ASSUME TypeOK, Shape, NEW c \in Calls, Step(c)
  PROVE  /\ targets' \in [Targets -> Target \cup {None}]
         /\ \A t \in Targets : targets'[t] # targets[t] => Advances(c, t) \/ Retires(c, t) \/ Closes(c, t)
         /\ revoked' = revoked \/ revoked' = TRUE
<1> DEFINE q == calls[c]
<1>1. CASE UNCHANGED <<targets, revoked>>
  BY <1>1 DEF TypeOK
<1>2. \A row \in Operation : row # None
  BY NoneAssumption
<1>3. CASE Register(c)
  <2>1. CASE UNCHANGED targets
    BY <1>1, <1>3, <2>1 DEF Register
  <2>2. CASE ~UNCHANGED targets
    <3> DEFINE row == [revision |-> q.revision, expires |-> q.expires, state |-> "active"]
    <3>1. /\ q.pc = "write" /\ q.kind = "register" /\ UNCHANGED revoked /\ ops[q.op] = None /\ ~revoked
          /\ MayRegister(q, targets[q.target]) /\ ops' = Claimed(c, "registered")
          /\ targets' = [targets EXCEPT ![q.target] = row]
      BY <1>3, <2>2 DEF Register, MayClaim, IsLive
    <3>2. ops'[q.op].outcome = "registered" /\ ops'[q.op] # None
      BY <1>2, <3>1, ClaimFact DEF Outcomes
    <3>3. q.target \in Targets /\ row \in Target
      BY <3>1 DEF Shape, ShapeOf, HolderSteps, TypeOK, Call, Target
    <3>. QED BY <3>1, <3>2, <3>3 DEF TypeOK, Advances
  <2>. QED BY <2>1, <2>2
<1>4. CASE Revoke(c)
  <2>1. CASE UNCHANGED targets
    BY <1>1, <1>4, <2>1 DEF Revoke
  <2>2. CASE ~UNCHANGED targets
    <3> DEFINE old == targets[q.target]
               row == [revision |-> q.revision, state |-> "revoked",
                       expires |-> IF old = None THEN 0 ELSE old.expires]
    <3>1. /\ q.pc = "write" /\ q.kind = "revoke" /\ UNCHANGED revoked /\ ops[q.op] = None
          /\ old = None \/ old.revision = q.revision
          /\ ops' = Claimed(c, "revoked")
          /\ targets' = [targets EXCEPT ![q.target] = row]
      BY <1>4, <2>2 DEF Revoke, MayClaim
    <3>2. ops'[q.op].outcome = "revoked" /\ ops'[q.op] # None
      BY <1>2, <3>1, ClaimFact DEF Outcomes
    <3>3. q.target \in Targets /\ row \in Target
      BY <3>1 DEF Shape, ShapeOf, HolderSteps, TypeOK, Call, Target
    <3>. QED BY <3>1, <3>2, <3>3 DEF TypeOK, Retires
  <2>. QED BY <2>1, <2>2
<1>5. CASE Withdraw(c)
  <2>1. CASE UNCHANGED targets /\ UNCHANGED revoked
    BY <1>1, <2>1
  <2>2. CASE ~(UNCHANGED targets /\ UNCHANGED revoked)
    <3>1. revoked' = TRUE /\ targets' = [t \in Targets |-> Closed(targets[t])]
      BY <1>5, <2>2 DEF Withdraw
    <3>2. \A t \in Targets : Closed(targets[t]) \in Target \cup {None}
      BY DEF Closed, TypeOK, Target
    <3>. QED BY <3>1, <3>2 DEF Closes
  <2>. QED BY <2>1, <2>2
<1>6. CASE Invalidate(c)
  <2>1. CASE UNCHANGED targets
    BY <1>1, <1>6, <2>1 DEF Invalidate
  <2>2. CASE ~UNCHANGED targets
    <3>1. /\ q.pc = "invalidate" /\ UNCHANGED revoked /\ IsSent(q, targets[q.target])
          /\ targets' = [targets EXCEPT ![q.target] = Closed(targets[q.target])]
      BY <1>6, <2>2 DEF Invalidate
    <3>2. q.target \in Targets /\ Closed(targets[q.target]) \in Target \cup {None}
      BY <3>1 DEF Shape, ShapeOf, HolderSteps, EventSteps, Holding, TypeOK, Target, Closed
    <3>. QED BY <3>1, <3>2 DEF TypeOK, Closes
  <2>. QED BY <2>1, <2>2
<1>7. CASE OpenChallenge(c) \/ Issue(c) \/ ReserveEvent(c) \/ Dispatch(c) \/ Finish(c) \/ Reread(c) \/ Authorize(c) \/ Break(c) \/ Crash(c)
  BY <1>1, <1>7 DEF OpenChallenge, Issue, ReserveEvent, Dispatch, Finish, Reread, Authorize, Break, Crash
<1>8. CASE AskIssuer(c) \/ Arrive(c) \/ ReadTarget(c) \/ Lookup(c) \/ Fetch(c) \/ Answer(c)
  BY <1>1, <1>8 DEF AskIssuer, Arrive, ReadTarget, Lookup, Fetch, Answer
<1>. QED BY <1>3, <1>4, <1>5, <1>6, <1>7, <1>8 DEF Step, Moves
-----------------------------------------------------------------------------
\* The line of descent: what was registered is not above the target, which is
\* active at a revision somebody registered.
Registered == {o \in Ops : ops[o] # None /\ ops[o].outcome = "registered"}
Descent ==
  /\ \A o \in Registered :
       targets[ops[o].target] # None /\ ops[o].revision <= targets[ops[o].target].revision
  /\ \A t \in Targets : targets[t] # None /\ targets[t].state = "active" =>
       \E o \in Registered : ops[o].target = t /\ ops[o].revision = targets[t].revision
  /\ OneLineage

\* What was registered stays so; what a step registers is the row of the request.
LEMMA RegisteredFact ==
  ASSUME TypeOK, Shape, Ledger, NEW c \in Calls, Step(c)
  PROVE  /\ Registered \subseteq Registered'
         /\ \A o \in Registered : ops'[o] = ops[o]
         /\ \A o \in Registered' : o \notin Registered =>
              /\ o = calls[c].op /\ ops[o] = None /\ ops'[o] # None
              /\ ops'[o].target = calls[c].target /\ ops'[o].revision = calls[c].revision
              /\ calls[c].pc = "write" /\ calls[c].op \in Ops
<1>1. \A o \in Ops : ops'[o] # ops[o] =>
        /\ o = calls[c].op /\ ops'[o] \in Operation
        /\ (ops[o] = None /\ ClaimsRow(c, ops'[o])) \/ Settles(c, ops[o], ops'[o])
  BY RowFact
<1>2. \A o \in Registered : ops'[o] = ops[o]
  BY <1>1 DEF Registered, Settles, Running
<1>3. ASSUME NEW o \in Registered', o \notin Registered
      PROVE  /\ o = calls[c].op /\ ops[o] = None /\ ops'[o] # None
             /\ ops'[o].target = calls[c].target /\ ops'[o].revision = calls[c].revision
             /\ calls[c].pc = "write" /\ calls[c].op \in Ops
  <2>1. o \in Ops /\ ops'[o] # None /\ ops'[o].outcome = "registered" /\ ops'[o] # ops[o]
    BY <1>3 DEF Registered
  <2>2. ~Settles(c, ops[o], ops'[o])
    BY <2>1 DEF Settles, OutcomeOf
  <2>. QED BY <1>1, <2>1, <2>2 DEF ClaimsRow
<1>. QED BY <1>2, <1>3 DEF Registered

\* A registration that is recorded has moved its target.
LEMMA AdvanceFact ==
  ASSUME TypeOK, Shape, Ledger, NEW c \in Calls, Step(c), NEW o \in Registered', o \notin Registered
  PROVE  Advances(c, calls[c].target)
<1> DEFINE q == calls[c]
<1>1. o = q.op /\ ops[o] = None /\ ops'[o] # None /\ q.pc = "write" /\ ops'[o].outcome = "registered"
  BY RegisteredFact DEF Registered
<1>2. \A row \in Operation : row # None
  BY NoneAssumption
<1>3. Register(c) \/ Revoke(c) \/ Crash(c)
  BY <1>1 DEF Step, Moves, AskIssuer, Arrive, ReadTarget, Lookup, Fetch, Answer, OpenChallenge, Issue, Withdraw,
              ReserveEvent, Reread, Authorize, Dispatch, Invalidate, Finish, Break
<1>4. ~Crash(c)
  BY <1>1 DEF Crash
<1>5. ASSUME Revoke(c)
      PROVE  FALSE
  <2>1. PICK outcome \in {"revoked", "conflict"} : ops' = Claimed(c, outcome)
    BY <1>1, <1>5 DEF Revoke
  <2>2. ops'[q.op].outcome = outcome
    BY <1>1, <2>1, ClaimFact DEF Outcomes
  <2>. QED BY <1>1, <2>1, <2>2
<1>6. CASE Register(c)
  <2> DEFINE outcome == IF MayRegister(q, targets[q.target]) THEN "registered"
                        ELSE IF targets[q.target] # None /\ targets[q.target].state = "revoked"
                          THEN "revoked" ELSE "conflict"
             row == [revision |-> q.revision, expires |-> q.expires, state |-> "active"]
  <2>1. /\ q.kind = "register" /\ ~revoked /\ ops' = Claimed(c, outcome)
        /\ outcome = "registered" => targets' = [targets EXCEPT ![q.target] = row]
    BY <1>1, <1>6 DEF Register, MayClaim, IsLive
  <2>2. outcome \in {"registered", "revoked", "conflict"} /\ outcome \in Outcomes
    BY DEF Outcomes
  <2>3. outcome = "registered"
    <3>. HIDE DEF outcome
    <3>. QED BY <1>1, <2>1, <2>2, ClaimFact
  <2>4. q.target \in Targets /\ row \in Target
    BY <1>1, <2>1 DEF Shape, ShapeOf, HolderSteps, Target, TypeOK, Call
  <2>. QED BY <1>1, <2>1, <2>3, <2>4 DEF Advances, TypeOK
<1>. QED BY <1>3, <1>4, <1>5, <1>6

LEMMA DescentStep ==
  ASSUME TypeOK, Shape, Ledger, Descent, NEW c \in Calls, Step(c)
  PROVE  Descent'
<1> DEFINE q == calls[c]
<1>1. /\ targets' \in [Targets -> Target \cup {None}]
      /\ \A t \in Targets : targets'[t] # targets[t] => Advances(c, t) \/ Retires(c, t) \/ Closes(c, t)
  BY TargetFact
<1>2. /\ Registered \subseteq Registered'
      /\ \A o \in Registered : ops'[o] = ops[o]
      /\ \A o \in Registered' : o \notin Registered =>
           /\ o = q.op /\ ops[o] = None /\ ops'[o] # None
           /\ ops'[o].target = q.target /\ ops'[o].revision = q.revision
           /\ q.pc = "write" /\ q.op \in Ops
  BY RegisteredFact
<1>3. ASSUME NEW o \in Registered', o \notin Registered
      PROVE  Advances(c, q.target)
  BY <1>3, AdvanceFact
<1>4. /\ \A row \in Target : row # None /\ row.revision \in Nat
      /\ \A row \in Operation : row # None /\ row.revision \in Nat /\ row.target \in Targets
      /\ \A o \in Registered : ops[o] \in Operation /\ ops[o] # None
  BY NoneAssumption DEF Target, Operation, Registered, TypeOK, Revisions
<1>5. ASSUME NEW t \in Targets, targets[t] # None
      PROVE  /\ targets'[t] # None /\ targets[t].revision <= targets'[t].revision
             /\ targets'[t].state = "active" => targets[t].state = "active"
  <2>1. targets[t] \in Target
    BY <1>5 DEF TypeOK
  <2>2. CASE targets'[t] = targets[t]
    BY <1>4, <1>5, <2>1, <2>2
  <2>3. CASE Advances(c, t)
    <3>1. targets[t].state = "active" /\ targets[t].revision = q.revision - 1
      BY <1>5, <2>3 DEF Advances, MayRegister
    <3>2. q.revision \in Nat
      BY <2>3 DEF Advances, TypeOK, Call
    <3>3. targets'[t].revision = q.revision /\ targets'[t] # None
      BY <1>1, <1>4, <2>3 DEF Advances, Target
    <3>. QED BY <1>4, <2>1, <3>1, <3>2, <3>3
  <2>4. CASE Retires(c, t)
    <3>1. targets'[t].revision = targets[t].revision /\ targets'[t].state = "revoked"
      BY <1>5, <2>4 DEF Retires
    <3>2. targets'[t] # None
      BY <1>1, <1>4, <2>4, <1>5, <3>1 DEF Retires
    <3>. QED BY <1>4, <2>1, <3>1, <3>2
  <2>5. CASE Closes(c, t)
    <3>1. /\ targets'[t] = [targets[t] EXCEPT !.state = "revoked"]
      BY <1>5, <2>5 DEF Closes, Closed
    <3>2. targets'[t] \in Target /\ targets'[t].revision = targets[t].revision /\ targets'[t].state = "revoked"
      BY <2>1, <3>1 DEF Target
    <3>. QED BY <1>4, <2>1, <3>2
  <2>. QED BY <1>1, <2>2, <2>3, <2>4, <2>5
<1>6. ASSUME NEW o \in Registered'
      PROVE  targets'[ops'[o].target] # None /\ ops'[o].revision <= targets'[ops'[o].target].revision
  <2>1. CASE o \in Registered
    <3>1. /\ ops'[o] = ops[o] /\ ops[o].target \in Targets /\ targets[ops[o].target] # None
          /\ ops[o].revision <= targets[ops[o].target].revision /\ ops[o].revision \in Nat
      BY <1>2, <1>4, <2>1 DEF Descent
    <3>2. targets[ops[o].target] \in Target /\ targets'[ops[o].target] \in Target \cup {None}
      BY <1>1, <3>1 DEF TypeOK
    <3>. QED BY <1>4, <1>5, <3>1, <3>2
  <2>2. CASE o \notin Registered
    <3>1. Advances(c, q.target) /\ ops'[o].target = q.target /\ ops'[o].revision = q.revision
      BY <1>2, <1>3, <2>2
    <3>2. targets'[q.target].revision = q.revision /\ q.revision \in Nat /\ q.target \in Targets
      BY <3>1 DEF Advances, TypeOK, Call, Shape, ShapeOf, HolderSteps
    <3>3. targets'[q.target] # None
      BY <1>1, <1>4, <3>1 DEF Advances, Target
    <3>. QED BY <3>1, <3>2, <3>3
  <2>. QED BY <2>1, <2>2
<1>7. ASSUME NEW t \in Targets, targets'[t] # None, targets'[t].state = "active"
      PROVE  \E o \in Registered' : ops'[o].target = t /\ ops'[o].revision = targets'[t].revision
  <2>1. CASE targets'[t] = targets[t]
    BY <1>2, <1>7, <2>1 DEF Descent
  <2>2. CASE Advances(c, t)
    <3>1. /\ q.op \in Ops /\ ops'[q.op] \in Operation /\ ClaimsRow(c, ops'[q.op]) /\ q.target = t
          /\ ops'[q.op].outcome = "registered"
      BY <2>2, RowFact DEF Advances, Shape, ShapeOf, HolderSteps, Settles
    <3>2. q.op \in Registered' /\ ops'[q.op].target = t /\ ops'[q.op].revision = q.revision
      BY <1>4, <3>1 DEF ClaimsRow, Registered
    <3>. QED BY <2>2, <3>2 DEF Advances
  <2>3. CASE Retires(c, t) \/ Closes(c, t)
    <3>1. Retires(c, t) => targets'[t].state = "revoked"
      BY DEF Retires
    <3>2. Closes(c, t) => targets'[t].state = "revoked"
      <4>1. Closes(c, t) => targets[t] # None /\ targets[t] \in Target
        BY <1>7 DEF Closes, Closed, TypeOK
      <4>. QED BY <4>1 DEF Closes, Closed, Target
    <3>. QED BY <1>7, <2>3, <3>1, <3>2
  <2>. QED BY <1>1, <2>1, <2>2, <2>3
<1>8. ASSUME NEW o \in Registered', NEW p \in Registered', ops'[o].target = ops'[p].target,
             ops'[o].revision = ops'[p].revision
      PROVE  o = p
  <2>1. CASE o \in Registered /\ p \in Registered
    BY <1>2, <1>8, <2>1 DEF Descent, OneLineage, Registered
  <2>2. CASE o \notin Registered /\ p \notin Registered
    BY <1>2, <1>8, <2>2
  <2>3. ASSUME NEW x \in Registered, NEW y \in Registered', y \notin Registered,
               ops'[x].target = ops'[y].target, ops'[x].revision = ops'[y].revision
        PROVE  FALSE
    <3>1. Advances(c, q.target) /\ ops[x].target = q.target /\ ops[x].revision = q.revision
      BY <1>2, <1>3, <2>3
    <3>2. targets[q.target] # None /\ q.revision <= targets[q.target].revision
      BY <3>1 DEF Descent
    <3>3. targets[q.target].revision = q.revision - 1 /\ q.revision \in Nat
      BY <3>1, <3>2 DEF Advances, MayRegister, TypeOK, Call
    <3>. QED BY <3>2, <3>3
  <2>. QED BY <1>8, <2>1, <2>2, <2>3
<1>9. ASSUME NEW o \in Registered', ops'[o].revision > 1
      PROVE  \E p \in Registered' : ops'[o].target = ops'[p].target /\ ops'[p].revision = ops'[o].revision - 1
  <2>1. CASE o \in Registered
    <3>1. ops[o].revision > 1 /\ ops'[o] = ops[o]
      BY <1>2, <1>9, <2>1
    <3>2. PICK p \in Registered : ops[o].target = ops[p].target /\ ops[p].revision = ops[o].revision - 1
      BY <2>1, <3>1 DEF Descent, OneLineage, Registered
    <3>. QED BY <1>2, <3>1, <3>2
  <2>2. CASE o \notin Registered
    <3>1. /\ Advances(c, q.target) /\ ops'[o].target = q.target /\ ops'[o].revision = q.revision
          /\ q.revision > 1 /\ q.target \in Targets
      BY <1>2, <1>3, <1>9, <2>2 DEF Advances, Shape, ShapeOf, HolderSteps
    <3>2. targets[q.target] # None /\ targets[q.target].state = "active" /\ targets[q.target].revision = q.revision - 1
      BY <3>1 DEF Advances, MayRegister
    <3>3. PICK p \in Registered : ops[p].target = q.target /\ ops[p].revision = q.revision - 1
      BY <3>1, <3>2 DEF Descent
    <3>. QED BY <1>2, <3>1, <3>3
  <2>. QED BY <2>1, <2>2
<1>10. OneLineage'
  BY <1>8, <1>9 DEF OneLineage, Registered
<1>. QED BY <1>6, <1>7, <1>10 DEF Descent
-----------------------------------------------------------------------------
\* An answer is that of a request that was sent, and stays.
Answered ==
  \A c \in Calls :
    /\ calls[c].answer # None => calls[c].sent
    /\ calls[c].pc = "sent" => calls[c].answer = None

LEMMA AnsweredStep ==
  ASSUME TypeOK, Shape, Ledger, Answered, NEW c \in Calls, Step(c)
  PROVE  /\ Answered'
         /\ \A d \in Calls : calls[d].answer # None =>
              calls'[d].answer = calls[d].answer /\ Same(calls'[d], calls[d])
<1> DEFINE q == calls[c]
           r == calls'[c]
<1>1. \A d \in Calls : d # c => calls'[d] = calls[d]
  BY StepFact
<1>2. /\ q.pc # "idle" => Same(r, q)
      /\ r.pc \in Left => r.sent
      /\ r.pc = "sent" => q.pc = "send"
      /\ q.pc = "idle" => r.answer = None
      /\ q.sent => r.sent
      /\ q.pc \notin {"idle", "sent"} => r.answer = q.answer
  BY OwnFact
<1>3. /\ q.sent => q.pc \notin {"idle", "send"}
      /\ q.pc = "sent" => q.sent
      /\ q.sent \in BOOLEAN
  BY DEF Ledger, ClaimOf, Open, Left, TypeOK, Call
<1>4. (q.answer # None => q.sent) /\ (q.pc = "sent" => q.answer = None)
  BY DEF Answered
<1>5. (r.answer # None => r.sent) /\ (r.pc = "sent" => r.answer = None)
  BY <1>2, <1>3, <1>4
<1>6. q.answer # None => r.answer = q.answer /\ Same(r, q)
  BY <1>2, <1>3, <1>4
<1>7. \A d \in Calls : Same(calls[d], calls[d])
  BY DEF Same
<1>. HIDE DEF q, r
<1>8. ASSUME NEW d \in Calls
      PROVE  /\ calls'[d].answer # None => calls'[d].sent
             /\ calls'[d].pc = "sent" => calls'[d].answer = None
             /\ calls[d].answer # None => calls'[d].answer = calls[d].answer /\ Same(calls'[d], calls[d])
  <2>1. CASE d = c
    BY <1>5, <1>6, <2>1 DEF q, r
  <2>2. CASE d # c
    BY <1>1, <1>7, <2>2 DEF Answered
  <2>. QED BY <2>1, <2>2
<1>. QED BY <1>8 DEF Answered

LEMMA CauseStep ==
  ASSUME TypeOK, Shape, Ledger, Answered, RevokedForCause, NEW c \in Calls, Step(c)
  PROVE  RevokedForCause'
<1> DEFINE q == calls[c]
<1>1. /\ targets' \in [Targets -> Target \cup {None}]
      /\ \A t \in Targets : targets'[t] # targets[t] => Advances(c, t) \/ Retires(c, t) \/ Closes(c, t)
      /\ revoked' = revoked \/ revoked' = TRUE
  BY TargetFact
<1>2. \A o \in Ops : ops'[o] # ops[o] =>
        /\ o = q.op /\ ops'[o] \in Operation
        /\ (ops[o] = None /\ ClaimsRow(c, ops'[o])) \/ Settles(c, ops[o], ops'[o])
  BY RowFact
<1>3. \A d \in Calls : calls[d].answer # None =>
        calls'[d].answer = calls[d].answer /\ Same(calls'[d], calls[d])
  BY AnsweredStep
<1>4. None # "refused"
  BY NoneAssumption
<1>5. SUFFICES ASSUME NEW t \in Targets, targets'[t] # None, targets'[t].state = "revoked"
               PROVE  \/ revoked'
                      \/ \E o \in Ops : /\ ops'[o] # None /\ ops'[o].kind = "revoke" /\ ops'[o].outcome = "revoked"
                                       /\ ops'[o].target = t /\ ops'[o].revision = targets'[t].revision
                      \/ \E d \in Calls : /\ calls'[d].answer = "refused" /\ calls'[d].target = t
                                         /\ calls'[d].revision = targets'[t].revision
  BY DEF RevokedForCause
<1>6. CASE targets'[t] = targets[t]
  <2>1. CASE revoked
    BY <1>1, <2>1
  <2>2. CASE \E o \in Ops : /\ ops[o] # None /\ ops[o].kind = "revoke" /\ ops[o].outcome = "revoked"
                           /\ ops[o].target = t /\ ops[o].revision = targets[t].revision
    BY <1>2, <1>6, <2>2 DEF Settles, Running
  <2>3. CASE \E d \in Calls : /\ calls[d].answer = "refused" /\ calls[d].target = t
                             /\ calls[d].revision = targets[t].revision
    BY <1>3, <1>4, <1>6, <2>3 DEF Same
  <2>. QED BY <1>5, <1>6, <2>1, <2>2, <2>3 DEF RevokedForCause
<1>7. CASE Advances(c, t)
  BY <1>5, <1>7 DEF Advances
<1>8. CASE Retires(c, t)
  <2>1. /\ q.op \in Ops /\ ops'[q.op] \in Operation /\ ClaimsRow(c, ops'[q.op]) /\ q.target = t /\ q.kind = "revoke"
        /\ ops'[q.op].outcome = "revoked" /\ targets'[t].revision = q.revision
    BY <1>2, <1>8 DEF Retires, Shape, ShapeOf, HolderSteps, Settles
  <2>2. ops'[q.op] # None
    BY <2>1, NoneAssumption
  <2>. QED BY <2>1, <2>2 DEF ClaimsRow
<1>9. CASE Closes(c, t)
  <2>1. CASE revoked'
    BY <2>1
  <2>2. CASE q.pc = "invalidate" /\ t = q.target /\ IsSent(q, targets[t])
    <3>1. targets[t] \in Target /\ targets[t].revision = q.revision
      BY <2>2 DEF IsSent, TypeOK
    <3>2. targets'[t].revision = q.revision
      BY <1>9, <3>1, NoneAssumption DEF Closes, Closed, Target
    <3>3. q.answer = "refused"
      BY <2>2 DEF Ledger, ClaimOf
    <3>4. calls'[c].answer = "refused" /\ Same(calls'[c], q)
      BY <1>3, <1>4, <3>3
    <3>. QED BY <2>2, <3>2, <3>4 DEF Same
  <2>. QED BY <1>9, <2>1, <2>2 DEF Closes
<1>. QED BY <1>1, <1>6, <1>7, <1>8, <1>9
-----------------------------------------------------------------------------
\* The capability: issued once, against the challenge it spends, and nothing
\* that could be used after a withdrawal.
Unique == \A i, j \in IssueOps : caps[i] # None /\ caps[j] # None => i = j
Spending == \A i \in IssueOps : caps[i] # None <=> challenges[i] # None /\ challenges[i].state = "consumed"
Capability == Unique /\ Spending /\ WithdrawnIsDead

LEMMA CapabilityStep ==
  ASSUME TypeOK, Shape, Capability, NEW c \in Calls, Step(c)
  PROVE  /\ Capability'
         /\ caps' \in [IssueOps -> {"live", "revoked", None}]
         /\ challenges' \in [IssueOps -> Challenge \cup {None}]
         /\ revoked' \in BOOLEAN
<1> DEFINE q == calls[c]
           i == q.op
           Dead == revoked' => \A t \in Targets : targets'[t] # None => targets'[t].state = "revoked"
<1>1. /\ \A row \in Challenge : row # None
      /\ None # "live" /\ None # "revoked"
  BY NoneAssumption
<1>2. q.pc \in IssuerSteps => i \in IssueOps
  BY DEF Shape, ShapeOf
<1>3. \A t \in Targets : targets'[t] # targets[t] => Advances(c, t) \/ Retires(c, t) \/ Closes(c, t)
  BY TargetFact
<1>4. ASSUME NEW t \in Targets, UNCHANGED revoked, revoked, targets'[t] # None
      PROVE  targets'[t].state = "revoked"
  <2>1. CASE targets'[t] = targets[t]
    BY <1>4, <2>1 DEF Capability, WithdrawnIsDead
  <2>2. CASE Retires(c, t)
    BY <2>2 DEF Retires
  <2>3. CASE Closes(c, t)
    <3>1. targets[t] \in Target
      BY <1>4, <2>3 DEF Closes, Closed, TypeOK
    <3>. QED BY <2>3, <3>1, NoneAssumption DEF Closes, Closed, Target
  <2>. QED BY <1>3, <1>4, <2>1, <2>2, <2>3 DEF Advances
<1>5. CASE UNCHANGED <<revoked, caps, challenges>>
  BY <1>4, <1>5 DEF Capability, Unique, Spending, WithdrawnIsDead, TypeOK
<1>6. CASE OpenChallenge(c)
  <2>1. CASE UNCHANGED challenges
    BY <1>5, <1>6, <2>1 DEF OpenChallenge
  <2>2. CASE ~UNCHANGED challenges
    <3>1. PICK at \in Clocks(c) :
            /\ challenges[i] = None /\ ~revoked
            /\ challenges' = [challenges EXCEPT ![i] =
                 [state |-> "open", until |-> Smallest(at + ChallengeLife, Smallest(Deadline[i], GrantExpiry))]]
      BY <1>6, <2>2 DEF OpenChallenge
    <3> DEFINE row == [state |-> "open", until |-> Smallest(at + ChallengeLife, Smallest(Deadline[i], GrantExpiry))]
    <3>2. i \in IssueOps /\ UNCHANGED <<revoked, caps>>
      BY <1>2, <1>6 DEF OpenChallenge, IssuerSteps
    <3>3. row \in Challenge /\ row.state = "open"
      <4>1. at \in Nat /\ Deadline[i] \in Nat /\ GrantExpiry \in Nat /\ ChallengeLife \in Nat
        BY <3>2, ConstantsAssumption DEF Clocks, TypeOK, Call
      <4>. QED BY <4>1 DEF Challenge, Smallest
    <3>4. challenges' = [challenges EXCEPT ![i] = row]
      BY <3>1
    <3>. HIDE DEF row
    <3>5. caps[i] = None /\ challenges'[i] = row /\ \A j \in IssueOps : j # i => challenges'[j] = challenges[j]
      BY <3>1, <3>2, <3>4 DEF Capability, Spending, TypeOK
    <3>. QED BY <3>1, <3>2, <3>3, <3>4, <3>5 DEF Capability, Unique, Spending, WithdrawnIsDead, TypeOK
  <2>. QED BY <2>1, <2>2
<1>7. CASE Issue(c)
  <2>1. CASE UNCHANGED <<caps, challenges>>
    BY <1>5, <1>7, <2>1 DEF Issue
  <2>2. CASE ~UNCHANGED <<caps, challenges>>
    <3>1. /\ caps[i] = None /\ challenges[i] # None /\ challenges[i].state = "open" /\ ~revoked
          /\ \A j \in IssueOps : caps[j] = None
          /\ caps' = [caps EXCEPT ![i] = "live"]
          /\ challenges' = [challenges EXCEPT ![i].state = "consumed"]
      BY <1>7, <2>2 DEF Issue, MayIssue, IsOpen, IsIssued
    <3>2. i \in IssueOps /\ UNCHANGED revoked
      BY <1>2, <1>7 DEF Issue, IssuerSteps
    <3> DEFINE row == [challenges[i] EXCEPT !.state = "consumed"]
    <3>3. row \in Challenge /\ row.state = "consumed" /\ challenges' = [challenges EXCEPT ![i] = row]
      BY <3>1, <3>2 DEF TypeOK, Challenge
    <3>. HIDE DEF row
    <3>. QED BY <1>1, <3>1, <3>2, <3>3 DEF Capability, Unique, Spending, WithdrawnIsDead, TypeOK
  <2>. QED BY <2>1, <2>2
<1>8. CASE Withdraw(c)
  <2>1. CASE UNCHANGED <<revoked, caps, challenges>>
    BY <1>5, <2>1
  <2>2. CASE ~UNCHANGED <<revoked, caps, challenges>>
    <3> DEFINE Shut(j) == IF challenges[j] # None /\ challenges[j].state = "open"
                            THEN [challenges[j] EXCEPT !.state = "withdrawn"] ELSE challenges[j]
    <3>1. /\ revoked' = TRUE
          /\ caps' = [j \in IssueOps |-> IF caps[j] = None THEN None ELSE "revoked"]
          /\ targets' = [t \in Targets |-> Closed(targets[t])]
          /\ challenges' = [j \in IssueOps |-> Shut(j)]
      BY <1>8, <2>2 DEF Withdraw
    <3>2. ASSUME NEW j \in IssueOps
          PROVE  /\ Shut(j) \in Challenge \cup {None}
                 /\ Shut(j) # None => Shut(j).state # "open"
                 /\ Shut(j) # None /\ Shut(j).state = "consumed" <=> challenges[j] # None /\ challenges[j].state = "consumed"
      BY <1>1 DEF TypeOK, Challenge
    <3>3. ASSUME NEW t \in Targets, Closed(targets[t]) # None
          PROVE  Closed(targets[t]).state = "revoked"
      BY <3>3 DEF Closed, TypeOK, Target
    <3>. HIDE DEF Shut
    <3>4. \A j \in IssueOps : (caps'[j] # None <=> caps[j] # None) /\ caps'[j] # "live"
      BY <1>1, <3>1 DEF TypeOK
    <3>. QED BY <3>1, <3>2, <3>3, <3>4 DEF Capability, Unique, Spending, WithdrawnIsDead, TypeOK
  <2>. QED BY <2>1, <2>2
<1>9. CASE Register(c) \/ Revoke(c) \/ ReserveEvent(c) \/ Dispatch(c) \/ Invalidate(c) \/ Finish(c) \/ Reread(c) \/ Authorize(c) \/ Break(c) \/ Crash(c)
  BY <1>5, <1>9 DEF Register, Revoke, ReserveEvent, Dispatch, Invalidate, Finish, Reread, Authorize, Break, Crash
<1>10. CASE AskIssuer(c) \/ Arrive(c) \/ ReadTarget(c) \/ Lookup(c) \/ Fetch(c) \/ Answer(c)
  BY <1>5, <1>10 DEF AskIssuer, Arrive, ReadTarget, Lookup, Fetch, Answer
<1>. QED BY <1>6, <1>7, <1>8, <1>9, <1>10 DEF Step, Moves
-----------------------------------------------------------------------------
\* The budget: the events that count.
CountedEvents == {o \in Ops : ops[o] # None /\ ops[o].kind = "event" /\ ops[o].outcome \in Counted}
Budget == Cardinality(CountedEvents) <= MaxEvents

LEMMA BudgetStep ==
  ASSUME TypeOK, Shape, Ledger, Budget, NEW c \in Calls, Step(c)
  PROVE  Budget'
<1> DEFINE q == calls[c]
<1>1. /\ ops' \in [Ops -> Operation \cup {None}]
      /\ \A o \in Ops : ops'[o] # ops[o] =>
           /\ o = q.op /\ ops'[o] \in Operation
           /\ (ops[o] = None /\ ClaimsRow(c, ops'[o])) \/ Settles(c, ops[o], ops'[o])
  BY RowFact
<1>2. /\ IsFiniteSet(CountedEvents) /\ Cardinality(CountedEvents) \in Nat /\ MaxEvents \in Nat
  <2>1. CountedEvents \in SUBSET Ops
    BY DEF CountedEvents
  <2>. QED BY <2>1, FS_Subset, FS_CardinalityType, FiniteAssumption, ConstantsAssumption
<1>3. CASE CountedEvents' \subseteq CountedEvents
  <2>1. CountedEvents' \in SUBSET CountedEvents
    BY <1>3
  <2>2. IsFiniteSet(CountedEvents') /\ Cardinality(CountedEvents') <= Cardinality(CountedEvents)
    BY <1>2, <2>1, FS_Subset
  <2>3. Cardinality(CountedEvents') \in Nat
    BY <2>2, FS_CardinalityType
  <2>. QED BY <1>2, <2>2, <2>3 DEF Budget
<1>4. CASE ~(CountedEvents' \subseteq CountedEvents)
  <2>1. PICK o \in CountedEvents' : o \notin CountedEvents
    BY <1>4
  <2>2. o \in Ops /\ ops'[o] # None /\ ops'[o].kind = "event" /\ ops'[o].outcome \in Counted /\ ops'[o] # ops[o]
    BY <2>1 DEF CountedEvents
  <2>3. /\ o = q.op /\ ops[o] = None /\ q.pc = "reserve" /\ ops'[o].outcome = "event_reserved"
    BY <1>1, <2>1, <2>2 DEF ClaimsRow, Settles, Running, Counted, CountedEvents
  <2>4. ReserveEvent(c)
    <3>1. ReserveEvent(c) \/ Crash(c)
      BY <2>3 DEF Step, Moves, AskIssuer, Arrive, ReadTarget, Lookup, Fetch, Answer, OpenChallenge, Issue, Withdraw,
                  Register, Revoke, Reread, Authorize, Dispatch, Invalidate, Finish, Break
    <3>. QED BY <2>2, <3>1 DEF Crash
  <2>5. PICK at \in Clocks(c) : ops' = IF MayClaim(q, at)
            THEN Claimed(c, IF IsCurrent(q, at) /\ Cardinality(Spent(q.op)) < MaxEvents
                              THEN "event_reserved" ELSE "conflict")
            ELSE ops
    BY <2>4 DEF ReserveEvent
  <2>6. Cardinality(Spent(o)) < MaxEvents
    <3>1. CASE Cardinality(Spent(o)) < MaxEvents
      BY <3>1
    <3>2. CASE ~(Cardinality(Spent(o)) < MaxEvents)
      <4>1. ops' = Claimed(c, "conflict")
        BY <2>2, <2>3, <2>5, <3>2
      <4>2. ops'[o].outcome = "conflict"
        BY <2>3, <4>1, ClaimFact DEF Outcomes
      <4>. QED BY <2>3, <4>2
    <3>. QED BY <3>1, <3>2
  <2>7. Spent(o) = CountedEvents
    BY <2>2, <2>3 DEF Spent, CountedEvents
  <2>8. CountedEvents' \subseteq CountedEvents \cup {o}
    BY <1>1, <2>3 DEF CountedEvents
  <2>9. /\ IsFiniteSet(CountedEvents \cup {o})
        /\ Cardinality(CountedEvents \cup {o}) = Cardinality(CountedEvents) + 1
    BY <1>2, <2>1, FS_AddElement
  <2>10. /\ IsFiniteSet(CountedEvents')
         /\ Cardinality(CountedEvents') <= Cardinality(CountedEvents \cup {o})
    <3>1. CountedEvents' \in SUBSET (CountedEvents \cup {o})
      BY <2>8
    <3>. QED BY <2>9, <3>1, FS_Subset
  <2>11. Cardinality(CountedEvents') \in Nat
    BY <2>10, FS_CardinalityType
  <2>. QED BY <1>2, <2>6, <2>7, <2>9, <2>10, <2>11 DEF Budget
<1>. QED BY <1>3, <1>4

\* One row accounts for each request that was sent.
LEMMA LedgerAccounts ==
  ASSUME TypeOK, Ledger, Budget
  PROVE  EventAccount
<1> DEFINE Senders == {c \in Calls : calls[c].sent}
           f == [c \in Senders |-> calls[c].op]
<1>1. ASSUME NEW c \in Senders
      PROVE  /\ calls[c].op \in Ops /\ ops[calls[c].op] # None /\ ops[calls[c].op].claim = c
             /\ calls[c].op \in CountedEvents /\ ops[calls[c].op].outcome \in Counted \ {"event_reserved"}
  BY DEF Ledger, ClaimOf, RowOf, CountedEvents
<1>2. ASSUME NEW o \in Ops
      PROVE  /\ Cardinality(SentFor(o)) <= 1
             /\ SentFor(o) # {} => ops[o].outcome \in Counted \ {"event_reserved"}
             /\ ops[o] # None /\ ops[o].outcome = "provider_accepted"
                  => \E c \in SentFor(o) : calls[c].answer = "accepted"
  <2>1. SentFor(o) \subseteq {ops[o].claim}
    BY <1>1 DEF SentFor
  <2>2. IsFiniteSet({ops[o].claim}) /\ Cardinality({ops[o].claim}) = 1
    BY FS_Singleton
  <2>3. SentFor(o) \in SUBSET {ops[o].claim}
    BY <2>1
  <2>4. Cardinality(SentFor(o)) <= 1
    BY <2>2, <2>3, FS_Subset
  <2>5. SentFor(o) # {} => ops[o].outcome \in Counted \ {"event_reserved"}
    BY <1>1 DEF SentFor
  <2>6. ASSUME ops[o] # None, ops[o].outcome = "provider_accepted"
        PROVE  \E c \in SentFor(o) : calls[c].answer = "accepted"
    BY <2>6 DEF Ledger, RowOf, SentFor, TypeOK, Operation
  <2>. QED BY <2>4, <2>5, <2>6
<1>3. Cardinality(Senders) <= MaxEvents
  <2>1. f \in Injection(Senders, CountedEvents)
    BY <1>1 DEF Injection, IsInjective
  <2>2. IsFiniteSet(CountedEvents)
    <3>1. CountedEvents \in SUBSET Ops
      BY DEF CountedEvents
    <3>. QED BY <3>1, FS_Subset, FiniteAssumption
  <2>. HIDE DEF Senders, f
  <2>3. IsFiniteSet(Senders) /\ Cardinality(Senders) <= Cardinality(CountedEvents)
    BY <2>1, <2>2, FS_Injection
  <2>4. Cardinality(Senders) \in Nat /\ Cardinality(CountedEvents) \in Nat /\ MaxEvents \in Nat
    BY <2>2, <2>3, FS_CardinalityType, ConstantsAssumption
  <2>. QED BY <2>3, <2>4 DEF Budget
<1>. QED BY <1>2, <1>3 DEF EventAccount, SendBudget, Truthful
-----------------------------------------------------------------------------
\* The inductive invariant.
IInv ==
  /\ TypeOK /\ Shape /\ Ledger /\ Answered
  /\ Descent /\ RevokedForCause /\ Capability /\ Budget

LEMMA InitIInv ==
  ASSUME Init
  PROVE  IInv
<1>1. TypeOK /\ Shape
  <2>1. Idle \in Call /\ Idle.pc = "idle"
    BY DEF Idle, Call
  <2>2. 0 \in 0 .. MaxTime
    BY ConstantsAssumption
  <2>3. TypeOK
    BY <2>1, <2>2 DEF Init, TypeOK
  <2>4. Shape
    BY <2>1 DEF Init, Shape, ShapeOf, IssuerSteps, HolderSteps, EventSteps, Holding
  <2>. QED BY <2>3, <2>4
<1>2. Ledger /\ Answered
  BY DEF Init, Ledger, ClaimOf, RowOf, Answered, Idle, Holding, Left, Open
<1>3. Descent /\ RevokedForCause /\ Capability
  BY DEF Init, Descent, Registered, OneLineage, RevokedForCause, Capability, Unique, Spending, WithdrawnIsDead
<1>4. Budget
  <2>1. CountedEvents = {}
    BY DEF Init, CountedEvents
  <2>. QED BY <2>1, FS_EmptySet, ConstantsAssumption DEF Budget
<1>. QED BY <1>1, <1>2, <1>3, <1>4 DEF IInv

LEMMA NextIInv ==
  ASSUME IInv, [Next]_vars
  PROVE  IInv'
<1>. USE DEF IInv
<1>1. CASE UNCHANGED <<revoked, challenges, caps, targets, ops, calls>> /\ now' \in 0 .. MaxTime
  <2>1. TypeOK' /\ Shape' /\ Ledger' /\ Answered'
    BY <1>1 DEF TypeOK, Shape, ShapeOf, Ledger, ClaimOf, RowOf, Answered
  <2>2. Descent' /\ RevokedForCause' /\ Capability' /\ Budget'
    BY <1>1 DEF Descent, Registered, OneLineage, RevokedForCause, Capability, Unique, Spending, WithdrawnIsDead,
                Budget, CountedEvents
  <2>. QED BY <2>1, <2>2
<1>2. CASE UNCHANGED vars
  BY <1>1, <1>2 DEF vars, TypeOK
<1>3. CASE Tick
  BY <1>1, <1>3, ConstantsAssumption DEF Tick, TypeOK
<1>4. ASSUME NEW c \in Calls, Step(c)
      PROVE  IInv'
  <2>1. calls' \in [Calls -> Call] /\ Shape'
    BY <1>4, StepFact
  <2>2. ops' \in [Ops -> Operation \cup {None}]
    BY <1>4, RowFact
  <2>3. targets' \in [Targets -> Target \cup {None}]
    BY <1>4, TargetFact
  <2>4. /\ Capability' /\ caps' \in [IssueOps -> {"live", "revoked", None}]
        /\ challenges' \in [IssueOps -> Challenge \cup {None}] /\ revoked' \in BOOLEAN
    BY <1>4, CapabilityStep
  <2>5. now' = now
    BY <1>4 DEF Step, Moves, AskIssuer, Arrive, ReadTarget, Lookup, Fetch, Answer, OpenChallenge, Issue, Withdraw,
                Register, Revoke, ReserveEvent, Reread, Authorize, Dispatch, Invalidate, Finish, Break, Crash
  <2>6. TypeOK'
    BY <2>1, <2>2, <2>3, <2>4, <2>5 DEF TypeOK
  <2>. QED BY <1>4, <2>1, <2>4, <2>6, LedgerStep, AnsweredStep, DescentStep, CauseStep, BudgetStep
<1>. QED BY <1>2, <1>3, <1>4, NextIsStep

LEMMA Inductive == Spec => []IInv
BY InitIInv, NextIInv, PTL DEF Spec

\* However many retries, crashes and lost answers: each event is sent at most
\* once, no more of them than the capability allows, and the ledger never
\* denies one that was sent nor claims one that was not.
THEOREM PushesAreAccounted == Spec => []EventAccount
<1>1. IInv => EventAccount
  BY LedgerAccounts DEF IInv
<1>. QED BY <1>1, Inductive, PTL

\* However registrations, revocations, refusals and a withdrawal race: a
\* revision has one author and a predecessor, a target is revoked for a cause,
\* and the delegation has at most one capability, which ends with it.
THEOREM OneLineOfDescent == Spec => []OneDescent
<1>1. ASSUME IInv
      PROVE  OneCapability
  <2>1. Cardinality({i \in IssueOps : caps[i] # None}) <= 1
    <3> DEFINE S == {i \in IssueOps : caps[i] # None}
    <3>1. CASE S = {}
      BY <3>1, FS_EmptySet
    <3>2. CASE S # {}
      <4>1. PICK i \in S : TRUE
        BY <3>2
      <4>2. S = {i}
        BY <1>1, <4>1 DEF IInv, Capability, Unique
      <4>. QED BY <4>2, FS_Singleton
    <3>. QED BY <3>1, <3>2
  <2>. QED BY <1>1, <2>1 DEF IInv, Capability, Spending, OneCapability
<1>2. IInv => OneDescent
  BY <1>1 DEF IInv, Descent, Capability, OneDescent
<1>. QED BY <1>2, Inductive, PTL

\* A revoked target and a settled outcome never change again.
THEOREM SettledIsFinal == Spec => SettledStays
<1> DEFINE Settled ==
      /\ \A t \in Targets : targets[t] # None /\ targets[t].state = "revoked" => targets'[t] = targets[t]
      /\ \A o \in Ops : ops[o] # None /\ ops[o].outcome \notin Running => ops'[o] = ops[o]
<1>1. ASSUME IInv, NEW c \in Calls, Step(c)
      PROVE  Settled
  <2>. USE <1>1 DEF IInv
  <2>1. ASSUME NEW o \in Ops, ops[o] # None, ops[o].outcome \notin Running
        PROVE  ops'[o] = ops[o]
    BY <2>1, RowFact DEF Settles
  <2>2. ASSUME NEW t \in Targets, targets[t] # None, targets[t].state = "revoked"
        PROVE  targets'[t] = targets[t]
    <3>1. targets[t] \in Target
      BY <2>2 DEF TypeOK
    <3>2. CASE Advances(c, t)
      BY <2>2, <3>2 DEF Advances, MayRegister
    <3>3. CASE Retires(c, t)
      BY <2>2, <3>1, <3>3 DEF Retires, Target
    <3>4. CASE Closes(c, t)
      BY <2>2, <3>1, <3>4 DEF Closes, Closed, Target
    <3>. QED BY <3>2, <3>3, <3>4, TargetFact
  <2>. QED BY <2>1, <2>2
<1>2. ASSUME UNCHANGED <<targets, ops>>
      PROVE  Settled
  BY <1>2
<1>3. IInv /\ [Next]_vars => [Settled]_vars
  BY <1>1, <1>2, NextIsStep DEF Tick, vars
<1>4. [Settled]_vars =>
        [/\ \A t \in Targets :
              targets[t] # None /\ targets[t].state = "revoked" => targets'[t] = targets[t]
         /\ \A o \in Ops :
              ops[o] # None /\ ops[o].outcome \notin {"event_reserved", "dispatch_started"}
                => ops'[o] = ops[o]]_vars
  BY DEF Running
<1>. QED BY <1>3, <1>4, Inductive, PTL DEF Spec, SettledStays

(***************************************************************************)
(* The journal of native proofs.  The inductive invariant adds that a      *)
(* stage has one claim, that the active claim is of the stage the phase    *)
(* says, and that a reservation in memory is of the claim it was made for. *)
(***************************************************************************)
Nonce(j, role) == Nonces[j][role]

Names == UNION {{Nonce(j, "key"), Nonce(j, "target")} : j \in Jobs}

JournalTypes ==
  /\ jobs \in [Jobs -> J!Job \cup {None}] /\ claims \in [Claims -> J!Claim \cup {None}]
  /\ DOMAIN nonces = Names /\ nonces = [x \in Names |-> nonces[x]]
  /\ \A x \in Names : nonces[x] # None => nonces[x] \subseteq Claims
  /\ counters \in [Keys -> J!Counter \cup {None}] /\ held \in [Claims -> J!Reservation \cup {None}]

\* A claim was drawn and is of a job, a reservation of its claim.
ClaimsOfJobs ==
  \A c \in Claims :
    /\ claims[c] # None => c \in drawn /\ jobs[claims[c].job] # None
    /\ held[c] # None => /\ claims[c] # None /\ claims[c].job = held[c].job
                         /\ claims[c].stage = held[c].stage

\* A stage has one claim, and the reserved one is active.
OneClaim ==
  /\ \A c, d \in Claims :
       (/\ claims[c] # None /\ claims[d] # None
        /\ claims[c].job = claims[d].job /\ claims[c].stage = claims[d].stage) => c = d
  /\ \A c \in Claims : claims[c] # None /\ claims[c].outcome = "reserved"
                         => jobs[claims[c].job].active = c
  /\ \A j \in Jobs : jobs[j] # None /\ jobs[j].active # None =>
       LET c == jobs[j].active
       IN /\ claims[c] # None /\ claims[c].job = j /\ claims[c].outcome = "reserved"
          /\ jobs[j].phase = J!Pending(claims[c].stage)

\* The stages before a claimed one are committed, and so is the one that led to
\* the phase.
IsCommitted(j, stage) ==
  \E c \in Claims : /\ claims[c] # None /\ claims[c].job = j /\ claims[c].stage = stage
                    /\ claims[c].outcome = "committed"
InSequence ==
  /\ \A c \in Claims : claims[c] # None => \A s \in J!Order[claims[c].stage] : IsCommitted(claims[c].job, s)
  /\ \A j \in Jobs, stage \in J!Stages :
       jobs[j] # None /\ jobs[j].phase = J!Committed(stage) => IsCommitted(j, stage)

\* The two nonces of a job are its own, and each is spent by the claim of its
\* verification.
NoncesSpentOf(j) ==
  /\ J!IsDistinct(j) /\ \A role \in {"key", "target"} : nonces[Nonce(j, role)] # None
  /\ \A k \in Jobs : jobs[k] # None /\ k # j =>
       \A r, s \in {"key", "target"} : Nonce(j, r) # Nonce(k, s)
  /\ \A stage \in {"verify_key", "verify_target"} :
       J!ClaimOf(j, stage) = nonces[Nonce(j, J!Role(stage))]
NoncesSpent == \A j \in Jobs : jobs[j] # None => NoncesSpentOf(j)

\* From its verification on a job has a key, and before it one that is known.
KeyedOf(row) ==
  /\ row.phase \in {"KEY_PREPARED", "KEY_VERIFYING"} /\ ~row.fresh => row.key \in Keys
  /\ row.phase \in {"KEY_VERIFIED", "TARGET_PREPARED", "TARGET_VERIFYING", "TARGET_VERIFIED"}
       => row.key \in Keys
Keyed == \A j \in Jobs : jobs[j] # None => KeyedOf(jobs[j])

JournalInv == JournalTypes /\ ClaimsOfJobs /\ OneClaim /\ InSequence /\ NoncesSpent /\ Keyed

LEMMA JournalInit ==
  ASSUME J!JournalAssumption, J!Init
  PROVE  JournalInv
BY DEF J!JournalAssumption, J!Init, JournalInv, JournalTypes, Names, Nonce, ClaimsOfJobs, OneClaim,
       InSequence, NoncesSpent, Keyed

\* A new job has two nonces that nobody has, and no claim.
LEMMA CreateKeeps ==
  ASSUME J!JournalAssumption, JournalInv, NEW n \in Journals, NEW j \in Jobs, J!CreateDataJob(n, j)
  PROVE  JournalInv'
<1>. USE DEF J!JournalAssumption
<1>1. J!NewJob \in J!Job /\ jobs' = [jobs EXCEPT ![j] = J!NewJob] /\ jobs[j] = None
  BY DEF J!CreateDataJob, J!NewJob, J!Job, J!Phases
<1>2. UNCHANGED <<claims, counters, held, drawn>>
  BY DEF J!CreateDataJob
<1>3. \A k \in Jobs : /\ k # j => jobs'[k] = jobs[k]
                      /\ k = j => jobs'[k] = J!NewJob /\ jobs'[k] # None
  BY <1>1 DEF JournalInv, JournalTypes
<1>4. \A c \in Claims : claims[c] # None => claims[c].job # j
  BY <1>1 DEF JournalInv, ClaimsOfJobs
<1>5. /\ Nonce(j, "key") # Nonce(j, "target") /\ nonces[Nonce(j, "key")] = None /\ nonces[Nonce(j, "target")] = None
      /\ Nonce(j, "key") \in Names /\ Nonce(j, "target") \in Names
      /\ \A x \in Names : nonces'[x] = IF x \in {Nonce(j, "key"), Nonce(j, "target")} THEN {} ELSE nonces[x]
      /\ DOMAIN nonces' = Names /\ nonces' = [x \in Names |-> nonces'[x]]
  BY DEF J!CreateDataJob, J!IsDistinct, J!IsUnseen, Nonce, Names, JournalInv, JournalTypes
<1>6. JournalTypes'
  BY <1>1, <1>2, <1>5 DEF JournalInv, JournalTypes, Names
<1>7. ClaimsOfJobs' /\ OneClaim'
  BY <1>2, <1>3, <1>4 DEF JournalInv, JournalTypes, ClaimsOfJobs, OneClaim, J!NewJob, J!Claim
<1>8. InSequence'
  BY <1>2, <1>3 DEF JournalInv, InSequence, IsCommitted, J!NewJob, J!Committed, J!Stages
<1>9. NoncesSpent'
  <2>1. ASSUME NEW k \in Jobs, k # j, jobs[k] # None
        PROVE  NoncesSpentOf(k)'
    <3>1. NoncesSpentOf(k)
      BY <2>1 DEF JournalInv, NoncesSpent
    <3>2. \A r \in {"key", "target"} : nonces'[Nonce(k, r)] = nonces[Nonce(k, r)]
      BY <1>5, <2>1, <3>1 DEF NoncesSpentOf, Names
    <3>3. \A stage \in {"verify_key", "verify_target"} : J!ClaimOf(k, stage)' = J!ClaimOf(k, stage)
      BY <1>2 DEF J!ClaimOf
    <3>4. \A i \in Jobs : jobs'[i] # None /\ i # k =>
            \A r, s \in {"key", "target"} : Nonce(k, r) # Nonce(i, s)
      BY <1>3, <1>5, <2>1, <3>1 DEF NoncesSpentOf
    <3>. QED BY <3>1, <3>2, <3>3, <3>4 DEF NoncesSpentOf, J!Role, Nonce
  <2>2. NoncesSpentOf(j)'
    <3>1. \A stage \in {"verify_key", "verify_target"} : J!ClaimOf(j, stage)' = {}
      BY <1>2, <1>4 DEF J!ClaimOf
    <3>2. \A role \in {"key", "target"} : nonces'[Nonce(j, role)] = {}
      BY <1>5
    <3>3. \A k \in Jobs : jobs'[k] # None /\ k # j =>
            \A r, s \in {"key", "target"} : Nonce(j, r) # Nonce(k, s)
      BY <1>3, <1>5 DEF JournalInv, NoncesSpent, NoncesSpentOf
    <3>. QED BY <1>5, <3>1, <3>2, <3>3 DEF NoncesSpentOf, J!IsDistinct, J!Role, Nonce
  <2>. QED BY <1>3, <2>1, <2>2 DEF NoncesSpent
<1>10. Keyed'
  BY <1>3 DEF JournalInv, Keyed, KeyedOf, J!NewJob
<1>. QED BY <1>6, <1>7, <1>8, <1>9, <1>10 DEF JournalInv

\* The stages in their order.
LEMMA StageFacts ==
  /\ \A s \in J!Stages : \A r \in J!Order[s] : r \in J!Stages /\ \A q \in J!Order[r] : q \in J!Order[s]
  /\ \A s, r \in J!Stages : J!Committed(s) = J!Committed(r) => s = r
  /\ \A s, r \in J!Stages : J!Before(s) = J!Committed(r) =>
        J!Order[s] = J!Order[r] \cup {r}
  /\ \A s \in J!Stages : J!Order[s] # {} => \E r \in J!Stages : J!Before(s) = J!Committed(r)
  /\ \A s \in J!Stages : /\ J!Pending(s) \in J!Phases /\ J!Committed(s) \in J!Phases /\ s \notin J!Order[s]
                         /\ \A r \in J!Stages : J!Pending(s) = J!Committed(r) => J!Pending(s) = J!Before(s)
<1>1. \A s \in J!Stages : s \in {"prepare_key", "verify_key", "prepare_target", "verify_target"}
  BY DEF J!Stages
<1>2. /\ J!Order["prepare_key"] = {} /\ J!Order["verify_key"] = {"prepare_key"}
      /\ J!Order["prepare_target"] = {"prepare_key", "verify_key"}
      /\ J!Order["verify_target"] = {"prepare_key", "verify_key", "prepare_target"}
  BY DEF J!Order
<1>3. \A s \in J!Stages : \A r \in J!Order[s] : r \in J!Stages /\ \A q \in J!Order[r] : q \in J!Order[s]
  BY <1>1, <1>2 DEF J!Stages
<1>4. /\ J!Committed("prepare_key") = "KEY_PREPARED" /\ J!Committed("verify_key") = "KEY_VERIFIED"
      /\ J!Committed("prepare_target") = "TARGET_PREPARED" /\ J!Committed("verify_target") = "TARGET_VERIFIED"
      /\ J!Before("prepare_key") = "APPROVED_AVAILABLE" /\ J!Before("verify_key") = "KEY_PREPARED"
      /\ J!Before("prepare_target") = "KEY_VERIFIED" /\ J!Before("verify_target") = "TARGET_PREPARED"
      /\ J!Pending("prepare_key") = "APPROVED_AVAILABLE" /\ J!Pending("verify_key") = "KEY_VERIFYING"
      /\ J!Pending("prepare_target") = "KEY_VERIFIED" /\ J!Pending("verify_target") = "TARGET_VERIFYING"
  BY DEF J!Committed, J!Before, J!Pending
<1>5. \A s, r \in J!Stages : J!Committed(s) = J!Committed(r) => s = r
  BY <1>1, <1>4
<1>6. \A s, r \in J!Stages : J!Before(s) = J!Committed(r) => J!Order[s] = J!Order[r] \cup {r}
  <2>. SUFFICES ASSUME NEW s \in J!Stages, NEW r \in J!Stages, J!Before(s) = J!Committed(r)
                PROVE  J!Order[s] = J!Order[r] \cup {r}
    OBVIOUS
  <2>1. \/ s = "verify_key" /\ r = "prepare_key"
        \/ s = "prepare_target" /\ r = "verify_key"
        \/ s = "verify_target" /\ r = "prepare_target"
    BY <1>1, <1>4
  <2>. QED BY <1>2, <2>1
<1>7. \A s \in J!Stages : J!Order[s] # {} => \E r \in J!Stages : J!Before(s) = J!Committed(r)
  BY <1>1, <1>2, <1>4 DEF J!Stages
<1>8. \A s \in J!Stages : J!Pending(s) \in J!Phases /\ J!Committed(s) \in J!Phases /\ s \notin J!Order[s]
  BY <1>1, <1>2, <1>4 DEF J!Phases
<1>9. \A s, r \in J!Stages : J!Pending(s) = J!Committed(r) => J!Pending(s) = J!Before(s)
  BY <1>1, <1>4
<1>. QED BY <1>3, <1>5, <1>6, <1>7, <1>8, <1>9

\* A written row is a row.
LEMMA JobFact ==
  ASSUME NEW row \in J!Job, NEW phase \in J!Phases \cup Retirements, NEW active \in Claims \cup {None}
  PROVE  LET new == J!Written(row, phase, active)
         IN /\ new \in J!Job /\ new.phase = phase /\ new.active = active
            /\ new.key = row.key /\ new.fresh = row.fresh
<1>1. row.revision + 1 \in Nat
  BY DEF J!Job
<1>. QED BY <1>1 DEF J!Job, J!Written

\* A stage is reserved when the one before it is committed, and only once.
LEMMA ReserveKeeps ==
  ASSUME J!JournalAssumption, JournalInv, NEW n \in Journals, NEW j \in Jobs, NEW stage \in J!Stages,
         NEW c \in Claims, J!ReserveDataStage(n, j, stage, c)
  PROVE  JournalInv'
<1>. USE DEF J!JournalAssumption
<1> DEFINE row == J!Written(jobs[j], J!Pending(stage), c)
           claim == [job |-> j, stage |-> stage, outcome |-> "reserved"]
<1>1. /\ jobs[j] # None /\ jobs[j].phase = J!Before(stage) /\ jobs[j].active = None
      /\ nonces[Nonce(j, J!Role(stage))] = {} /\ J!ClaimOf(j, stage) = {}
      /\ c \notin drawn /\ drawn' = drawn \cup {c} /\ UNCHANGED counters
      /\ jobs' = [jobs EXCEPT ![j] = row] /\ claims' = [claims EXCEPT ![c] = claim]
  BY DEF J!ReserveDataStage, J!MayReserve, J!Begins, Nonce
<1>2. /\ row \in J!Job /\ row # None /\ claim \in J!Claim /\ claim # None /\ jobs[j] \in J!Job
      /\ row.active = c /\ row.phase = J!Pending(stage) /\ row.key = jobs[j].key /\ row.fresh = jobs[j].fresh
  <2>1. jobs[j] \in J!Job
    BY <1>1 DEF JournalInv, JournalTypes
  <2>2. J!Pending(stage) \in J!Phases \cup Retirements
    BY StageFacts
  <2>3. /\ row \in J!Job /\ row.active = c /\ row.phase = J!Pending(stage)
        /\ row.key = jobs[j].key /\ row.fresh = jobs[j].fresh
    BY <2>1, <2>2, JobFact
  <2>4. claim \in J!Claim
    BY DEF J!Claim
  <2>. QED BY <2>1, <2>3, <2>4
<1>3. claims[c] = None /\ held[c] = None
  BY <1>1 DEF JournalInv, ClaimsOfJobs
<1>4. /\ \A k \in Jobs : jobs'[k] = IF k = j THEN row ELSE jobs[k]
      /\ \A d \in Claims : claims'[d] = IF d = c THEN claim ELSE claims[d]
  BY <1>1 DEF JournalInv, JournalTypes
<1>5. /\ held' \in [Claims -> J!Reservation \cup {None}]
      /\ \A d \in Claims : /\ d # c => held'[d] = held[d]
                           /\ held'[c] # None => held'[c].job = j /\ held'[c].stage = stage
  BY <1>2, <1>3 DEF J!ReserveDataStage, JournalInv, JournalTypes, J!Reservation
<1>. HIDE DEF row, claim
<1>6. JournalTypes'
  <2>1. DOMAIN nonces' = Names /\ nonces' = [x \in Names |-> nonces'[x]]
    <3>1. CASE J!Verifies(stage)
      BY <3>1 DEF J!ReserveDataStage, JournalInv, JournalTypes
    <3>2. CASE ~J!Verifies(stage)
      BY <3>2 DEF J!ReserveDataStage, JournalInv, JournalTypes
    <3>. QED BY <3>1, <3>2
  <2>2. \A x \in Names : nonces'[x] # None => nonces'[x] \subseteq Claims
    BY DEF J!ReserveDataStage, JournalInv, JournalTypes
  <2>. QED BY <1>1, <1>2, <1>5, <2>1, <2>2 DEF JournalInv, JournalTypes, Names
<1>7. ClaimsOfJobs'
  BY <1>1, <1>2, <1>3, <1>4, <1>5 DEF JournalInv, JournalTypes, J!Claim, ClaimsOfJobs, claim
<1>8. OneClaim'
  <2>1. \A d \in Claims : claims[d] # None => claims[d].job # j \/ claims[d].stage # stage
    BY <1>1 DEF J!ClaimOf
  <2>2. \A d \in Claims : claims[d] # None /\ claims[d].outcome = "reserved" => claims[d].job # j
    BY <1>1 DEF JournalInv, OneClaim
  <2>. QED BY <1>2, <1>3, <1>4, <2>1, <2>2 DEF JournalInv, JournalTypes, J!Job, J!Claim, OneClaim, claim
<1>9. \A k \in Jobs, s \in J!Stages : IsCommitted(k, s) => IsCommitted(k, s)'
  BY <1>3, <1>4 DEF IsCommitted
<1>10. InSequence'
  <2>1. \A s \in J!Order[stage] : IsCommitted(j, s)
    <3>1. CASE J!Order[stage] = {}
      BY <3>1
    <3>2. CASE J!Order[stage] # {}
      <4>1. PICK r \in J!Stages : J!Before(stage) = J!Committed(r)
        BY <3>2, StageFacts
      <4>2. IsCommitted(j, r)
        BY <1>1, <4>1 DEF JournalInv, InSequence
      <4>3. \A s \in J!Order[r] : IsCommitted(j, s)
        BY <4>2 DEF JournalInv, InSequence, IsCommitted
      <4>. QED BY <4>1, <4>2, <4>3, StageFacts
    <3>. QED BY <3>1, <3>2
  <2>2. ASSUME NEW d \in Claims, claims'[d] # None, NEW s \in J!Order[claims'[d].stage]
        PROVE  \E k \in Jobs : k = claims'[d].job /\ IsCommitted(k, s)'
    <3>1. CASE d = c
      <4>1. claims'[d].job = j /\ claims'[d].stage = stage
        BY <1>4, <3>1 DEF claim
      <4>2. s \in J!Stages /\ IsCommitted(j, s)
        BY <2>1, <2>2, <4>1, StageFacts
      <4>. QED BY <1>9, <4>1, <4>2
    <3>2. CASE d # c
      <4>1. claims[d] \in J!Claim /\ claims'[d] = claims[d] /\ IsCommitted(claims[d].job, s)
        BY <1>4, <2>2, <3>2 DEF JournalInv, JournalTypes, InSequence
      <4>2. claims[d].job \in Jobs /\ s \in J!Stages
        BY <2>2, <4>1, StageFacts DEF J!Claim
      <4>. QED BY <1>9, <4>1, <4>2
    <3>. QED BY <3>1, <3>2
  <2>3. ASSUME NEW k \in Jobs, NEW s \in J!Stages, jobs'[k] # None, jobs'[k].phase = J!Committed(s)
        PROVE  IsCommitted(k, s)'
    <3>1. jobs[k] # None /\ jobs[k].phase = J!Committed(s)
      BY <1>1, <1>2, <1>4, <2>3, StageFacts
    <3>. QED BY <1>9, <3>1 DEF JournalInv, InSequence
  <2>. QED BY <2>2, <2>3 DEF InSequence
<1>11. NoncesSpent'
  <2>1. ASSUME NEW k \in Jobs, jobs[k] # None
        PROVE  NoncesSpentOf(k)'
    <3>1. NoncesSpentOf(k) /\ NoncesSpentOf(j)
      BY <1>1, <2>1 DEF JournalInv, NoncesSpent
    <3>2. \A i \in Jobs : jobs'[i] # None => jobs[i] # None
      BY <1>1, <1>4
    <3>3. ASSUME NEW s \in {"verify_key", "verify_target"}
          PROVE  /\ J!ClaimOf(k, s)' = nonces'[Nonce(k, J!Role(s))]
                 /\ nonces'[Nonce(k, J!Role(s))] # None
      <4>1. J!ClaimOf(k, s)' = IF k = j /\ s = stage THEN {c} ELSE J!ClaimOf(k, s)
        BY <1>1, <1>2, <1>3, <1>4 DEF J!ClaimOf, claim
      <4>2. Nonce(k, J!Role(s)) \in Names /\ Nonce(j, J!Role(stage)) \in Names
        BY DEF Names, J!Role
      <4>3. nonces'[Nonce(k, J!Role(s))] =
              IF k = j /\ s = stage THEN {c} ELSE nonces[Nonce(k, J!Role(s))]
        <5>1. CASE J!Verifies(stage)
          <6>1. Nonce(k, J!Role(s)) = Nonce(j, J!Role(stage)) <=> k = j /\ s = stage
            BY <2>1, <3>1, <5>1, <1>1 DEF NoncesSpentOf, J!Verifies, J!Role, J!IsDistinct, Nonce
          <6>2. nonces' = [nonces EXCEPT ![Nonce(j, J!Role(stage))] = {c}]
            BY <5>1 DEF J!ReserveDataStage, Nonce
          <6>. QED BY <4>2, <6>1, <6>2 DEF JournalInv, JournalTypes
        <5>2. CASE ~J!Verifies(stage)
          BY <5>2 DEF J!ReserveDataStage, J!Verifies
        <5>. QED BY <5>1, <5>2
      <4>. QED BY <3>1, <4>1, <4>3 DEF NoncesSpentOf, J!Role
    <3>. QED BY <3>1, <3>2, <3>3 DEF NoncesSpentOf, J!Role, J!IsDistinct, Nonce
  <2>. QED BY <1>1, <1>4, <2>1 DEF NoncesSpent
<1>12. Keyed'
  <2>1. stage \in {"prepare_key", "verify_key", "prepare_target", "verify_target"}
    BY DEF J!Stages
  <2>. QED BY <1>1, <1>2, <1>4, <2>1 DEF JournalInv, Keyed, KeyedOf, J!Pending, J!Before
<1>. QED BY <1>6, <1>7, <1>8, <1>10, <1>11, <1>12 DEF JournalInv

\* Reservations may leave a journal's memory.
Forgets == held' \in [Claims -> J!Reservation \cup {None}] /\ \A c \in Claims : held'[c] \in {held[c], None}

LEMMA IdleKeeps ==
  ASSUME JournalInv, Forgets, UNCHANGED <<jobs, claims, nonces, counters, drawn>>
  PROVE  JournalInv'
<1>1. JournalTypes' /\ ClaimsOfJobs'
  BY DEF Forgets, JournalInv, JournalTypes, Names, ClaimsOfJobs
<1>2. OneClaim' /\ InSequence' /\ Keyed'
  BY DEF JournalInv, OneClaim, InSequence, IsCommitted, Keyed
<1>3. NoncesSpent'
  BY DEF JournalInv, NoncesSpent, NoncesSpentOf, J!ClaimOf
<1>. QED BY <1>1, <1>2, <1>3 DEF JournalInv

\* The reserved claim of a job, if any, is settled with a result, and the job
\* goes on to what that stage leads to, or is retired.
JobSettled(j, row, result) ==
  /\ jobs[j] # None /\ row \in J!Job /\ row.active = None /\ KeyedOf(row)
  /\ jobs' = [jobs EXCEPT ![j] = row]
  /\ claims' = [c \in Claims |->
       IF claims[c] # None /\ claims[c].job = j /\ claims[c].outcome = "reserved"
         THEN [claims[c] EXCEPT !.outcome = result] ELSE claims[c]]
  /\ \/ result = "retired" /\ row.phase \in Retirements
     \/ result = "committed" /\ jobs[j].active # None /\ row.phase = J!Committed(claims[jobs[j].active].stage)

LEMMA SettleKeeps ==
  ASSUME J!JournalAssumption, JournalInv, Forgets, NEW j \in Jobs, NEW row, NEW result, JobSettled(j, row, result),
         counters' \in [Keys -> J!Counter \cup {None}], UNCHANGED <<nonces, drawn>>
  PROVE  JournalInv'
<1>1. /\ None \notin J!Job /\ None \notin J!Claim /\ Retirements \cap J!Phases = {}
      /\ row # None /\ row \in J!Job /\ row.active = None /\ result \in {"committed", "retired"}
  BY DEF J!JournalAssumption, JobSettled
<1>2. \A k \in Jobs : jobs'[k] = IF k = j THEN row ELSE jobs[k]
  BY DEF JobSettled, JournalInv, JournalTypes
<1>3. ASSUME NEW c \in Claims
      PROVE  /\ claims[c] = None <=> claims'[c] = None
             /\ claims'[c] \in J!Claim \cup {None}
             /\ claims[c] # None =>
                  /\ claims'[c].job = claims[c].job /\ claims'[c].stage = claims[c].stage
                  /\ claims'[c].outcome = IF claims[c].job = j /\ claims[c].outcome = "reserved"
                                            THEN result ELSE claims[c].outcome
                  /\ claims[c] \in J!Claim
  <2>1. CASE claims[c] = None
    BY <2>1 DEF JobSettled
  <2>2. CASE claims[c] # None
    <3>1. claims[c] \in J!Claim
      BY <2>2 DEF JournalInv, JournalTypes
    <3>2. [claims[c] EXCEPT !.outcome = result] \in J!Claim
      BY <1>1, <3>1 DEF J!Claim
    <3>. QED BY <1>1, <2>2, <3>1, <3>2 DEF JobSettled, J!Claim
  <2>. QED BY <2>1, <2>2
<1>4. JournalTypes'
  <2>1. jobs' \in [Jobs -> J!Job \cup {None}]
    BY <1>1 DEF JobSettled, JournalInv, JournalTypes
  <2>2. claims' \in [Claims -> J!Claim \cup {None}]
    BY <1>3 DEF JobSettled
  <2>. QED BY <2>1, <2>2 DEF Forgets, JournalInv, JournalTypes, Names
<1>5. ClaimsOfJobs'
  <2>1. \A c \in Claims : claims[c] # None => claims[c].job \in Jobs
    BY <1>3 DEF J!Claim
  <2>. QED BY <1>1, <1>2, <1>3, <2>1 DEF Forgets, JournalInv, ClaimsOfJobs
<1>6. OneClaim'
  <2>1. \A c, d \in Claims :
          (/\ claims'[c] # None /\ claims'[d] # None
           /\ claims'[c].job = claims'[d].job /\ claims'[c].stage = claims'[d].stage) => c = d
    BY <1>3 DEF JournalInv, OneClaim
  <2>2. ASSUME NEW c \in Claims, claims'[c] # None, claims'[c].outcome = "reserved"
        PROVE  jobs'[claims'[c].job].active = c
    <3>1. claims[c] # None /\ claims[c].job # j /\ claims[c].outcome = "reserved" /\ claims[c].job \in Jobs
      BY <1>1, <1>3, <2>2 DEF J!Claim
    <3>2. jobs[claims[c].job].active = c
      BY <3>1 DEF JournalInv, OneClaim
    <3>. QED BY <1>2, <1>3, <3>1, <3>2
  <2>3. ASSUME NEW k \in Jobs, jobs'[k] # None, jobs'[k].active # None
        PROVE  LET c == jobs'[k].active
               IN /\ claims'[c] # None /\ claims'[c].job = k /\ claims'[c].outcome = "reserved"
                  /\ jobs'[k].phase = J!Pending(claims'[c].stage)
    <3>1. k # j /\ jobs'[k] = jobs[k] /\ jobs[k].active \in Claims
      BY <1>1, <1>2, <2>3 DEF JournalInv, JournalTypes, J!Job
    <3>. QED BY <1>3, <2>3, <3>1 DEF JournalInv, OneClaim
  <2>. QED BY <2>1, <2>2, <2>3 DEF OneClaim
<1>7. \A k \in Jobs, s \in J!Stages : IsCommitted(k, s) => IsCommitted(k, s)'
  BY <1>3 DEF IsCommitted
<1>8. InSequence'
  <2>1. ASSUME NEW d \in Claims, claims'[d] # None, NEW s \in J!Order[claims'[d].stage]
        PROVE  \E k \in Jobs : k = claims'[d].job /\ IsCommitted(k, s)'
    <3>1. /\ claims[d] \in J!Claim /\ claims'[d].job = claims[d].job /\ claims'[d].stage = claims[d].stage
          /\ claims[d] # None
      BY <1>3, <2>1
    <3>2. claims[d].job \in Jobs /\ s \in J!Stages /\ IsCommitted(claims[d].job, s)
      BY <2>1, <3>1, StageFacts DEF J!Claim, JournalInv, InSequence
    <3>. QED BY <1>7, <3>1, <3>2
  <2>2. ASSUME NEW k \in Jobs, NEW s \in J!Stages, jobs'[k] # None, jobs'[k].phase = J!Committed(s)
        PROVE  IsCommitted(k, s)'
    <3>1. CASE k # j
      BY <1>2, <1>7, <2>2, <3>1 DEF JournalInv, InSequence
    <3>2. CASE k = j
      <4>1. /\ result = "committed" /\ jobs[j].active # None
            /\ J!Committed(s) = J!Committed(claims[jobs[j].active].stage)
        BY <1>1, <1>2, <2>2, <3>2, StageFacts DEF JobSettled
      <4> DEFINE c == jobs[j].active
      <4>2. c \in Claims /\ claims[c] # None /\ claims[c].job = j /\ claims[c].outcome = "reserved"
        BY <4>1 DEF JobSettled, JournalInv, JournalTypes, OneClaim, J!Job
      <4>3. claims[c].stage = s
        BY <1>3, <4>1, <4>2, StageFacts DEF J!Claim
      <4>. QED BY <1>3, <3>2, <4>1, <4>2, <4>3 DEF IsCommitted
    <3>. QED BY <3>1, <3>2
  <2>. QED BY <2>1, <2>2 DEF InSequence
<1>9. NoncesSpent'
  <2>1. \A k \in Jobs : jobs'[k] # None => jobs[k] # None
    BY <1>2 DEF JobSettled
  <2>2. \A k \in Jobs, s \in J!Stages : J!ClaimOf(k, s)' = J!ClaimOf(k, s)
    BY <1>3 DEF J!ClaimOf
  <2>3. \A k \in Jobs : NoncesSpentOf(k) => NoncesSpentOf(k)'
    BY <2>1, <2>2 DEF NoncesSpentOf, J!Stages
  <2>. QED BY <2>1, <2>3 DEF JournalInv, NoncesSpent
<1>10. Keyed'
  BY <1>2 DEF JobSettled, JournalInv, Keyed
<1>. QED BY <1>4, <1>5, <1>6, <1>8, <1>9, <1>10 DEF JournalInv

\* What a reservation that is still owned says.
LEMMA OwnedFact ==
  ASSUME J!JournalAssumption, JournalInv, NEW c \in Claims, held[c] # None, J!IsOwned(held[c], c)
  PROVE  LET h == held[c]
         IN /\ h \in J!Reservation /\ h.job \in Jobs /\ h.stage \in J!Stages
            /\ h.row \in J!Job /\ jobs[h.job] = h.row /\ h.row # None /\ h.row.active = c /\ c # None
            /\ claims[c] \in J!Claim /\ claims[c] # None /\ claims[c].job = h.job /\ claims[c].stage = h.stage
            /\ claims[c].outcome = "reserved" /\ h.row.phase = J!Pending(h.stage)
            /\ \A d \in Claims : (claims[d] # None /\ claims[d].job = h.job /\ claims[d].outcome = "reserved") <=> d = c
<1>1. held[c] \in J!Reservation /\ claims[c] # None /\ claims[c].job = held[c].job /\ claims[c].stage = held[c].stage
  BY DEF JournalInv, JournalTypes, ClaimsOfJobs
<1>2. claims[c] \in J!Claim
  BY <1>1 DEF JournalInv, JournalTypes
<1>3. held[c].row # None /\ c # None
  BY <1>1 DEF J!JournalAssumption, J!Reservation
<1>4. /\ held[c].job \in Jobs /\ held[c].stage \in J!Stages /\ held[c].row \in J!Job
      /\ jobs[held[c].job] = held[c].row /\ held[c].row.active = c /\ claims[c].outcome = "reserved"
  BY <1>1 DEF J!Reservation, J!IsOwned
<1>. QED BY <1>1, <1>2, <1>3, <1>4 DEF JournalInv, OneClaim

LEMMA CommitKeeps ==
  ASSUME J!JournalAssumption, JournalInv, NEW c \in Claims, held[c] # None, J!IsOwned(held[c], c), Forgets,
         NEW row \in J!Job, row.phase = J!Committed(held[c].stage), row.active = None, KeyedOf(row),
         jobs' = [jobs EXCEPT ![held[c].job] = row], claims' = [claims EXCEPT ![c].outcome = "committed"],
         counters' \in [Keys -> J!Counter \cup {None}], UNCHANGED <<nonces, drawn>>
  PROVE  JournalInv'
<1>. DEFINE h == held[c]
<1>1. /\ h.job \in Jobs /\ h.stage \in J!Stages /\ jobs[h.job] = h.row /\ h.row # None
      /\ h.row.active = c /\ c # None /\ claims[c].stage = h.stage
      /\ \A d \in Claims : (claims[d] # None /\ claims[d].job = h.job /\ claims[d].outcome = "reserved") <=> d = c
  BY OwnedFact
<1>2. DOMAIN claims = Claims
  BY DEF JournalInv, JournalTypes
<1>3. claims' = [d \in Claims |->
        IF claims[d] # None /\ claims[d].job = h.job /\ claims[d].outcome = "reserved"
          THEN [claims[d] EXCEPT !.outcome = "committed"] ELSE claims[d]]
  BY <1>1, <1>2
<1>4. JobSettled(h.job, row, "committed")
  BY <1>1, <1>3 DEF JobSettled
<1>. QED BY <1>1, <1>4, SettleKeeps

\* A key or a target is prepared, or verified with its counter; or the answer
\* is lost, or too late.
LEMMA CompleteKeeps ==
  ASSUME J!JournalAssumption, JournalInv, NEW c \in Claims, J!CompleteDataStage(c)
  PROVE  JournalInv'
<1>. DEFINE h == held[c]
            done == J!Written(h.row, J!Committed(h.stage), None)
            Prepared(key) ==
              [done EXCEPT !.key = key, !.fresh = IF h.stage = "prepare_key" THEN key = None ELSE @]
            Verified(key) == [done EXCEPT !.key = key]
<1>1. Forgets /\ h # None /\ UNCHANGED <<nonces, drawn>>
  BY DEF J!CompleteDataStage, J!Take, Forgets, JournalInv, JournalTypes
<1>2. CASE UNCHANGED <<jobs, claims, counters>>
  BY <1>1, <1>2, IdleKeeps
<1>3. ASSUME J!IsOwned(h, c)
      PROVE  /\ done \in J!Job /\ done.phase = J!Committed(h.stage) /\ done.active = None
             /\ done.key = h.row.key /\ done.fresh = h.row.fresh
             /\ h \in J!Reservation /\ h.job \in Jobs /\ h.stage \in J!Stages /\ h.row \in J!Job
             /\ h.row.phase = J!Pending(h.stage) /\ KeyedOf(h.row)
  <2>1. /\ h \in J!Reservation /\ h.job \in Jobs /\ h.stage \in J!Stages /\ h.row \in J!Job
        /\ h.row.phase = J!Pending(h.stage) /\ jobs[h.job] = h.row /\ h.row # None
    BY <1>1, <1>3, OwnedFact
  <2>2. J!Committed(h.stage) \in J!Phases
    BY <2>1, StageFacts
  <2>3. /\ done \in J!Job /\ done.phase = J!Committed(h.stage) /\ done.active = None
        /\ done.key = h.row.key /\ done.fresh = h.row.fresh
    BY <2>1, <2>2, JobFact
  <2>. QED BY <2>1, <2>3 DEF JournalInv, Keyed
<1>4. ASSUME ~J!Verifies(h.stage), J!IsOwned(h, c), UNCHANGED counters,
             claims' = [claims EXCEPT ![c].outcome = "committed"],
             NEW key \in IF h.stage = "prepare_key" THEN Keys \cup {None} ELSE {h.row.key},
             jobs' = [jobs EXCEPT ![h.job] = Prepared(key)]
      PROVE  JournalInv'
  <2>1. h.stage \in {"prepare_key", "prepare_target"} /\ key \in Keys \cup {None}
    BY <1>3, <1>4 DEF J!Verifies, J!Stages, J!Job
  <2>2. /\ Prepared(key) \in J!Job /\ Prepared(key).phase = done.phase /\ Prepared(key).active = done.active
        /\ Prepared(key).key = key /\ h.stage = "prepare_key" => (Prepared(key).fresh <=> key = None)
    BY <1>3, <1>4, <2>1 DEF J!Job
  <2>3. KeyedOf(Prepared(key))
    BY <1>3, <1>4, <2>1, <2>2 DEF KeyedOf, J!Pending, J!Before, J!Committed
  <2>4. counters' \in [Keys -> J!Counter \cup {None}]
    BY <1>4 DEF JournalInv, JournalTypes
  <2>. QED BY <1>1, <1>3, <1>4, <2>2, <2>3, <2>4, CommitKeeps
<1>5. ASSUME J!Verifies(h.stage), J!IsOwned(h, c), claims' = [claims EXCEPT ![c].outcome = "committed"],
             NEW x \in J!Completions(h), J!MayCount(h, x),
             counters' = [counters EXCEPT ![x.key] = J!Counted(h, x)],
             jobs' = [jobs EXCEPT ![h.job] = Verified(x.key)]
      PROVE  JournalInv'
  <2>1. h.stage \in {"verify_key", "verify_target"}
    BY <1>5 DEF J!Verifies
  <2>2. x.key \in Keys
    BY <1>3, <1>5, <2>1 DEF J!Completions, J!Attests, KeyedOf, J!Pending, J!Before
  <2>3. ASSUME NEW key \in Keys
        PROVE  /\ Verified(key) \in J!Job /\ Verified(key).phase = done.phase
               /\ Verified(key).active = done.active /\ Verified(key).key = key
    <3>. HIDE DEF done
    <3>. QED BY <1>3, <1>5 DEF J!Job
  <2>4. KeyedOf(Verified(x.key))
    BY <2>2, <2>3 DEF KeyedOf
  <2>5. J!Counted(h, x) \in J!Counter
    <3>1. CASE J!Attests(h)
      <4>1. ScopeOf[h.job] \in {ScopeOf[j] : j \in Jobs}
        BY <1>3, <1>5
      <4>. QED BY <3>1, <4>1 DEF J!Counted, J!Counter
    <3>2. CASE ~J!Attests(h)
      <4>1. counters[x.key] \in J!Counter /\ x.counter \in 0 .. MaxCounter
        BY <1>5, <2>2, <3>2 DEF J!MayCount, JournalInv, JournalTypes, J!Completions
      <4>2. counters[x.key].revision + 1 \in Nat /\ x.counter \in Nat
        BY <4>1 DEF J!Counter, J!JournalAssumption
      <4>. QED BY <3>2, <4>1, <4>2 DEF J!Counted, J!Counter
    <3>. QED BY <3>1, <3>2
  <2>6. counters' \in [Keys -> J!Counter \cup {None}]
    BY <1>5, <2>5 DEF JournalInv, JournalTypes
  <2>7. /\ Verified(x.key) \in J!Job /\ Verified(x.key).phase = J!Committed(h.stage)
        /\ Verified(x.key).active = None
    BY <1>3, <1>5, <2>2, <2>3
  <2>. HIDE DEF Verified, done
  <2>. QED BY <1>1, <1>5, <2>4, <2>6, <2>7, CommitKeeps
<1>. QED BY <1>2, <1>4, <1>5 DEF J!CompleteDataStage

\* A job is retired by the journal that reserved its stage.
LEMMA RejectKeeps ==
  ASSUME J!JournalAssumption, JournalInv, NEW c \in Claims, J!RejectOrRetireDataStage(c)
  PROVE  JournalInv'
<1>. DEFINE h == held[c]
<1>1. Forgets /\ h # None /\ UNCHANGED <<nonces, drawn, counters>>
  BY DEF J!RejectOrRetireDataStage, J!Take, Forgets, JournalInv, JournalTypes
<1>2. CASE UNCHANGED <<jobs, claims>>
  BY <1>1, <1>2, IdleKeeps
<1>3. ASSUME J!IsOwned(h, c), NEW reason \in Retirements,
             jobs' = [jobs EXCEPT ![h.job] = J!Retired(h.row, reason)],
             claims' = [claims EXCEPT ![c].outcome = "retired"]
      PROVE  JournalInv'
  <2>1. /\ h.job \in Jobs /\ h.stage \in J!Stages /\ jobs[h.job] = h.row /\ h.row # None
        /\ h.row \in J!Job
        /\ \A d \in Claims : (claims[d] # None /\ claims[d].job = h.job /\ claims[d].outcome = "reserved") <=> d = c
    BY <1>1, <1>3, OwnedFact
  <2>2. DOMAIN claims = Claims /\ counters' \in [Keys -> J!Counter \cup {None}]
    BY <1>1 DEF JournalInv, JournalTypes
  <2>3. claims' = [d \in Claims |->
          IF claims[d] # None /\ claims[d].job = h.job /\ claims[d].outcome = "reserved"
            THEN [claims[d] EXCEPT !.outcome = "retired"] ELSE claims[d]]
    BY <1>3, <2>1, <2>2
  <2>4. LET row == J!Retired(h.row, reason)
        IN row \in J!Job /\ row.phase = reason /\ row.active = None
    BY <2>1, JobFact DEF J!Retired
  <2>5. KeyedOf(J!Retired(h.row, reason))
    BY <2>4 DEF KeyedOf, J!JournalAssumption, J!Phases
  <2>6. JobSettled(h.job, J!Retired(h.row, reason), "retired")
    BY <1>3, <2>1, <2>3, <2>4, <2>5 DEF JobSettled
  <2>. QED BY <1>1, <2>1, <2>2, <2>6, SettleKeeps
<1>. QED BY <1>2, <1>3 DEF J!RejectOrRetireDataStage

\* A job is retired without a reservation.
LEMMA RetireKeeps ==
  ASSUME J!JournalAssumption, JournalInv, NEW n \in Journals, NEW j \in Jobs, J!RetireDataJob(n, j)
  PROVE  JournalInv'
<1>1. Forgets /\ UNCHANGED <<nonces, drawn, counters>>
  BY DEF J!RetireDataJob, Forgets, JournalInv, JournalTypes
<1>2. CASE UNCHANGED <<jobs, claims>>
  BY <1>1, <1>2, IdleKeeps
<1>3. ASSUME jobs[j] # None, NEW reason \in Retirements,
             jobs' = [jobs EXCEPT ![j] = J!Retired(jobs[j], reason)], claims' = J!Released(j)
      PROVE  JournalInv'
  <2>1. jobs[j] \in J!Job /\ counters' \in [Keys -> J!Counter \cup {None}]
    BY <1>1, <1>3 DEF JournalInv, JournalTypes
  <2>2. LET row == J!Retired(jobs[j], reason)
        IN row \in J!Job /\ row.phase = reason /\ row.active = None
    BY <2>1, JobFact DEF J!Retired
  <2>3. KeyedOf(J!Retired(jobs[j], reason))
    BY <2>2 DEF KeyedOf, J!JournalAssumption, J!Phases
  <2>4. JobSettled(j, J!Retired(jobs[j], reason), "retired")
    BY <1>3, <2>2, <2>3 DEF JobSettled, J!Released
  <2>. QED BY <1>1, <2>1, <2>4, SettleKeeps
<1>. QED BY <1>2, <1>3 DEF J!RetireDataJob

JournalSpec == J!Init /\ [][J!Next]_J!vars

\* The inductive invariant holds however the journals' steps interleave.
LEMMA JournalInductive ==
  ASSUME J!JournalAssumption
  PROVE  JournalSpec => []JournalInv
<1>1. ASSUME JournalInv, [J!Next]_J!vars
      PROVE  JournalInv'
  <2>1. CASE UNCHANGED <<jobs, claims, nonces, counters, held, drawn>>
    <3>1. Forgets
      BY <1>1, <2>1 DEF Forgets, JournalInv, JournalTypes
    <3>. QED BY <1>1, <2>1, <3>1, IdleKeeps
  <2>2. CASE J!Next
    <3>1. ASSUME NEW n \in Journals, J!Close(n)
          PROVE  JournalInv'
      BY <2>1, <3>1 DEF J!Close
    <3>. QED BY <1>1, <2>2, <3>1, CreateKeeps, RetireKeeps, ReserveKeeps, CompleteKeeps, RejectKeeps DEF J!Next
  <2>. QED BY <1>1, <2>1, <2>2 DEF J!vars
<1>. QED BY <1>1, JournalInit, PTL DEF JournalSpec

\* However the journals' operations interleave, whichever answers are lost and
\* journals closed: the phase of a job, its active claim, its claims and its
\* nonces tell one story.
THEOREM JobsTellOneStory ==
  ASSUME J!JournalAssumption
  PROVE  JournalSpec => []OneStory
<1>1. ASSUME JournalInv
      PROVE  J!OneStory
  <2>1. ASSUME NEW j \in Jobs, jobs[j] # None
        PROVE  {c \in J!Made(j) : claims[c].outcome = "reserved"} = {jobs[j].active} \ {None}
    <3>1. jobs[j].active \in Claims \cup {None}
      BY <1>1, <2>1 DEF JournalInv, JournalTypes, J!Job
    <3>. QED BY <1>1, <2>1, <3>1 DEF J!JournalAssumption, JournalInv, OneClaim, J!Made
  <2>2. ASSUME NEW j \in Jobs, NEW stage \in J!Stages, IsCommitted(j, stage)
        PROVE  J!Outcome(j, stage) = {"committed"}
    BY <1>1, <2>2 DEF JournalInv, OneClaim, IsCommitted, J!Outcome, J!ClaimOf
  <2>3. ASSUME NEW j \in Jobs, NEW stage \in J!Stages, J!ClaimOf(j, stage) # {}, NEW s \in J!Order[stage]
        PROVE  J!Outcome(j, s) = {"committed"}
    <3>1. IsCommitted(j, s)
      BY <1>1, <2>3 DEF JournalInv, InSequence, J!ClaimOf
    <3>. QED BY <2>2, <2>3, <3>1, StageFacts
  <2>4. ASSUME NEW j \in Jobs, NEW stage \in J!Stages, jobs[j] # None, jobs[j].phase = J!Committed(stage)
        PROVE  J!Outcome(j, stage) = {"committed"}
    BY <1>1, <2>2, <2>4 DEF JournalInv, InSequence
  <2>5. ASSUME NEW j \in Jobs, NEW stage \in J!Stages, jobs[j] # None, J!Verifies(stage)
        PROVE  J!ClaimOf(j, stage) = nonces[Nonces[j][J!Role(stage)]]
    BY <1>1, <2>5 DEF JournalInv, NoncesSpent, NoncesSpentOf, J!Verifies, Nonce
  <2>. QED BY <2>1, <2>3, <2>4, <2>5 DEF J!OneStory
<1>. QED BY <1>1, JournalInductive, PTL DEF OneStory

\* A step that verifies nothing, and one that verifies one job with one key.
Silent ==
  /\ UNCHANGED counters
  /\ \A j \in Jobs : jobs[j] # None =>
       jobs'[j].phase = jobs[j].phase \/ jobs'[j].phase \notin {"KEY_VERIFIED", "TARGET_VERIFIED"}
Verifying ==
  \E j \in Jobs, key \in Keys :
    /\ J!VerifiedWith(key) = {j} /\ \A k \in Keys \ {key} : J!VerifiedWith(k) = {} /\ counters'[k] = counters[k]
    /\ counters'[key] # counters[key]
    /\ counters[key] # None => /\ counters'[key].counter > counters[key].counter
                               /\ counters'[key].revision = counters[key].revision + 1

LEMMA CompleteCounts ==
  ASSUME J!JournalAssumption, JournalInv, NEW c \in Claims, J!CompleteDataStage(c)
  PROVE  Silent \/ Verifying
<1>. DEFINE h == held[c]
            done == J!Written(h.row, J!Committed(h.stage), None)
<1>1. h # None
  BY DEF J!CompleteDataStage, J!Take
<1>2. CASE UNCHANGED <<jobs, claims, counters>>
  BY <1>2 DEF Silent
<1>3. ASSUME J!IsOwned(h, c)
      PROVE  /\ done \in J!Job /\ done.phase = J!Committed(h.stage)
             /\ h \in J!Reservation /\ h.job \in Jobs /\ h.stage \in J!Stages /\ h.row \in J!Job
             /\ h.row.phase = J!Pending(h.stage) /\ KeyedOf(h.row) /\ jobs[h.job] = h.row /\ h.row # None
  <2>1. /\ h \in J!Reservation /\ h.job \in Jobs /\ h.stage \in J!Stages /\ h.row \in J!Job
        /\ h.row.phase = J!Pending(h.stage) /\ jobs[h.job] = h.row /\ h.row # None
    BY <1>1, <1>3, OwnedFact
  <2>2. J!Committed(h.stage) \in J!Phases
    BY <2>1, StageFacts
  <2>3. done \in J!Job /\ done.phase = J!Committed(h.stage)
    BY <2>1, <2>2, JobFact
  <2>. QED BY <2>1, <2>3 DEF JournalInv, Keyed
<1>4. ASSUME ~J!Verifies(h.stage), J!IsOwned(h, c), UNCHANGED counters, NEW key,
             jobs' = [jobs EXCEPT ![h.job] =
               [done EXCEPT !.key = key, !.fresh = IF h.stage = "prepare_key" THEN key = None ELSE @]]
      PROVE  Silent
  <2>. HIDE DEF done
  <2>1. h.stage \in {"prepare_key", "prepare_target"}
    BY <1>3, <1>4 DEF J!Verifies, J!Stages
  <2>2. /\ jobs'[h.job].phase \in {"KEY_PREPARED", "TARGET_PREPARED"}
        /\ \A j \in Jobs \ {h.job} : jobs'[j] = jobs[j]
    BY <1>3, <1>4, <2>1 DEF J!Committed, JournalInv, JournalTypes, J!Job
  <2>. QED BY <1>4, <2>2 DEF Silent
<1>5. ASSUME J!Verifies(h.stage), J!IsOwned(h, c), NEW x \in J!Completions(h), J!MayCount(h, x),
             counters' = [counters EXCEPT ![x.key] = J!Counted(h, x)],
             jobs' = [jobs EXCEPT ![h.job] = [done EXCEPT !.key = x.key]]
      PROVE  Verifying
  <2>. HIDE DEF done
  <2>1. h.stage \in {"verify_key", "verify_target"}
    BY <1>5 DEF J!Verifies
  <2>2. PICK key \in Keys : key = x.key
    BY <1>3, <1>5, <2>1 DEF J!Completions, J!Attests, KeyedOf, J!Pending, J!Before
  <2>3. /\ jobs'[h.job].phase \in {"KEY_VERIFIED", "TARGET_VERIFIED"} /\ jobs'[h.job].key = key
        /\ jobs[h.job].phase # jobs'[h.job].phase /\ jobs[h.job] # None
        /\ \A j \in Jobs \ {h.job} : jobs'[j] = jobs[j]
    BY <1>3, <1>5, <2>1, <2>2 DEF J!Committed, J!Pending, JournalInv, JournalTypes, J!Job
  <2>4. J!VerifiedWith(key) = {h.job} /\ \A k \in Keys \ {key} : J!VerifiedWith(k) = {}
    BY <1>3, <1>5, <2>3 DEF J!VerifiedWith
  <2>5. counters'[key] = J!Counted(h, x) /\ \A k \in Keys \ {key} : counters'[k] = counters[k]
    BY <1>5, <2>2 DEF JournalInv, JournalTypes
  <2>6. /\ counters'[key] # counters[key]
        /\ counters[key] # None => /\ counters'[key].counter > counters[key].counter
                                   /\ counters'[key].revision = counters[key].revision + 1
    <3>1. CASE J!Attests(h)
      <4>1. counters[key] = None
        BY <1>5, <2>2, <3>1 DEF J!MayCount
      <4>2. ScopeOf[h.job] \in {ScopeOf[j] : j \in Jobs}
        BY <1>3, <1>5
      <4>3. J!Counted(h, x) \in J!Counter
        BY <3>1, <4>2 DEF J!Counted, J!Counter
      <4>. QED BY <2>5, <4>1, <4>3 DEF J!JournalAssumption
    <3>2. CASE ~J!Attests(h)
      <4>1. counters[key] \in J!Counter /\ x.counter \in 0 .. MaxCounter /\ counters[key].counter < x.counter
        BY <1>5, <2>2, <3>2 DEF J!MayCount, JournalInv, JournalTypes, J!Completions
      <4>2. J!Counted(h, x) = [counters[key] EXCEPT !.counter = x.counter, !.revision = @ + 1]
        BY <2>2, <3>2 DEF J!Counted
      <4>3. /\ J!Counted(h, x).counter = x.counter
            /\ J!Counted(h, x).revision = counters[key].revision + 1
        BY <4>1, <4>2 DEF J!Counter
      <4>4. counters[key].counter \in Nat /\ x.counter \in Nat
        BY <4>1 DEF J!Counter, J!JournalAssumption
      <4>. QED BY <2>5, <4>1, <4>3, <4>4
    <3>. QED BY <3>1, <3>2
  <2>. QED BY <1>3, <1>5, <2>4, <2>5, <2>6 DEF Verifying
<1>. QED BY <1>2, <1>4, <1>5 DEF J!CompleteDataStage

\* Only the completion of a verification verifies.
LEMMA NextCounts ==
  ASSUME J!JournalAssumption, JournalInv, J!Next
  PROVE  Silent \/ Verifying
<1>1. Retirements \cap J!Phases = {}
  BY DEF J!JournalAssumption
<1>2. ASSUME NEW j \in Jobs, NEW row, jobs[j] # None => row.phase = jobs[j].phase \/ row.phase \notin {"KEY_VERIFIED", "TARGET_VERIFIED"},
             jobs' = [jobs EXCEPT ![j] = row], UNCHANGED counters
      PROVE  Silent
  <2>1. \A k \in Jobs : jobs'[k] = IF k = j THEN row ELSE jobs[k]
    BY <1>2 DEF JournalInv, JournalTypes
  <2>. QED BY <1>2, <2>1 DEF Silent
<1>3. ASSUME UNCHANGED <<jobs, counters>>
      PROVE  Silent
  BY <1>3 DEF Silent
<1>4. ASSUME NEW n \in Journals, J!Close(n)
      PROVE  Silent
  BY <1>3, <1>4 DEF J!Close
<1>5. ASSUME NEW n \in Journals, NEW j \in Jobs, J!CreateDataJob(n, j)
      PROVE  Silent
  BY <1>2, <1>5 DEF J!CreateDataJob
<1>6. ASSUME NEW row \in J!Job, NEW reason \in Retirements
      PROVE  J!Retired(row, reason).phase \notin {"KEY_VERIFIED", "TARGET_VERIFIED"}
  <2>1. J!Written(row, reason, None).phase = reason
    BY <1>6, JobFact
  <2>. QED BY <1>1, <1>6, <2>1 DEF J!Retired, J!Phases
<1>7. ASSUME NEW n \in Journals, NEW j \in Jobs, J!RetireDataJob(n, j)
      PROVE  Silent
  <2>1. jobs[j] # None => jobs[j] \in J!Job
    BY DEF JournalInv, JournalTypes
  <2>. QED BY <1>2, <1>3, <1>6, <1>7, <2>1 DEF J!RetireDataJob
<1>8. ASSUME NEW c \in Claims, J!RejectOrRetireDataStage(c)
      PROVE  Silent
  <2>1. J!IsOwned(held[c], c) => held[c].job \in Jobs /\ held[c].row \in J!Job
    BY <1>8, OwnedFact DEF J!RejectOrRetireDataStage, J!Take
  <2>. QED BY <1>2, <1>3, <1>6, <1>8, <2>1 DEF J!RejectOrRetireDataStage
<1>9. ASSUME NEW n \in Journals, NEW j \in Jobs, NEW stage \in J!Stages, NEW c \in Claims,
             J!ReserveDataStage(n, j, stage, c)
      PROVE  Silent
  <2>1. jobs[j] \in J!Job /\ jobs[j].phase = J!Before(stage)
    BY <1>9 DEF J!ReserveDataStage, J!MayReserve, JournalInv, JournalTypes
  <2>2. J!Written(jobs[j], J!Pending(stage), c).phase = J!Pending(stage)
    BY <2>1, JobFact, StageFacts
  <2>3. J!Pending(stage) = J!Before(stage) \/ J!Pending(stage) \notin {"KEY_VERIFIED", "TARGET_VERIFIED"}
    BY DEF J!Pending, J!Before, J!Stages
  <2>. QED BY <1>2, <1>9, <2>1, <2>2, <2>3 DEF J!ReserveDataStage
<1>. QED BY <1>4, <1>5, <1>7, <1>8, <1>9, CompleteCounts DEF J!Next

\* A counter moves exactly when one job is verified with its key, and then
\* forward, whichever jobs race for the revision they saw.
THEOREM CountersFollowVerifications ==
  ASSUME J!JournalAssumption
  PROVE  JournalSpec => CounterPerVerification
<1>1. ASSUME Silent
      PROVE  \A k \in Keys : J!CountsVerifications(k)
  <2>1. \A k \in Keys : J!VerifiedWith(k) = {}
    BY <1>1 DEF Silent, J!VerifiedWith
  <2>. QED BY <1>1, <2>1 DEF Silent, J!CountsVerifications
<1>2. ASSUME Verifying
      PROVE  \A k \in Keys : J!CountsVerifications(k)
  BY <1>2 DEF Verifying, J!CountsVerifications
<1>3. JournalInv /\ [J!Next]_J!vars => [\A k \in Keys : J!CountsVerifications(k)]_J!vars
  BY <1>1, <1>2, NextCounts
<1>. QED BY <1>3, JournalInductive, PTL DEF JournalSpec, CounterPerVerification, J!CounterPerVerification

(***************************************************************************)
(* Enrollment.  The inductive invariant says of each request what it has   *)
(* written at its step, of an authorization that it is spent by the        *)
(* request it names, and of the ledger whose entry each is.                *)
(***************************************************************************)
Kind(r) == rq[r].ask.kind
Auth(r) == rq[r].ask.auth

EnrollmentSteps ==
  {"idle", "end", "authorize", "authorized", "revoke", "redeem", "redeemed", "live", "enrol", "enrolled",
   "withdraw", "delegation", "outcome"}
EnrollmentAnswers ==
  {None, "none", "credential", "unknown", "conflict", "revoked", "enrolled", "unavailable", "withdrawn"}

EnrollmentTypes ==
  /\ operator \in [Operators -> E!OperatorRow \cup {None}] /\ auths \in [Auths -> E!AuthRow \cup {None}]
  /\ ledger \in [LedgerOps -> E!LedgerRow \cup {None}]
  /\ delegations \in [Delegations -> E!Delegation \cup {None}]
  /\ rq \in [Requests -> [pc : EnrollmentSteps, ask : E!Asks \cup {None}, answer : EnrollmentAnswers]]

\* A request has an ask of the kind its step is of.
RequestOf(r) ==
  LET pc == rq[r].pc
  IN /\ pc = "idle" <=> rq[r].ask = None
     /\ pc # "end" => rq[r].answer = None
     /\ pc \in {"authorize", "authorized"} => Kind(r) = "authorize"
     /\ pc = "revoke" => Kind(r) = "revoke"
     /\ pc \in {"redeem", "redeemed", "live"} => Kind(r) = "redeem"
     /\ pc \in {"enrol", "enrolled"} => Kind(r) = "enrol"
     /\ pc \in {"withdraw", "delegation", "outcome"} => Kind(r) = "withdraw"
Requested == \A r \in Requests : RequestOf(r)

\* A credential was drawn by the request that shows it; an authorization that
\* was not consumed is still claimed by it.
Drawn ==
  /\ \A r \in Requests : rq[r].answer = "credential" =>
       Kind(r) = "authorize" /\ auths[Auth(r)] # None /\ auths[Auth(r)].token = r
  /\ \A a \in Auths : auths[a] # None /\ auths[a].state = "available" =>
       auths[a].claim = auths[a].token /\ auths[a].outcome = "authorized"

\* An entry of the ledger is of a request that has written it; that of a
\* redemption is the outcome of its authorization, which it consumed.
EntryOf(o) ==
  LET r == ledger[o].claim
  IN /\ rq[r].pc \notin {"idle", "redeem", "enrol", "withdraw"}
     /\ Kind(r) = "redeem" => /\ auths[Auth(r)] # None /\ auths[Auth(r)].state # "available"
                              /\ auths[Auth(r)].claim = r /\ auths[Auth(r)].outcome = ledger[o].outcome
     /\ Kind(r) = "withdraw" <=> ledger[o].ask \in E!Withdrawal
Entries == \A o \in LedgerOps : ledger[o] # None => EntryOf(o)

\* What was enrolled with an authorization is in the ledger, and whoever says
\* so consumed it; a redemption is of an authorization that is there.
HasEntry(r) == \E o \in LedgerOps : ledger[o] # None /\ ledger[o].claim = r /\ ledger[o].outcome = "enrolled"
Redemptions ==
  /\ \A a \in Auths : auths[a] # None /\ auths[a].outcome = "enrolled" =>
       LET r == auths[a].claim
       IN rq[r].ask # None /\ Kind(r) = "redeem" /\ Auth(r) = a /\ HasEntry(r)
  /\ \A r \in Requests : rq[r].ask # None /\ Kind(r) = "redeem" => auths[Auth(r)] # None
  /\ \A r \in Requests :
       (rq[r].pc = "live" \/ (rq[r].answer = "enrolled" /\ Kind(r) = "redeem")) =>
         auths[Auth(r)].claim = r /\ auths[Auth(r)].outcome = "enrolled"

\* A withdrawal is of a delegation that is there, and recorded before it.
Withdrawing ==
  \A r \in Requests :
    /\ rq[r].ask # None /\ Kind(r) = "withdraw" => delegations[rq[r].ask.delegation] # None
    /\ rq[r].pc \in {"delegation", "outcome"} =>
         ledger[rq[r].ask.op] # None /\ ledger[rq[r].ask.op].ask = rq[r].ask

\* What was revoked is revoked.
RevokedStays == \A a \in Auths : E!IsRevoked(a) /\ auths[a] # None => auths[a].state = "revoked"

EnrollmentInv ==
  EnrollmentTypes /\ Requested /\ Drawn /\ Entries /\ Redemptions /\ Withdrawing /\ RevokedStays

LEMMA AskFacts ==
  ASSUME NEW ask \in E!Asks
  PROVE  /\ ask.kind = "authorize" => ask \in E!Authorization
         /\ ask.kind = "revoke" => ask \in E!Revocation
         /\ ask.kind = "redeem" => ask \in E!Redemption
         /\ ask.kind = "enrol" => ask \in E!Enrolling
         /\ ask.kind = "withdraw" <=> ask \in E!Withdrawal
         /\ ask.kind \in {"authorize", "revoke"} => ask.op \in Operators
         /\ ask.kind \in {"authorize", "revoke", "redeem"} => ask.auth \in Auths
         /\ ask.kind \in {"authorize", "redeem", "enrol"} => ask.intent \in Intents
         /\ ask.kind = "withdraw" => ask.op \in LedgerOps /\ ask.delegation \in Delegations
BY DEF E!Asks, E!Authorization, E!Revocation, E!Redemption, E!Enrolling, E!Withdrawal

\* A step of a request moves that request, and nobody's question.
LEMMA StepFacts ==
  ASSUME EnrollmentTypes, NEW r \in Requests, NEW pc \in EnrollmentSteps, E!Step(r, pc)
  PROVE  /\ rq' \in [Requests -> [pc : EnrollmentSteps, ask : E!Asks \cup {None}, answer : EnrollmentAnswers]]
         /\ \A s \in Requests \ {r} : rq'[s] = rq[s]
         /\ rq'[r].ask = rq[r].ask /\ rq'[r].answer = rq[r].answer /\ rq'[r].pc = pc
BY DEF EnrollmentTypes, E!Step

LEMMA AnswerFacts ==
  ASSUME EnrollmentTypes, NEW r \in Requests, NEW what \in EnrollmentAnswers, E!Answer(r, what)
  PROVE  /\ rq' \in [Requests -> [pc : EnrollmentSteps, ask : E!Asks \cup {None}, answer : EnrollmentAnswers]]
         /\ \A s \in Requests \ {r} : rq'[s] = rq[s]
         /\ rq'[r].ask = rq[r].ask /\ rq'[r].answer = what /\ rq'[r].pc = "end"
BY DEF EnrollmentTypes, E!Answer, EnrollmentSteps

\* A request whose step is of a kind has asked it.
LEMMA AskOf ==
  ASSUME E!EnrollmentAssumption, EnrollmentInv, NEW r \in Requests, rq[r].pc # "idle"
  PROVE  rq[r].ask \in E!Asks /\ rq[r].ask # None
<1>1. rq[r].ask # None
  BY DEF EnrollmentInv, Requested, RequestOf
<1>. QED BY <1>1 DEF EnrollmentInv, EnrollmentTypes

\* What a step that leaves the tables alone has to show of its request.
LeftOpen(r) ==
  /\ rq'[r].answer = "credential" =>
       rq'[r].ask.kind = "authorize" /\ auths[rq'[r].ask.auth] # None /\ auths[rq'[r].ask.auth].token = r
  /\ rq'[r].ask # None /\ rq'[r].ask.kind = "redeem" => auths[rq'[r].ask.auth] # None
  /\ (rq'[r].pc = "live" \/ (rq'[r].answer = "enrolled" /\ rq'[r].ask.kind = "redeem")) =>
       auths[rq'[r].ask.auth].claim = r /\ auths[rq'[r].ask.auth].outcome = "enrolled"
  /\ rq'[r].ask # None /\ rq'[r].ask.kind = "withdraw" => delegations[rq'[r].ask.delegation] # None
  /\ rq'[r].pc \in {"delegation", "outcome"} =>
       ledger[rq'[r].ask.op] # None /\ ledger[rq'[r].ask.op].ask = rq'[r].ask

LEMMA QuietStep ==
  ASSUME E!EnrollmentAssumption, EnrollmentInv, NEW r \in Requests,
         UNCHANGED <<operator, auths, ledger, delegations>>,
         rq' \in [Requests -> [pc : EnrollmentSteps, ask : E!Asks \cup {None}, answer : EnrollmentAnswers]],
         \A s \in Requests \ {r} : rq'[s] = rq[s],
         rq[r].pc # "idle" => rq'[r].ask = rq[r].ask /\ rq'[r].pc \notin {"idle", "redeem", "enrol", "withdraw"},
         RequestOf(r)', LeftOpen(r)
  PROVE  EnrollmentInv'
<1>1. EnrollmentTypes'
  BY DEF EnrollmentInv, EnrollmentTypes
<1>2. Requested'
  BY DEF EnrollmentInv, Requested, RequestOf, Kind
<1>3. Drawn'
  BY DEF EnrollmentInv, Drawn, LeftOpen, Kind, Auth
<1>4. Entries'
  <2>1. SUFFICES ASSUME NEW o \in LedgerOps, ledger[o] # None
        PROVE  EntryOf(o)'
    BY DEF Entries
  <2>2. EntryOf(o) /\ ledger[o].claim \in Requests
    BY <2>1 DEF EnrollmentInv, EnrollmentTypes, Entries, E!LedgerRow
  <2>. QED BY <2>2 DEF EntryOf, Kind, Auth
<1>5. Redemptions'
  <2>1. ASSUME NEW a \in Auths, auths[a] # None, auths[a].outcome = "enrolled"
        PROVE  LET c == auths[a].claim
               IN rq'[c].ask # None /\ rq'[c].ask.kind = "redeem" /\ rq'[c].ask.auth = a /\ HasEntry(c)
    <3>1. auths[a].claim \in Requests
      BY <2>1 DEF EnrollmentInv, EnrollmentTypes, E!AuthRow
    <3>. QED BY <2>1, <3>1 DEF EnrollmentInv, Redemptions, Kind, Auth, Requested, RequestOf
  <2>. QED BY <2>1 DEF EnrollmentInv, Redemptions, LeftOpen, Kind, Auth, HasEntry
<1>6. Withdrawing'
  BY DEF EnrollmentInv, Withdrawing, LeftOpen, Kind
<1>7. RevokedStays'
  BY DEF EnrollmentInv, RevokedStays, E!IsRevoked
<1>. QED BY <1>1, <1>2, <1>3, <1>4, <1>5, <1>6, <1>7 DEF EnrollmentInv

LEMMA AnswerKeeps ==
  ASSUME E!EnrollmentAssumption, EnrollmentInv, NEW r \in Requests, NEW what \in EnrollmentAnswers \ {"credential"},
         rq[r].pc # "idle", E!Answer(r, what), UNCHANGED <<operator, auths, ledger, delegations>>,
         what = "enrolled" /\ Kind(r) = "redeem" => auths[Auth(r)].claim = r /\ auths[Auth(r)].outcome = "enrolled"
  PROVE  EnrollmentInv'
<1>1. /\ rq' \in [Requests -> [pc : EnrollmentSteps, ask : E!Asks \cup {None}, answer : EnrollmentAnswers]]
      /\ \A s \in Requests \ {r} : rq'[s] = rq[s]
      /\ rq'[r].ask = rq[r].ask /\ rq'[r].answer = what /\ rq'[r].pc = "end"
  BY AnswerFacts DEF EnrollmentInv
<1>2. rq[r].ask # None
  BY AskOf
<1>3. RequestOf(r)'
  BY <1>1, <1>2 DEF RequestOf, Kind
<1>4. LeftOpen(r)
  <2>1. rq[r].ask.kind = "redeem" => auths[rq[r].ask.auth] # None
    BY <1>2 DEF EnrollmentInv, Redemptions, Kind, Auth
  <2>2. rq[r].ask.kind = "withdraw" => delegations[rq[r].ask.delegation] # None
    BY <1>2 DEF EnrollmentInv, Withdrawing, Kind
  <2>. QED BY <1>1, <2>1, <2>2 DEF LeftOpen, Kind, Auth
<1>. QED BY <1>1, <1>3, <1>4, QuietStep

LEMMA AskKeeps ==
  ASSUME E!EnrollmentAssumption, EnrollmentInv, NEW r \in Requests, E!Ask(r)
  PROVE  EnrollmentInv'
<1>1. PICK ask \in AsksOf[r] :
        /\ \/ E!IsAuthorization(ask) \/ E!IsRedemption(ask) \/ ask.kind = "revoke"
           \/ E!IsEnrolment(ask) \/ E!IsWithdrawal(ask)
        /\ rq' = [rq EXCEPT ![r] = [pc |-> ask.kind, ask |-> ask, answer |-> None]]
  BY DEF E!Ask
<1>2. ask \in E!Asks /\ ask # None
  BY DEF E!EnrollmentAssumption
<1>3. ask.kind \in {"authorize", "revoke", "redeem", "enrol", "withdraw"}
  BY <1>2 DEF E!Asks, E!Authorization, E!Revocation, E!Redemption, E!Enrolling, E!Withdrawal
<1>4. rq'[r] = [pc |-> ask.kind, ask |-> ask, answer |-> None] /\ \A s \in Requests \ {r} : rq'[s] = rq[s]
  BY <1>1 DEF EnrollmentInv, EnrollmentTypes
<1>5. rq' \in [Requests -> [pc : EnrollmentSteps, ask : E!Asks \cup {None}, answer : EnrollmentAnswers]]
  <2>1. [pc |-> ask.kind, ask |-> ask, answer |-> None] \in
          [pc : EnrollmentSteps, ask : E!Asks \cup {None}, answer : EnrollmentAnswers]
    BY <1>2, <1>3 DEF EnrollmentSteps, EnrollmentAnswers
  <2>. QED BY <1>1, <2>1 DEF EnrollmentInv, EnrollmentTypes
<1>6. /\ ask.kind = "withdraw" => delegations[ask.delegation] # None
      /\ ask.kind = "redeem" => auths[ask.auth] # None
  BY <1>1 DEF E!IsAuthorization, E!IsRedemption, E!IsEnrolment, E!IsWithdrawal, E!IsUsable
<1>7. RequestOf(r)' /\ LeftOpen(r)
  BY <1>2, <1>3, <1>4, <1>6 DEF RequestOf, LeftOpen, Kind, E!EnrollmentAssumption
<1>. QED BY <1>4, <1>5, <1>7, QuietStep DEF E!Ask

LEMMA AuthorizedKeeps ==
  ASSUME E!EnrollmentAssumption, EnrollmentInv, NEW r \in Requests, E!Authorized(r)
  PROVE  EnrollmentInv'
<1>. DEFINE ask == rq[r].ask
            row == auths[ask.auth]
            what == IF operator[ask.op] # [ask |-> ask, outcome |-> "authorized"] THEN "conflict"
                    ELSE IF row.claim = r /\ E!IsUsable(row) THEN "credential" ELSE "unknown"
<1>1. what \in EnrollmentAnswers /\ E!Answer(r, what) /\ what # "enrolled"
  BY DEF E!Authorized, EnrollmentAnswers
<1>2. /\ rq' \in [Requests -> [pc : EnrollmentSteps, ask : E!Asks \cup {None}, answer : EnrollmentAnswers]]
      /\ \A s \in Requests \ {r} : rq'[s] = rq[s]
      /\ rq'[r].ask = ask /\ rq'[r].answer = what /\ rq'[r].pc = "end"
  BY <1>1, AnswerFacts DEF EnrollmentInv
<1>3. ask \in E!Authorization /\ ask # None /\ ask.auth \in Auths /\ ask.kind = "authorize"
  BY AskOf, AskFacts DEF E!Authorized, EnrollmentInv, Requested, RequestOf, Kind
<1>4. what = "credential" => row # None /\ row.token = r
  BY <1>3 DEF E!IsUsable, EnrollmentInv, Drawn
<1>5. RequestOf(r)' /\ LeftOpen(r)
  BY <1>1, <1>2, <1>3, <1>4 DEF RequestOf, LeftOpen, Kind, E!EnrollmentAssumption
<1>. QED BY <1>2, <1>5, QuietStep DEF E!Authorized

LEMMA RedeemedKeeps ==
  ASSUME E!EnrollmentAssumption, EnrollmentInv, NEW r \in Requests, E!Redeemed(r)
  PROVE  EnrollmentInv'
<1>. DEFINE row == auths[rq[r].ask.auth]
<1>1. rq[r].ask \in E!Redemption /\ rq[r].ask # None /\ rq[r].ask.auth \in Auths /\ rq[r].ask.kind = "redeem"
  BY AskOf, AskFacts DEF E!Redeemed, EnrollmentInv, Requested, RequestOf, Kind
<1>0. row # None
  BY <1>1 DEF EnrollmentInv, Redemptions, Kind, Auth
<1>2. CASE E!Answer(r, "unavailable")
  BY <1>2, AnswerKeeps DEF E!Redeemed, EnrollmentAnswers
<1>3. CASE row.claim = r /\ row.state = "consumed" /\ row.outcome = "enrolled" /\ E!Step(r, "live")
  <2>1. "live" \in EnrollmentSteps
    BY DEF EnrollmentSteps
  <2>2. /\ rq' \in [Requests -> [pc : EnrollmentSteps, ask : E!Asks \cup {None}, answer : EnrollmentAnswers]]
        /\ \A s \in Requests \ {r} : rq'[s] = rq[s]
        /\ rq'[r].ask = rq[r].ask /\ rq'[r].answer = rq[r].answer /\ rq'[r].pc = "live"
    BY <1>3, <2>1, StepFacts DEF EnrollmentInv
  <2>3. rq[r].answer = None
    BY DEF E!Redeemed, EnrollmentInv, Requested, RequestOf
  <2>4. RequestOf(r)' /\ LeftOpen(r)
    BY <1>0, <1>1, <1>3, <2>2, <2>3 DEF RequestOf, LeftOpen, Kind, E!EnrollmentAssumption
  <2>. QED BY <2>2, <2>4, QuietStep DEF E!Redeemed
<1>. QED BY <1>2, <1>3 DEF E!Redeemed

LEMMA LiveKeeps ==
  ASSUME E!EnrollmentAssumption, EnrollmentInv, NEW r \in Requests, E!Live(r)
  PROVE  EnrollmentInv'
<1>1. PICK what \in {"enrolled", "unavailable"} : E!Answer(r, what)
  BY DEF E!Live
<1>2. auths[Auth(r)].claim = r /\ auths[Auth(r)].outcome = "enrolled"
  BY DEF E!Live, EnrollmentInv, Redemptions
<1>. QED BY <1>1, <1>2, AnswerKeeps DEF E!Live, EnrollmentAnswers

LEMMA EnrolledKeeps ==
  ASSUME E!EnrollmentAssumption, EnrollmentInv, NEW r \in Requests, E!Enrolled(r)
  PROVE  EnrollmentInv'
<1>1. PICK what \in {"conflict", "enrolled", "withdrawn"} : E!Answer(r, what)
  BY DEF E!Enrolled
<1>2. Kind(r) = "enrol"
  BY DEF E!Enrolled, EnrollmentInv, Requested, RequestOf
<1>. QED BY <1>1, <1>2, AnswerKeeps DEF E!Enrolled, EnrollmentAnswers

LEMMA AbandonKeeps ==
  ASSUME E!EnrollmentAssumption, EnrollmentInv, NEW r \in Requests, E!Abandon(r)
  PROVE  EnrollmentInv'
BY AnswerKeeps DEF E!Abandon, EnrollmentAnswers

LEMMA TickKeeps ==
  ASSUME EnrollmentInv, E!Tick
  PROVE  EnrollmentInv'
BY DEF E!Tick, EnrollmentInv, EnrollmentTypes, Requested, RequestOf, Drawn, Entries, EntryOf, Redemptions,
       HasEntry, Withdrawing, RevokedStays, E!IsRevoked, Kind, Auth

\* A request that moves on to another step of its kind keeps what is said of
\* requests.
LEMMA MoveFacts ==
  ASSUME E!EnrollmentAssumption, EnrollmentInv, NEW r \in Requests, rq[r].pc \notin {"idle", "end"},
         NEW pc \in EnrollmentSteps \ {"idle", "end"}, E!Step(r, pc),
         pc \in {"authorize", "authorized"} => Kind(r) = "authorize",
         pc = "revoke" => Kind(r) = "revoke",
         pc \in {"redeem", "redeemed", "live"} => Kind(r) = "redeem",
         pc \in {"enrol", "enrolled"} => Kind(r) = "enrol",
         pc \in {"withdraw", "delegation", "outcome"} => Kind(r) = "withdraw"
  PROVE  /\ rq' \in [Requests -> [pc : EnrollmentSteps, ask : E!Asks \cup {None}, answer : EnrollmentAnswers]]
         /\ \A s \in Requests \ {r} : rq'[s] = rq[s]
         /\ rq'[r].ask = rq[r].ask /\ rq'[r].answer = None /\ rq'[r].pc = pc
         /\ Requested'
<1>1. /\ rq' \in [Requests -> [pc : EnrollmentSteps, ask : E!Asks \cup {None}, answer : EnrollmentAnswers]]
      /\ \A s \in Requests \ {r} : rq'[s] = rq[s]
      /\ rq'[r].ask = rq[r].ask /\ rq'[r].answer = rq[r].answer /\ rq'[r].pc = pc
  BY StepFacts DEF EnrollmentInv
<1>2. rq[r].ask # None /\ rq[r].answer = None
  BY AskOf DEF EnrollmentInv, Requested, RequestOf
<1>3. RequestOf(r)'
  BY <1>1, <1>2 DEF RequestOf, Kind
<1>. QED BY <1>1, <1>2, <1>3 DEF EnrollmentInv, Requested, RequestOf, Kind

LEMMA AuthorizeKeeps ==
  ASSUME E!EnrollmentAssumption, EnrollmentInv, NEW r \in Requests, E!Authorize(r)
  PROVE  EnrollmentInv'
<1>. DEFINE ask == rq[r].ask
            fresh == operator[ask.op] = None
            may == fresh /\ E!MayAuthorize(ask)
            op == [ask |-> ask, outcome |-> IF may THEN "authorized" ELSE "conflict"]
            row == [op |-> ask.op, token |-> r, claim |-> r, intent |-> ask.intent,
                    ends |-> E!End(ask.intent), state |-> "available", outcome |-> "authorized",
                    revoked |-> FALSE]
<1>1. Kind(r) = "authorize"
  BY DEF E!Authorize, EnrollmentInv, Requested, RequestOf
<1>2. ask \in E!Authorization /\ ask # None /\ ask.op \in Operators /\ ask.auth \in Auths /\ ask.intent \in Intents
  BY <1>1, AskOf, AskFacts DEF E!Authorize, Kind
<1>3. /\ rq' \in [Requests -> [pc : EnrollmentSteps, ask : E!Asks \cup {None}, answer : EnrollmentAnswers]]
      /\ \A s \in Requests \ {r} : rq'[s] = rq[s]
      /\ rq'[r].ask = ask /\ rq'[r].answer = None /\ rq'[r].pc = "authorized" /\ Requested'
  BY <1>1, MoveFacts DEF E!Authorize, EnrollmentSteps
<1>4. row \in E!AuthRow /\ op \in E!OperatorRow
  <2>1. E!End(ask.intent) \in Nat
    BY <1>2 DEF E!End, E!EnrollmentAssumption
  <2>. QED BY <1>2, <2>1 DEF E!AuthRow, E!OperatorRow
<1>5. /\ operator' \in [Operators -> E!OperatorRow \cup {None}]
      /\ \A o \in Operators : operator'[o] = IF fresh /\ o = ask.op THEN op ELSE operator[o]
  BY <1>2, <1>4 DEF E!Authorize, EnrollmentInv, EnrollmentTypes
<1>6. /\ auths' \in [Auths -> E!AuthRow \cup {None}]
      /\ \A a \in Auths : auths'[a] = IF may /\ a = ask.auth THEN row ELSE auths[a]
  BY <1>2, <1>4 DEF E!Authorize, EnrollmentInv, EnrollmentTypes
<1>7. UNCHANGED <<ledger, delegations>>
  BY DEF E!Authorize
<1>8. may => auths[ask.auth] = None /\ ~E!IsRevoked(ask.auth)
  BY <1>2 DEF E!MayAuthorize, E!IsNew
<1>9. row # None
  BY <1>4 DEF E!EnrollmentAssumption
<1>10. EnrollmentTypes'
  BY <1>3, <1>5, <1>6, <1>7 DEF EnrollmentInv, EnrollmentTypes
<1>11. \A s \in Requests : rq'[s].ask = rq[s].ask /\ rq'[s].answer = rq[s].answer
  <2>1. rq[r].answer = None
    BY DEF E!Authorize, EnrollmentInv, Requested, RequestOf
  <2>. QED BY <1>3, <2>1
<1>12. \A a \in Auths : auths[a] # None => auths'[a] = auths[a]
  BY <1>6, <1>8
<1>13. Drawn'
  <2>1. ASSUME NEW s \in Requests, rq[s].answer = "credential"
        PROVE  rq[s].ask.kind = "authorize" /\ auths'[rq[s].ask.auth] # None /\ auths'[rq[s].ask.auth].token = s
    <3>1. rq[s].pc # "idle" /\ Kind(s) = "authorize" /\ auths[Auth(s)] # None /\ auths[Auth(s)].token = s
      BY <2>1 DEF EnrollmentInv, Drawn, Requested, RequestOf, E!EnrollmentAssumption
    <3>2. Auth(s) \in Auths
      BY <3>1, AskOf, AskFacts DEF Kind, Auth
    <3>. QED BY <1>12, <3>1, <3>2 DEF Kind, Auth
  <2>2. ASSUME NEW a \in Auths, auths'[a] # None, auths'[a].state = "available"
        PROVE  auths'[a].claim = auths'[a].token /\ auths'[a].outcome = "authorized"
    BY <1>6, <2>2 DEF EnrollmentInv, Drawn
  <2>. QED BY <1>11, <2>1, <2>2 DEF Drawn, Kind, Auth
<1>14. Entries'
  <2>1. SUFFICES ASSUME NEW o \in LedgerOps, ledger[o] # None
        PROVE  EntryOf(o)'
    BY <1>7 DEF Entries
  <2>. DEFINE c == ledger[o].claim
  <2>2. EntryOf(o) /\ c \in Requests
    BY <2>1 DEF EnrollmentInv, EnrollmentTypes, Entries, E!LedgerRow
  <2>3. Kind(c) = "redeem" => Auth(c) \in Auths
    BY <2>2, AskOf, AskFacts DEF EntryOf, Kind, Auth
  <2>4. rq'[c].pc \notin {"idle", "redeem", "enrol", "withdraw"}
    BY <1>3, <2>2 DEF EntryOf
  <2>. QED BY <1>7, <1>11, <1>12, <2>2, <2>3, <2>4 DEF EntryOf, Kind, Auth
<1>15. Redemptions'
  <2>1. ASSUME NEW a \in Auths, auths'[a] # None, auths'[a].outcome = "enrolled"
        PROVE  LET s == auths'[a].claim
               IN rq[s].ask # None /\ rq[s].ask.kind = "redeem" /\ rq[s].ask.auth = a /\ HasEntry(s) /\ s \in Requests
    <3>1. auths'[a] = auths[a]
      BY <1>6, <2>1
    <3>. QED BY <2>1, <3>1 DEF EnrollmentInv, EnrollmentTypes, E!AuthRow, Redemptions, Kind, Auth
  <2>2. ASSUME NEW s \in Requests, rq[s].ask # None, Kind(s) = "redeem"
        PROVE  auths[Auth(s)] # None /\ auths'[Auth(s)] = auths[Auth(s)]
    <3>1. Auth(s) \in Auths
      BY <2>2, AskFacts DEF Kind, Auth, EnrollmentInv, EnrollmentTypes
    <3>. QED BY <1>12, <2>2, <3>1 DEF EnrollmentInv, Redemptions
  <2>3. ASSUME NEW s \in Requests, rq'[s].pc = "live" \/ (rq'[s].answer = "enrolled" /\ Kind(s) = "redeem")
        PROVE  auths'[Auth(s)].claim = s /\ auths'[Auth(s)].outcome = "enrolled"
    <3>1. s # r /\ (rq[s].pc = "live" \/ (rq[s].answer = "enrolled" /\ Kind(s) = "redeem"))
      BY <1>3, <2>3, <1>1, <1>11
    <3>2. rq[s].ask # None /\ Kind(s) = "redeem"
      BY <3>1 DEF EnrollmentInv, Requested, RequestOf, E!EnrollmentAssumption
    <3>. QED BY <2>2, <3>1, <3>2 DEF EnrollmentInv, Redemptions
  <2>. QED BY <1>7, <1>11, <2>1, <2>2, <2>3 DEF Redemptions, HasEntry, Kind, Auth
<1>16. Withdrawing'
  BY <1>3, <1>7, <1>11 DEF EnrollmentInv, Withdrawing, Kind
<1>17. RevokedStays'
  <2>1. \A a \in Auths : E!IsRevoked(a)' => E!IsRevoked(a)
    BY <1>2, <1>5 DEF E!IsRevoked, E!Authorization
  <2>. QED BY <1>6, <1>8, <2>1 DEF EnrollmentInv, RevokedStays
<1>. QED BY <1>3, <1>10, <1>13, <1>14, <1>15, <1>16, <1>17 DEF EnrollmentInv

LEMMA RevokeKeeps ==
  ASSUME E!EnrollmentAssumption, EnrollmentInv, NEW r \in Requests, E!Revoke(r)
  PROVE  EnrollmentInv'
<1>. DEFINE ask == rq[r].ask
            op == [ask |-> ask, outcome |-> "revoked"]
            mine == operator[ask.op] \in {None, op}
            what == IF mine THEN "revoked" ELSE "conflict"
            gone(a) == mine /\ a = ask.auth /\ auths[a] # None
<1>1. Kind(r) = "revoke" /\ rq[r].answer = None
  BY DEF E!Revoke, EnrollmentInv, Requested, RequestOf
<1>2. ask \in E!Revocation /\ ask # None /\ ask.op \in Operators /\ ask.auth \in Auths
  BY <1>1, AskOf, AskFacts DEF E!Revoke, Kind
<1>3. /\ rq' \in [Requests -> [pc : EnrollmentSteps, ask : E!Asks \cup {None}, answer : EnrollmentAnswers]]
      /\ \A s \in Requests \ {r} : rq'[s] = rq[s]
      /\ rq'[r].ask = ask /\ rq'[r].answer = what /\ rq'[r].pc = "end"
  <2>1. what \in EnrollmentAnswers
    BY DEF EnrollmentAnswers
  <2>. QED BY <2>1, AnswerFacts DEF E!Revoke, EnrollmentInv
<1>4. op \in E!OperatorRow
  BY <1>2 DEF E!OperatorRow
<1>5. /\ operator' \in [Operators -> E!OperatorRow \cup {None}]
      /\ \A o \in Operators : operator'[o] = IF mine /\ o = ask.op THEN op ELSE operator[o]
  BY <1>2, <1>4 DEF E!Revoke, EnrollmentInv, EnrollmentTypes
<1>6. ASSUME NEW a \in Auths
      PROVE  /\ auths'[a] = IF gone(a) THEN [auths[a] EXCEPT !.state = "revoked", !.revoked = TRUE] ELSE auths[a]
             /\ auths'[a] \in E!AuthRow \cup {None}
             /\ auths'[a] # None <=> auths[a] # None
             /\ auths[a] # None => /\ auths'[a].claim = auths[a].claim /\ auths'[a].token = auths[a].token
                                   /\ auths'[a].outcome = auths[a].outcome
                                   /\ auths'[a].state = IF gone(a) THEN "revoked" ELSE auths[a].state
  <2>1. auths'[a] = IF gone(a) THEN [auths[a] EXCEPT !.state = "revoked", !.revoked = TRUE] ELSE auths[a]
    BY <1>2 DEF E!Revoke, EnrollmentInv, EnrollmentTypes
  <2>2. auths[a] # None => auths[a] \in E!AuthRow
    BY DEF EnrollmentInv, EnrollmentTypes
  <2>3. gone(a) => auths'[a] \in E!AuthRow
    BY <2>1, <2>2 DEF E!AuthRow
  <2>4. auths'[a] # None <=> auths[a] # None
    BY <2>1, <2>3 DEF E!EnrollmentAssumption
  <2>5. auths[a] # None => /\ auths'[a].claim = auths[a].claim /\ auths'[a].token = auths[a].token
                          /\ auths'[a].outcome = auths[a].outcome
                          /\ auths'[a].state = IF gone(a) THEN "revoked" ELSE auths[a].state
    <3>1. CASE gone(a)
      BY <2>1, <2>2, <3>1 DEF E!AuthRow
    <3>2. CASE ~gone(a)
      BY <2>1, <3>2
    <3>. QED BY <3>1, <3>2
  <2>6. auths'[a] \in E!AuthRow \cup {None}
    BY <2>1, <2>2, <2>3
  <2>. QED BY <2>1, <2>4, <2>5, <2>6
<1>7. auths' \in [Auths -> E!AuthRow \cup {None}]
  <2>1. auths' = [a \in Auths |-> auths'[a]]
    BY DEF E!Revoke, EnrollmentInv, EnrollmentTypes
  <2>. QED BY <1>6, <2>1
<1>8. UNCHANGED <<ledger, delegations>>
  BY DEF E!Revoke
<1>9. EnrollmentTypes'
  BY <1>3, <1>5, <1>7, <1>8 DEF EnrollmentInv, EnrollmentTypes
<1>10. Requested'
  <2>1. RequestOf(r)'
    BY <1>2, <1>3 DEF RequestOf
  <2>. QED BY <1>3, <2>1 DEF EnrollmentInv, Requested, RequestOf, Kind
<1>11. \A s \in Requests : rq'[s].ask = rq[s].ask
  BY <1>3
<1>12. Drawn'
  <2>1. ASSUME NEW s \in Requests, rq'[s].answer = "credential"
        PROVE  rq[s].ask.kind = "authorize" /\ auths'[rq[s].ask.auth] # None /\ auths'[rq[s].ask.auth].token = s
    <3>1. s # r /\ rq[s].answer = "credential"
      BY <1>3, <2>1
    <3>2. rq[s].pc # "idle" /\ Kind(s) = "authorize" /\ auths[Auth(s)] # None /\ auths[Auth(s)].token = s
      BY <3>1 DEF EnrollmentInv, Drawn, Requested, RequestOf, E!EnrollmentAssumption
    <3>3. Auth(s) \in Auths
      BY <3>2, AskOf, AskFacts DEF Kind, Auth
    <3>. QED BY <1>6, <3>2, <3>3 DEF Kind, Auth
  <2>2. ASSUME NEW a \in Auths, auths'[a] # None, auths'[a].state = "available"
        PROVE  auths'[a].claim = auths'[a].token /\ auths'[a].outcome = "authorized"
    BY <1>6, <2>2 DEF EnrollmentInv, Drawn
  <2>. QED BY <1>11, <2>1, <2>2 DEF Drawn, Kind, Auth
<1>13. Entries'
  <2>1. SUFFICES ASSUME NEW o \in LedgerOps, ledger[o] # None
        PROVE  EntryOf(o)'
    BY <1>8 DEF Entries
  <2>. DEFINE c == ledger[o].claim
  <2>2. EntryOf(o) /\ c \in Requests
    BY <2>1 DEF EnrollmentInv, EnrollmentTypes, Entries, E!LedgerRow
  <2>3. Kind(c) = "redeem" => Auth(c) \in Auths
    BY <2>2, AskOf, AskFacts DEF EntryOf, Kind, Auth
  <2>4. rq'[c].pc \notin {"idle", "redeem", "enrol", "withdraw"}
    BY <1>3, <2>2 DEF EntryOf
  <2>. QED BY <1>6, <1>8, <1>11, <2>2, <2>3, <2>4 DEF EntryOf, Kind, Auth
<1>14. Redemptions'
  <2>1. ASSUME NEW a \in Auths, auths'[a] # None, auths'[a].outcome = "enrolled"
        PROVE  LET s == auths'[a].claim
               IN rq[s].ask # None /\ rq[s].ask.kind = "redeem" /\ rq[s].ask.auth = a /\ HasEntry(s) /\ s \in Requests
    <3>1. auths[a] # None /\ auths[a].outcome = "enrolled" /\ auths'[a].claim = auths[a].claim
      BY <1>6, <2>1
    <3>2. auths[a].claim \in Requests
      BY <3>1 DEF EnrollmentInv, EnrollmentTypes, E!AuthRow
    <3>. QED BY <3>1, <3>2 DEF EnrollmentInv, Redemptions, Kind, Auth
  <2>2. ASSUME NEW s \in Requests, rq[s].ask # None, Kind(s) = "redeem"
        PROVE  /\ auths'[Auth(s)] # None /\ auths'[Auth(s)].claim = auths[Auth(s)].claim
               /\ auths'[Auth(s)].outcome = auths[Auth(s)].outcome
    <3>1. Auth(s) \in Auths
      BY <2>2, AskFacts DEF Kind, Auth, EnrollmentInv, EnrollmentTypes
    <3>. QED BY <1>6, <2>2, <3>1 DEF EnrollmentInv, Redemptions
  <2>3. ASSUME NEW s \in Requests, rq'[s].pc = "live" \/ (rq'[s].answer = "enrolled" /\ Kind(s) = "redeem")
        PROVE  auths'[Auth(s)].claim = s /\ auths'[Auth(s)].outcome = "enrolled"
    <3>1. rq[s].pc = "live" \/ (rq[s].answer = "enrolled" /\ Kind(s) = "redeem")
      BY <1>3, <2>3
    <3>2. rq[s].ask # None /\ Kind(s) = "redeem"
      BY <3>1 DEF EnrollmentInv, Requested, RequestOf, E!EnrollmentAssumption
    <3>. QED BY <2>2, <3>1, <3>2 DEF EnrollmentInv, Redemptions
  <2>. QED BY <1>8, <1>11, <2>1, <2>2, <2>3 DEF Redemptions, HasEntry, Kind, Auth
<1>15. Withdrawing'
  BY <1>3, <1>8, <1>11 DEF EnrollmentInv, Withdrawing, Kind
<1>16. RevokedStays'
  <2>1. ASSUME NEW a \in Auths, E!IsRevoked(a)', auths'[a] # None
        PROVE  auths'[a].state = "revoked"
    <3>1. E!IsRevoked(a) \/ (mine /\ a = ask.auth)
      BY <1>5, <2>1 DEF E!IsRevoked
    <3>. QED BY <1>6, <2>1, <3>1 DEF EnrollmentInv, RevokedStays
  <2>. QED BY <2>1 DEF RevokedStays
<1>. QED BY <1>9, <1>10, <1>12, <1>13, <1>14, <1>15, <1>16 DEF EnrollmentInv

LEMMA EnrolmentFacts ==
  ASSUME E!EnrollmentAssumption, EnrollmentInv, NEW r \in Requests, NEW e \in Intents, E!Enrolment(r, e)
  PROVE  LET entry == [ask |-> e, claim |-> r, outcome |-> IF E!WillEnrol(e) THEN "enrolled" ELSE "conflict"]
         IN /\ entry # None
            /\ ledger' \in [LedgerOps -> E!LedgerRow \cup {None}]
            /\ \A o \in LedgerOps : ledger'[o] = IF o = IntentOf[e].operation THEN entry ELSE ledger[o]
            /\ delegations' \in [Delegations -> E!Delegation \cup {None}]
            /\ \A d \in Delegations : delegations[d] # None => delegations'[d] = delegations[d]
<1>. DEFINE entry == [ask |-> e, claim |-> r, outcome |-> IF E!WillEnrol(e) THEN "enrolled" ELSE "conflict"]
            del == [intent |-> e, revoked |-> FALSE]
<1>1. entry \in E!LedgerRow /\ entry # None
  BY DEF E!LedgerRow, E!EnrollmentAssumption
<1>2. del \in E!Delegation
  BY DEF E!Delegation
<1>3. IntentOf[e].delegation \in Delegations /\ IntentOf[e].operation \in LedgerOps
  BY DEF E!EnrollmentAssumption
<1>4. /\ ledger' \in [LedgerOps -> E!LedgerRow \cup {None}]
      /\ \A o \in LedgerOps : ledger'[o] = IF o = IntentOf[e].operation THEN entry ELSE ledger[o]
  BY <1>1, <1>3 DEF E!Enrolment, EnrollmentInv, EnrollmentTypes
<1>5. /\ delegations' \in [Delegations -> E!Delegation \cup {None}]
      /\ \A d \in Delegations : delegations[d] # None => delegations'[d] = delegations[d]
  BY <1>2, <1>3 DEF E!Enrolment, EnrollmentInv, EnrollmentTypes
<1>. QED BY <1>1, <1>4, <1>5

LEMMA EntryFact ==
  ASSUME E!EnrollmentAssumption, EnrollmentInv, NEW r \in Requests, NEW e \in Intents, E!Enrolment(r, e),
         NEW o \in LedgerOps, ledger[o] = None, ledger'[o] # None
  PROVE  ledger'[o].claim = r
<1>. DEFINE entry == [ask |-> e, claim |-> r, outcome |-> IF E!WillEnrol(e) THEN "enrolled" ELSE "conflict"]
<1>1. ledger'[o] = IF o = IntentOf[e].operation THEN entry ELSE ledger[o]
  BY EnrolmentFacts
<1>2. entry.claim = r
  OBVIOUS
<1>. HIDE DEF entry
<1>. QED BY <1>1, <1>2

LEMMA EnrolKeeps ==
  ASSUME E!EnrollmentAssumption, EnrollmentInv, NEW r \in Requests, E!Enrol(r)
  PROVE  EnrollmentInv'
<1>. DEFINE e == rq[r].ask.intent
            entry == [ask |-> e, claim |-> r, outcome |-> IF E!WillEnrol(e) THEN "enrolled" ELSE "conflict"]
            mine(o) == E!IsOpen(e) /\ o = IntentOf[e].operation
<1>1. Kind(r) = "enrol" /\ rq[r].answer = None /\ rq[r].ask # None /\ e \in Intents
  BY AskOf, AskFacts DEF E!Enrol, EnrollmentInv, Requested, RequestOf, Kind
<1>2. /\ rq' \in [Requests -> [pc : EnrollmentSteps, ask : E!Asks \cup {None}, answer : EnrollmentAnswers]]
      /\ \A s \in Requests \ {r} : rq'[s] = rq[s]
      /\ rq'[r].ask = rq[r].ask /\ rq'[r].answer = None /\ rq'[r].pc = "enrolled" /\ Requested'
  BY <1>1, MoveFacts DEF E!Enrol, EnrollmentSteps
<1>3. /\ ledger' \in [LedgerOps -> E!LedgerRow \cup {None}]
      /\ delegations' \in [Delegations -> E!Delegation \cup {None}]
      /\ \A d \in Delegations : delegations[d] # None => delegations'[d] = delegations[d]
      /\ \A o \in LedgerOps : ledger'[o] = IF mine(o) THEN entry ELSE ledger[o]
      /\ entry # None
  <2>1. CASE E!IsOpen(e)
    BY <1>1, <2>1, EnrolmentFacts DEF E!Enrol
  <2>2. entry # None
    BY <1>1 DEF E!LedgerRow, E!EnrollmentAssumption
  <2>3. CASE ~E!IsOpen(e)
    BY <2>2, <2>3 DEF E!Enrol, EnrollmentInv, EnrollmentTypes
  <2>. QED BY <2>1, <2>3
<1>4. UNCHANGED <<operator, auths>>
  BY DEF E!Enrol
<1>5. \A s \in Requests : rq'[s].ask = rq[s].ask /\ rq'[s].answer = rq[s].answer
  BY <1>1, <1>2
<1>6. EnrollmentTypes'
  BY <1>2, <1>3, <1>4 DEF EnrollmentInv, EnrollmentTypes
<1>7. Drawn'
  BY <1>4, <1>5 DEF EnrollmentInv, Drawn, Kind, Auth
<1>8. Entries'
  <2>1. SUFFICES ASSUME NEW o \in LedgerOps, ledger'[o] # None
        PROVE  EntryOf(o)'
    BY DEF Entries
  <2>2. CASE mine(o)
    <3>1. e \notin E!Withdrawal
      BY <1>1 DEF E!EnrollmentAssumption
    <3>2. ledger'[o].claim = r /\ ledger'[o].ask = e
      BY <1>3, <2>2
    <3>. QED BY <1>1, <1>2, <3>1, <3>2 DEF EntryOf, Kind
  <2>3. CASE ~mine(o)
    <3>1. ledger'[o] = ledger[o] /\ EntryOf(o) /\ ledger[o].claim \in Requests
      BY <1>3, <2>1, <2>3 DEF EnrollmentInv, EnrollmentTypes, Entries, E!LedgerRow
    <3>. QED BY <1>2, <1>4, <1>5, <3>1 DEF EntryOf, Kind, Auth
  <2>. QED BY <2>2, <2>3
<1>9. Redemptions'
  <2>1. ASSUME NEW s, HasEntry(s)
        PROVE  HasEntry(s)'
    <3>1. PICK o \in LedgerOps : ledger[o] # None /\ ledger[o].claim = s /\ ledger[o].outcome = "enrolled"
      BY <2>1 DEF HasEntry
    <3>2. ~mine(o)
      BY <3>1 DEF E!IsOpen
    <3>. QED BY <1>3, <3>1, <3>2 DEF HasEntry
  <2>2. ASSUME NEW a \in Auths, auths[a] # None, auths[a].outcome = "enrolled"
        PROVE  LET s == auths[a].claim
               IN rq[s].ask # None /\ rq[s].ask.kind = "redeem" /\ rq[s].ask.auth = a /\ HasEntry(s) /\ s \in Requests
    BY <2>2 DEF EnrollmentInv, EnrollmentTypes, E!AuthRow, Redemptions, Kind, Auth
  <2>3. \A s \in Requests : rq'[s].pc = "live" => rq[s].pc = "live"
    BY <1>2
  <2>5. ASSUME NEW a \in Auths, auths'[a] # None, auths'[a].outcome = "enrolled"
        PROVE  \E s \in Requests : /\ s = auths[a].claim /\ rq'[s].ask # None /\ rq'[s].ask.kind = "redeem"
                                   /\ rq'[s].ask.auth = a /\ HasEntry(s)'
    BY <1>4, <1>5, <2>1, <2>2, <2>5
  <2>6. \A s \in Requests : rq'[s].ask # None /\ rq'[s].ask.kind = "redeem" => auths'[rq'[s].ask.auth] # None
    BY <1>4, <1>5 DEF EnrollmentInv, Redemptions, Kind, Auth
  <2>7. \A s \in Requests : (rq'[s].pc = "live" \/ (rq'[s].answer = "enrolled" /\ rq'[s].ask.kind = "redeem")) =>
          auths'[rq'[s].ask.auth].claim = s /\ auths'[rq'[s].ask.auth].outcome = "enrolled"
    BY <1>4, <1>5, <2>3 DEF EnrollmentInv, Redemptions, Kind, Auth
  <2>8. \A a \in Auths : auths'[a] # None /\ auths'[a].outcome = "enrolled" =>
          LET s == auths'[a].claim
          IN /\ rq'[s].ask # None /\ rq'[s].ask.kind = "redeem" /\ rq'[s].ask.auth = a
             /\ \E o \in LedgerOps : ledger'[o] # None /\ ledger'[o].claim = s /\ ledger'[o].outcome = "enrolled"
    BY <1>4, <2>5 DEF HasEntry
  <2>. QED BY <2>6, <2>7, <2>8 DEF Redemptions, HasEntry, Kind, Auth
<1>10. Withdrawing'
  <2>1. ASSUME NEW s \in Requests, rq[s].ask # None, Kind(s) = "withdraw"
        PROVE  delegations'[rq[s].ask.delegation] # None
    <3>1. rq[s].ask.delegation \in Delegations
      BY <2>1, AskFacts DEF Kind, EnrollmentInv, EnrollmentTypes
    <3>. QED BY <1>3, <2>1, <3>1 DEF EnrollmentInv, Withdrawing
  <2>2. ASSUME NEW s \in Requests, rq'[s].pc \in {"delegation", "outcome"}
        PROVE  ledger'[rq[s].ask.op] # None /\ ledger'[rq[s].ask.op].ask = rq[s].ask
    <3>1. rq[s].pc \in {"delegation", "outcome"}
      BY <1>2, <2>2
    <3>2. rq[s].ask.op \in LedgerOps
      BY <3>1, AskOf, AskFacts DEF EnrollmentInv, Requested, RequestOf, Kind
    <3>3. ledger[rq[s].ask.op] # None /\ ledger[rq[s].ask.op].ask = rq[s].ask
      BY <3>1 DEF EnrollmentInv, Withdrawing
    <3>. QED BY <1>3, <3>2, <3>3 DEF E!IsOpen
  <2>. QED BY <1>5, <2>1, <2>2 DEF Withdrawing, Kind
<1>11. RevokedStays'
  BY <1>4 DEF EnrollmentInv, RevokedStays, E!IsRevoked
<1>. QED BY <1>2, <1>6, <1>7, <1>8, <1>9, <1>10, <1>11 DEF EnrollmentInv

LEMMA RecordKeeps ==
  ASSUME E!EnrollmentAssumption, EnrollmentInv, NEW r \in Requests, E!Record(r)
  PROVE  EnrollmentInv'
<1>. DEFINE ask == rq[r].ask
            op == ledger[ask.op]
            entry == [ask |-> ask, claim |-> r, outcome |-> "pending"]
            mine(o) == op = None /\ o = ask.op
<1>1. Kind(r) = "withdraw" /\ rq[r].answer = None /\ rq[r].pc = "withdraw" /\ UNCHANGED <<operator, auths, delegations>>
  BY DEF E!Record, EnrollmentInv, Requested, RequestOf
<1>2. ask \in E!Withdrawal /\ ask # None /\ ask.op \in LedgerOps
  BY <1>1, AskOf, AskFacts DEF Kind
<1>3. CASE E!Answer(r, "conflict") /\ UNCHANGED ledger
  BY <1>1, <1>3, AnswerKeeps DEF EnrollmentAnswers
<1>4. CASE op # None /\ op.ask = ask /\ E!Step(r, "delegation") /\ UNCHANGED ledger
  <2>1. /\ rq' \in [Requests -> [pc : EnrollmentSteps, ask : E!Asks \cup {None}, answer : EnrollmentAnswers]]
        /\ \A s \in Requests \ {r} : rq'[s] = rq[s]
        /\ rq'[r].ask = ask /\ rq'[r].answer = None /\ rq'[r].pc = "delegation" /\ Requested'
    BY <1>1, <1>4, MoveFacts DEF EnrollmentSteps
  <2>2. delegations[ask.delegation] # None
    BY <1>1, <1>2 DEF EnrollmentInv, Withdrawing
  <2>3. RequestOf(r)' /\ LeftOpen(r)
    BY <1>1, <1>2, <1>4, <2>1, <2>2 DEF Requested, RequestOf, LeftOpen, Kind, E!EnrollmentAssumption
  <2>. QED BY <1>1, <1>4, <2>1, <2>3, QuietStep
<1>5. CASE op = None /\ E!Step(r, "delegation") /\ ledger' = [ledger EXCEPT ![ask.op] = entry]
  <2>1. /\ rq' \in [Requests -> [pc : EnrollmentSteps, ask : E!Asks \cup {None}, answer : EnrollmentAnswers]]
        /\ \A s \in Requests \ {r} : rq'[s] = rq[s]
        /\ rq'[r].ask = ask /\ rq'[r].answer = None /\ rq'[r].pc = "delegation" /\ Requested'
    BY <1>1, <1>5, MoveFacts DEF EnrollmentSteps
  <2>2. entry \in E!LedgerRow /\ entry # None
    BY <1>2 DEF E!LedgerRow, E!EnrollmentAssumption
  <2>3. /\ ledger' \in [LedgerOps -> E!LedgerRow \cup {None}]
        /\ \A o \in LedgerOps : ledger'[o] = IF mine(o) THEN entry ELSE ledger[o]
    BY <1>2, <1>5, <2>2 DEF EnrollmentInv, EnrollmentTypes
  <2>4. \A s \in Requests : rq'[s].ask = rq[s].ask /\ rq'[s].answer = rq[s].answer
    BY <1>1, <2>1
  <2>5. EnrollmentTypes'
    BY <1>1, <2>1, <2>3 DEF EnrollmentInv, EnrollmentTypes
  <2>6. Drawn'
    BY <1>1, <2>4 DEF EnrollmentInv, Drawn, Kind, Auth
  <2>7. Entries'
    <3>1. SUFFICES ASSUME NEW o \in LedgerOps, ledger'[o] # None
          PROVE  EntryOf(o)'
      BY DEF Entries
    <3>2. CASE mine(o)
      BY <1>1, <1>2, <2>1, <2>3, <3>2 DEF EntryOf, Kind
    <3>3. CASE ~mine(o)
      <4>1. ledger'[o] = ledger[o] /\ EntryOf(o) /\ ledger[o].claim \in Requests
        BY <2>3, <3>1, <3>3 DEF EnrollmentInv, EnrollmentTypes, Entries, E!LedgerRow
      <4>. QED BY <1>1, <2>1, <2>4, <4>1 DEF EntryOf, Kind, Auth
    <3>. QED BY <3>2, <3>3
  <2>8. Redemptions'
    <3>1. ASSUME NEW s, HasEntry(s)
          PROVE  \E o \in LedgerOps : ledger'[o] # None /\ ledger'[o].claim = s /\ ledger'[o].outcome = "enrolled"
      <4>1. PICK o \in LedgerOps : ledger[o] # None /\ ledger[o].claim = s /\ ledger[o].outcome = "enrolled"
        BY <3>1 DEF HasEntry
      <4>. QED BY <2>3, <4>1
    <3>2. ASSUME NEW a \in Auths, auths[a] # None, auths[a].outcome = "enrolled"
          PROVE  \E s \in Requests : /\ s = auths[a].claim /\ rq[s].ask # None /\ rq[s].ask.kind = "redeem"
                                     /\ rq[s].ask.auth = a /\ HasEntry(s)
      BY <3>2 DEF EnrollmentInv, EnrollmentTypes, E!AuthRow, Redemptions, Kind, Auth
    <3>3. \A s \in Requests : (rq'[s].pc = "live" \/ (rq'[s].answer = "enrolled" /\ rq'[s].ask.kind = "redeem")) =>
            auths'[rq'[s].ask.auth].claim = s /\ auths'[rq'[s].ask.auth].outcome = "enrolled"
      BY <1>1, <2>1, <2>4 DEF EnrollmentInv, Redemptions, Kind, Auth
    <3>4. \A s \in Requests : rq'[s].ask # None /\ rq'[s].ask.kind = "redeem" => auths'[rq'[s].ask.auth] # None
      BY <1>1, <2>4 DEF EnrollmentInv, Redemptions, Kind, Auth
    <3>5. \A a \in Auths : auths'[a] # None /\ auths'[a].outcome = "enrolled" =>
            LET s == auths'[a].claim
            IN /\ rq'[s].ask # None /\ rq'[s].ask.kind = "redeem" /\ rq'[s].ask.auth = a
               /\ \E o \in LedgerOps : ledger'[o] # None /\ ledger'[o].claim = s /\ ledger'[o].outcome = "enrolled"
      BY <1>1, <2>4, <3>1, <3>2
    <3>. QED BY <3>3, <3>4, <3>5 DEF Redemptions, HasEntry, Kind, Auth
  <2>9. Withdrawing'
    <3>1. ASSUME NEW s \in Requests, rq'[s].pc \in {"delegation", "outcome"}
          PROVE  ledger'[rq[s].ask.op] # None /\ ledger'[rq[s].ask.op].ask = rq[s].ask
      <4>1. CASE s = r
        BY <1>2, <1>5, <2>2, <2>3, <4>1
      <4>2. CASE s # r
        <5>1. rq[s].pc \in {"delegation", "outcome"}
          BY <2>1, <3>1, <4>2
        <5>2. rq[s].ask.op \in LedgerOps
          BY <5>1, AskOf, AskFacts DEF EnrollmentInv, Requested, RequestOf, Kind
        <5>3. ledger[rq[s].ask.op] # None /\ ledger[rq[s].ask.op].ask = rq[s].ask
          BY <5>1 DEF EnrollmentInv, Withdrawing
        <5>. QED BY <2>3, <5>2, <5>3
      <4>. QED BY <4>1, <4>2
    <3>. QED BY <1>1, <2>4, <3>1 DEF EnrollmentInv, Withdrawing, Kind
  <2>10. RevokedStays'
    BY <1>1 DEF EnrollmentInv, RevokedStays, E!IsRevoked
  <2>. QED BY <2>1, <2>5, <2>6, <2>7, <2>8, <2>9, <2>10 DEF EnrollmentInv
<1>. QED BY <1>1, <1>3, <1>4, <1>5 DEF E!Record

LEMMA WithdrawKeeps ==
  ASSUME E!EnrollmentAssumption, EnrollmentInv, NEW r \in Requests, E!Withdraw(r)
  PROVE  /\ EnrollmentInv'
         /\ \A d \in Delegations : delegations[d] # None /\ delegations[d].revoked => delegations'[d] = delegations[d]
<1>. DEFINE d0 == rq[r].ask.delegation
            row == [delegations[d0] EXCEPT !.revoked = TRUE]
<1>1. Kind(r) = "withdraw" /\ rq[r].answer = None /\ rq[r].pc = "delegation" /\ UNCHANGED <<operator, auths, ledger>>
  BY DEF E!Withdraw, EnrollmentInv, Requested, RequestOf
<1>2. rq[r].ask # None /\ d0 \in Delegations
  BY <1>1, AskOf, AskFacts DEF Kind
<1>3. delegations[d0] # None /\ delegations[d0] \in E!Delegation
  BY <1>1, <1>2 DEF EnrollmentInv, EnrollmentTypes, Withdrawing
<1>4. row \in E!Delegation /\ (delegations[d0].revoked => row = delegations[d0])
  BY <1>3 DEF E!Delegation
<1>5. /\ delegations' \in [Delegations -> E!Delegation \cup {None}]
      /\ \A d \in Delegations : delegations'[d] = IF d = d0 THEN row ELSE delegations[d]
  BY <1>2, <1>4 DEF E!Withdraw, EnrollmentInv, EnrollmentTypes
<1>6. /\ rq' \in [Requests -> [pc : EnrollmentSteps, ask : E!Asks \cup {None}, answer : EnrollmentAnswers]]
      /\ \A s \in Requests \ {r} : rq'[s] = rq[s]
      /\ rq'[r].ask = rq[r].ask /\ rq'[r].answer = None /\ rq'[r].pc = "outcome" /\ Requested'
  BY <1>1, MoveFacts DEF E!Withdraw, EnrollmentSteps
<1>7. \A s \in Requests : rq'[s].ask = rq[s].ask /\ rq'[s].answer = rq[s].answer
  BY <1>1, <1>6
<1>8. EnrollmentTypes'
  BY <1>1, <1>5, <1>6 DEF EnrollmentInv, EnrollmentTypes
<1>9. Drawn'
  BY <1>1, <1>7 DEF EnrollmentInv, Drawn, Kind, Auth
<1>10. Entries'
  <2>1. SUFFICES ASSUME NEW o \in LedgerOps, ledger[o] # None
        PROVE  EntryOf(o)'
    BY <1>1 DEF Entries
  <2>2. EntryOf(o) /\ ledger[o].claim \in Requests
    BY <2>1 DEF EnrollmentInv, EnrollmentTypes, Entries, E!LedgerRow
  <2>. QED BY <1>1, <1>6, <1>7, <2>2 DEF EntryOf, Kind, Auth
<1>11. Redemptions'
  <2>1. ASSUME NEW a \in Auths, auths[a] # None, auths[a].outcome = "enrolled"
        PROVE  auths[a].claim \in Requests
    BY <2>1 DEF EnrollmentInv, EnrollmentTypes, E!AuthRow
  <2>. QED BY <1>1, <1>6, <1>7, <2>1 DEF EnrollmentInv, Redemptions, HasEntry, Kind, Auth
<1>12. Withdrawing'
  <2>1. ASSUME NEW s \in Requests, rq[s].ask # None, Kind(s) = "withdraw"
        PROVE  delegations'[rq[s].ask.delegation] # None
    <3>1. rq[s].ask.delegation \in Delegations
      BY <2>1, AskFacts DEF Kind, EnrollmentInv, EnrollmentTypes
    <3>. QED BY <1>4, <1>5, <2>1, <3>1 DEF EnrollmentInv, Withdrawing, E!EnrollmentAssumption
  <2>. QED BY <1>1, <1>6, <1>7, <2>1 DEF EnrollmentInv, Withdrawing, Kind
<1>13. RevokedStays'
  BY <1>1 DEF EnrollmentInv, RevokedStays, E!IsRevoked
<1>. QED BY <1>4, <1>5, <1>6, <1>8, <1>9, <1>10, <1>11, <1>12, <1>13 DEF EnrollmentInv

LEMMA WithdrawnKeeps ==
  ASSUME E!EnrollmentAssumption, EnrollmentInv, NEW r \in Requests, E!Withdrawn(r)
  PROVE  /\ EnrollmentInv'
         /\ \A o \in LedgerOps : ledger[o] = None => ledger'[o] = None
<1>. DEFINE o0 == rq[r].ask.op
            entry == [ledger[o0] EXCEPT !.outcome = "withdrawn"]
<1>1. Kind(r) = "withdraw" /\ rq[r].answer = None /\ rq[r].pc = "outcome" /\ UNCHANGED <<operator, auths, delegations>>
  BY DEF E!Withdrawn, EnrollmentInv, Requested, RequestOf
<1>2. rq[r].ask # None /\ rq[r].ask \in E!Withdrawal /\ o0 \in LedgerOps
  BY <1>1, AskOf, AskFacts DEF Kind
<1>3. ledger[o0] # None /\ ledger[o0] \in E!LedgerRow /\ ledger[o0].ask = rq[r].ask
  BY <1>1, <1>2 DEF EnrollmentInv, EnrollmentTypes, Withdrawing
<1>4. entry \in E!LedgerRow /\ entry.ask = ledger[o0].ask /\ entry.claim = ledger[o0].claim
  BY <1>3 DEF E!LedgerRow
<1>5. /\ ledger' \in [LedgerOps -> E!LedgerRow \cup {None}]
      /\ \A o \in LedgerOps : ledger'[o] = IF o = o0 THEN entry ELSE ledger[o]
  BY <1>2, <1>4 DEF E!Withdrawn, EnrollmentInv, EnrollmentTypes
<1>6. EntryOf(o0) /\ Kind(ledger[o0].claim) = "withdraw" /\ ledger[o0].claim \in Requests
  BY <1>2, <1>3 DEF EnrollmentInv, Entries, EntryOf, E!LedgerRow
<1>7. /\ rq' \in [Requests -> [pc : EnrollmentSteps, ask : E!Asks \cup {None}, answer : EnrollmentAnswers]]
      /\ \A s \in Requests \ {r} : rq'[s] = rq[s]
      /\ rq'[r].ask = rq[r].ask /\ rq'[r].answer = "withdrawn" /\ rq'[r].pc = "end"
  <2>1. "withdrawn" \in EnrollmentAnswers
    BY DEF EnrollmentAnswers
  <2>. QED BY <2>1, AnswerFacts DEF E!Withdrawn, EnrollmentInv
<1>8. \A s \in Requests : /\ rq'[s].ask = rq[s].ask
                          /\ rq'[s].answer = IF s = r THEN "withdrawn" ELSE rq[s].answer
                          /\ rq'[s].pc = IF s = r THEN "end" ELSE rq[s].pc
  BY <1>7
<1>9. EnrollmentTypes'
  BY <1>1, <1>5, <1>7 DEF EnrollmentInv, EnrollmentTypes
<1>10. Requested'
  <2>1. RequestOf(r)'
    BY <1>2, <1>7 DEF RequestOf
  <2>. QED BY <1>7, <2>1 DEF EnrollmentInv, Requested, RequestOf, Kind
<1>11. Drawn'
  BY <1>1, <1>8 DEF EnrollmentInv, Drawn, Kind, Auth
<1>12. Entries'
  <2>1. SUFFICES ASSUME NEW o \in LedgerOps, ledger'[o] # None
        PROVE  EntryOf(o)'
    BY DEF Entries
  <2>2. CASE o = o0
    BY <1>2, <1>3, <1>4, <1>5, <1>6, <1>8, <2>2 DEF EntryOf, Kind, Auth
  <2>3. CASE o # o0
    <3>1. ledger'[o] = ledger[o] /\ EntryOf(o) /\ ledger[o].claim \in Requests
      BY <1>5, <2>1, <2>3 DEF EnrollmentInv, EnrollmentTypes, Entries, E!LedgerRow
    <3>. QED BY <1>1, <1>8, <3>1 DEF EntryOf, Kind, Auth
  <2>. QED BY <2>2, <2>3
<1>13. Redemptions'
  <2>1. ASSUME NEW s \in Requests, HasEntry(s), Kind(s) = "redeem"
        PROVE  \E o \in LedgerOps : ledger'[o] # None /\ ledger'[o].claim = s /\ ledger'[o].outcome = "enrolled"
    <3>1. PICK o \in LedgerOps : ledger[o] # None /\ ledger[o].claim = s /\ ledger[o].outcome = "enrolled"
      BY <2>1 DEF HasEntry
    <3>2. o # o0
      BY <1>6, <2>1, <3>1
    <3>. QED BY <1>5, <3>1, <3>2
  <2>2. ASSUME NEW a \in Auths, auths[a] # None, auths[a].outcome = "enrolled"
        PROVE  \E s \in Requests : /\ s = auths[a].claim /\ rq[s].ask # None /\ Kind(s) = "redeem"
                                   /\ Auth(s) = a /\ HasEntry(s)
    BY <2>2 DEF EnrollmentInv, EnrollmentTypes, E!AuthRow, Redemptions, Kind, Auth
  <2>3. \A s \in Requests : (rq'[s].pc = "live" \/ (rq'[s].answer = "enrolled" /\ rq'[s].ask.kind = "redeem")) =>
          auths'[rq'[s].ask.auth].claim = s /\ auths'[rq'[s].ask.auth].outcome = "enrolled"
    BY <1>1, <1>8 DEF EnrollmentInv, Redemptions, Kind, Auth
  <2>4. \A s \in Requests : rq'[s].ask # None /\ rq'[s].ask.kind = "redeem" => auths'[rq'[s].ask.auth] # None
    BY <1>1, <1>8 DEF EnrollmentInv, Redemptions, Kind, Auth
  <2>5. \A a \in Auths : auths'[a] # None /\ auths'[a].outcome = "enrolled" =>
          LET s == auths'[a].claim
          IN /\ rq'[s].ask # None /\ rq'[s].ask.kind = "redeem" /\ rq'[s].ask.auth = a
             /\ \E o \in LedgerOps : ledger'[o] # None /\ ledger'[o].claim = s /\ ledger'[o].outcome = "enrolled"
    BY <1>1, <1>8, <2>1, <2>2 DEF Kind, Auth
  <2>. QED BY <2>3, <2>4, <2>5 DEF Redemptions, HasEntry, Kind, Auth
<1>14. Withdrawing'
  <2>1. ASSUME NEW s \in Requests, rq'[s].pc \in {"delegation", "outcome"}
        PROVE  ledger'[rq[s].ask.op] # None /\ ledger'[rq[s].ask.op].ask = rq[s].ask
    <3>1. rq[s].pc \in {"delegation", "outcome"}
      BY <1>8, <2>1
    <3>2. rq[s].ask.op \in LedgerOps
      BY <3>1, AskOf, AskFacts DEF EnrollmentInv, Requested, RequestOf, Kind
    <3>3. ledger[rq[s].ask.op] # None /\ ledger[rq[s].ask.op].ask = rq[s].ask
      BY <3>1 DEF EnrollmentInv, Withdrawing
    <3>. QED BY <1>4, <1>5, <3>2, <3>3 DEF E!EnrollmentAssumption
  <2>. QED BY <1>1, <1>8, <2>1 DEF EnrollmentInv, Withdrawing, Kind
<1>15. RevokedStays'
  BY <1>1 DEF EnrollmentInv, RevokedStays, E!IsRevoked
<1>16. \A o \in LedgerOps : ledger[o] = None => ledger'[o] = None
  BY <1>3, <1>5
<1>. QED BY <1>9, <1>10, <1>11, <1>12, <1>13, <1>14, <1>15, <1>16 DEF EnrollmentInv

\* A redemption that spends its authorization: the row and the entry say the
\* same, and nothing said of another request names this authorization.
LEMMA RedeemKeeps ==
  ASSUME E!EnrollmentAssumption, EnrollmentInv, NEW r \in Requests, E!Redeem(r)
  PROVE  EnrollmentInv'
<1>. DEFINE a0 == rq[r].ask.auth
            e == rq[r].ask.intent
            row == auths[a0]
            outcome == IF E!IsOpen(e) /\ E!WillEnrol(e) THEN "enrolled" ELSE "conflict"
            spent == [row EXCEPT !.state = "consumed", !.claim = r, !.outcome = outcome]
            entry == [ask |-> e, claim |-> r, outcome |-> IF E!WillEnrol(e) THEN "enrolled" ELSE "conflict"]
            mine(o) == E!IsOpen(e) /\ o = IntentOf[e].operation
<1>1. Kind(r) = "redeem" /\ rq[r].answer = None /\ rq[r].pc = "redeem" /\ UNCHANGED operator
  BY DEF E!Redeem, EnrollmentInv, Requested, RequestOf
<1>2. rq[r].ask # None /\ a0 \in Auths /\ e \in Intents
  BY <1>1, AskOf, AskFacts DEF Kind
<1>3. row # None /\ row \in E!AuthRow
  BY <1>1, <1>2 DEF EnrollmentInv, EnrollmentTypes, Redemptions, Kind, Auth
<1>4. /\ rq' \in [Requests -> [pc : EnrollmentSteps, ask : E!Asks \cup {None}, answer : EnrollmentAnswers]]
      /\ \A s \in Requests \ {r} : rq'[s] = rq[s]
      /\ rq'[r].ask = rq[r].ask /\ rq'[r].answer = None /\ rq'[r].pc = "redeemed" /\ Requested'
  BY <1>1, MoveFacts DEF E!Redeem, EnrollmentSteps
<1>5. CASE UNCHANGED <<auths, ledger, delegations>>
  <2>1. RequestOf(r)' /\ LeftOpen(r)
    BY <1>1, <1>2, <1>3, <1>4 DEF Requested, RequestOf, LeftOpen, Kind, E!EnrollmentAssumption
  <2>. QED BY <1>1, <1>4, <1>5, <2>1, QuietStep
<1>6. CASE /\ E!MayRedeem(row) /\ auths' = [auths EXCEPT ![a0] = spent]
           /\ IF E!IsOpen(e) THEN E!Enrolment(r, e) ELSE UNCHANGED <<ledger, delegations>>
  <2>1. row.state = "available" /\ row.outcome = "authorized"
    BY <1>2, <1>6 DEF E!MayRedeem, E!IsUsable, EnrollmentInv, Drawn
  <2>2. /\ spent \in E!AuthRow /\ spent # None /\ spent.state = "consumed" /\ spent.claim = r
        /\ spent.outcome = outcome /\ spent.token = row.token
    BY <1>3 DEF E!AuthRow, E!EnrollmentAssumption
  <2>3. /\ auths' \in [Auths -> E!AuthRow \cup {None}]
        /\ \A a \in Auths : auths'[a] = IF a = a0 THEN spent ELSE auths[a]
    BY <1>2, <1>6, <2>2 DEF EnrollmentInv, EnrollmentTypes
  <2>4. /\ ledger' \in [LedgerOps -> E!LedgerRow \cup {None}]
        /\ delegations' \in [Delegations -> E!Delegation \cup {None}]
        /\ \A d \in Delegations : delegations[d] # None => delegations'[d] = delegations[d]
        /\ \A o \in LedgerOps : ledger'[o] = IF mine(o) THEN entry ELSE ledger[o]
        /\ entry # None
    <3>1. CASE E!IsOpen(e)
      BY <1>2, <1>6, <3>1, EnrolmentFacts
    <3>2. entry # None
      BY <1>2 DEF E!LedgerRow, E!EnrollmentAssumption
    <3>3. CASE ~E!IsOpen(e)
      BY <1>6, <3>2, <3>3 DEF EnrollmentInv, EnrollmentTypes
    <3>. QED BY <3>1, <3>3
  <2>5. \A s \in Requests : rq'[s].ask = rq[s].ask /\ rq'[s].answer = rq[s].answer
    BY <1>1, <1>4
  <2>6. EnrollmentTypes'
    BY <1>1, <1>4, <2>3, <2>4 DEF EnrollmentInv, EnrollmentTypes
  <2>7. Drawn'
    <3>1. ASSUME NEW s \in Requests, rq[s].answer = "credential"
          PROVE  rq[s].ask.kind = "authorize" /\ auths'[rq[s].ask.auth] # None /\ auths'[rq[s].ask.auth].token = s
      <4>1. rq[s].pc # "idle" /\ Kind(s) = "authorize" /\ auths[Auth(s)] # None /\ auths[Auth(s)].token = s
        BY <3>1 DEF EnrollmentInv, Drawn, Requested, RequestOf, E!EnrollmentAssumption
      <4>2. Auth(s) \in Auths
        BY <4>1, AskOf, AskFacts DEF Kind, Auth
      <4>. QED BY <2>2, <2>3, <4>1, <4>2 DEF Kind, Auth
    <3>2. ASSUME NEW a \in Auths, auths'[a] # None, auths'[a].state = "available"
          PROVE  auths'[a].claim = auths'[a].token /\ auths'[a].outcome = "authorized"
      BY <2>2, <2>3, <3>2 DEF EnrollmentInv, Drawn
    <3>. QED BY <2>5, <3>1, <3>2 DEF Drawn, Kind, Auth
  <2>8. \A o \in LedgerOps : ledger[o] # None => ledger'[o] = ledger[o]
    BY <2>4 DEF E!IsOpen
  <2>9. ASSUME NEW o \in LedgerOps, ledger[o] # None
        PROVE  /\ EntryOf(o) /\ ledger[o].claim \in Requests /\ ledger[o].claim # r
               /\ Kind(ledger[o].claim) = "redeem" => Auth(ledger[o].claim) \in Auths \ {a0}
    <3>. DEFINE c == ledger[o].claim
    <3>1. EntryOf(o) /\ c \in Requests
      BY <2>9 DEF EnrollmentInv, EnrollmentTypes, Entries, E!LedgerRow
    <3>2. c # r
      BY <1>1, <3>1 DEF EntryOf
    <3>3. Kind(c) = "redeem" => Auth(c) \in Auths
      BY <3>1, AskOf, AskFacts DEF EntryOf, Kind, Auth
    <3>4. Kind(c) = "redeem" => Auth(c) # a0
      BY <2>1, <3>1 DEF EntryOf
    <3>. QED BY <3>1, <3>2, <3>3, <3>4
  <2>10. Entries'
    <3>1. SUFFICES ASSUME NEW o \in LedgerOps, ledger'[o] # None
          PROVE  EntryOf(o)'
      BY DEF Entries
    <3>2. CASE mine(o)
      <4>1. ledger'[o].ask \notin E!Withdrawal /\ ledger'[o].claim = r /\ ledger'[o].outcome = outcome
        BY <1>2, <2>4, <3>2 DEF E!EnrollmentAssumption
      <4>2. /\ auths'[a0] # None /\ auths'[a0].state = "consumed" /\ auths'[a0].claim = r
            /\ auths'[a0].outcome = outcome
        BY <1>2, <2>2, <2>3
      <4>. HIDE DEF outcome, a0
      <4>3. rq'[r].pc = "redeemed" /\ rq'[r].ask.kind = "redeem" /\ rq'[r].ask.auth = a0
        BY <1>1, <1>4 DEF Kind, a0
      <4>. QED BY <4>1, <4>2, <4>3 DEF EntryOf, Kind, Auth
    <3>3. CASE ~mine(o)
      <4>. DEFINE c == ledger[o].claim
      <4>1. ledger[o] # None /\ ledger'[o] = ledger[o]
        BY <2>4, <3>1, <3>3
      <4>2. /\ EntryOf(o) /\ c \in Requests /\ c # r
            /\ Kind(c) = "redeem" => Auth(c) \in Auths \ {a0}
        BY <2>9, <4>1
      <4>3. Kind(c) = "redeem" => auths'[Auth(c)] = auths[Auth(c)]
        BY <2>3, <4>2
      <4>4. rq'[c] = rq[c]
        BY <1>4, <4>2
      <4>. QED BY <4>1, <4>2, <4>3, <4>4 DEF EntryOf, Kind, Auth
    <3>. QED BY <3>2, <3>3
  <2>11. Redemptions'
    <3>1. ASSUME NEW s \in Requests, HasEntry(s)
          PROVE  \E o \in LedgerOps : ledger'[o] # None /\ ledger'[o].claim = s /\ ledger'[o].outcome = "enrolled"
      <4>1. PICK o \in LedgerOps : ledger[o] # None /\ ledger[o].claim = s /\ ledger[o].outcome = "enrolled"
        BY <3>1 DEF HasEntry
      <4>. QED BY <2>8, <4>1
    <3>2. ASSUME NEW a \in Auths, auths'[a] # None, auths'[a].outcome = "enrolled"
          PROVE  LET s == auths'[a].claim
                 IN /\ rq'[s].ask # None /\ rq'[s].ask.kind = "redeem" /\ rq'[s].ask.auth = a
                    /\ \E o \in LedgerOps : ledger'[o] # None /\ ledger'[o].claim = s /\ ledger'[o].outcome = "enrolled"
      <4>1. CASE a = a0
        <5>1. auths'[a].claim = r /\ outcome = "enrolled"
          BY <2>2, <2>3, <3>2, <4>1
        <5>2. IntentOf[e].operation \in LedgerOps
          BY <1>2 DEF E!EnrollmentAssumption
        <5>3. ledger'[IntentOf[e].operation] = entry /\ entry.outcome = "enrolled"
          BY <2>4, <5>1, <5>2
        <5>. QED BY <1>1, <1>2, <2>4, <2>5, <4>1, <5>1, <5>2, <5>3 DEF Kind
      <4>2. CASE a # a0
        <5>. DEFINE s == auths[a].claim
        <5>1. auths'[a] = auths[a]
          BY <2>3, <4>2
        <5>2. s \in Requests
          BY <3>2, <5>1 DEF EnrollmentInv, EnrollmentTypes, E!AuthRow
        <5>3. rq[s].ask # None /\ Kind(s) = "redeem" /\ Auth(s) = a /\ HasEntry(s)
          BY <3>2, <5>1 DEF EnrollmentInv, Redemptions
        <5>. QED BY <2>5, <3>1, <5>1, <5>2, <5>3 DEF Kind, Auth
      <4>. QED BY <4>1, <4>2
    <3>3. ASSUME NEW s \in Requests, rq[s].ask # None, Kind(s) = "redeem"
          PROVE  auths'[Auth(s)] # None
      <4>1. Auth(s) \in Auths
        BY <3>3, AskFacts DEF Kind, Auth, EnrollmentInv, EnrollmentTypes
      <4>. QED BY <2>2, <2>3, <3>3, <4>1 DEF EnrollmentInv, Redemptions
    <3>4. ASSUME NEW s \in Requests, rq'[s].pc = "live" \/ (rq'[s].answer = "enrolled" /\ Kind(s) = "redeem")
          PROVE  auths'[Auth(s)].claim = s /\ auths'[Auth(s)].outcome = "enrolled"
      <4>1. s # r
        BY <1>1, <1>4, <3>4 DEF E!EnrollmentAssumption
      <4>2. rq[s].pc = "live" \/ (rq[s].answer = "enrolled" /\ Kind(s) = "redeem")
        BY <1>4, <3>4, <4>1
      <4>3. auths[Auth(s)].claim = s /\ auths[Auth(s)].outcome = "enrolled"
        BY <4>2 DEF EnrollmentInv, Redemptions
      <4>4. rq[s].ask # None /\ Kind(s) = "redeem"
        BY <4>2 DEF EnrollmentInv, Requested, RequestOf, E!EnrollmentAssumption
      <4>5. Auth(s) \in Auths
        BY <4>4, AskFacts DEF Kind, Auth, EnrollmentInv, EnrollmentTypes
      <4>6. Auth(s) # a0
        BY <2>1, <4>3
      <4>. QED BY <2>3, <4>3, <4>5, <4>6
    <3>. QED BY <2>5, <3>2, <3>3, <3>4 DEF Redemptions, HasEntry, Kind, Auth
  <2>12. Withdrawing'
    <3>1. ASSUME NEW s \in Requests, rq[s].ask # None, Kind(s) = "withdraw"
          PROVE  delegations'[rq[s].ask.delegation] # None
      <4>1. rq[s].ask.delegation \in Delegations
        BY <3>1, AskFacts DEF Kind, EnrollmentInv, EnrollmentTypes
      <4>. QED BY <2>4, <3>1, <4>1 DEF EnrollmentInv, Withdrawing
    <3>2. ASSUME NEW s \in Requests, rq'[s].pc \in {"delegation", "outcome"}
          PROVE  ledger'[rq[s].ask.op] # None /\ ledger'[rq[s].ask.op].ask = rq[s].ask
      <4>1. rq[s].pc \in {"delegation", "outcome"}
        BY <1>4, <3>2
      <4>2. rq[s].ask.op \in LedgerOps
        BY <4>1, AskOf, AskFacts DEF EnrollmentInv, Requested, RequestOf, Kind
      <4>3. ledger[rq[s].ask.op] # None /\ ledger[rq[s].ask.op].ask = rq[s].ask
        BY <4>1 DEF EnrollmentInv, Withdrawing
      <4>. QED BY <2>8, <4>2, <4>3
    <3>. QED BY <2>5, <3>1, <3>2 DEF Withdrawing, Kind
  <2>13. RevokedStays'
    <3>1. ~E!IsRevoked(a0)
      BY <1>2, <1>3, <2>1 DEF EnrollmentInv, RevokedStays
    <3>2. \A a \in Auths : E!IsRevoked(a)' <=> E!IsRevoked(a)
      BY <1>1 DEF E!IsRevoked
    <3>. QED BY <2>3, <3>1, <3>2 DEF EnrollmentInv, RevokedStays
  <2>. QED BY <1>4, <2>6, <2>7, <2>10, <2>11, <2>12, <2>13 DEF EnrollmentInv
<1>. QED BY <1>5, <1>6 DEF E!Redeem

LEMMA EnrollmentStarts ==
  ASSUME E!EnrollmentAssumption, E!Init
  PROVE  EnrollmentInv
<1>1. EnrollmentTypes
  BY DEF E!Init, EnrollmentTypes, EnrollmentSteps, EnrollmentAnswers
<1>2. Requested
  BY DEF E!Init, Requested, RequestOf
<1>3. Drawn /\ Entries /\ Redemptions
  BY DEF E!Init, Drawn, Entries, Redemptions, E!EnrollmentAssumption
<1>4. Withdrawing /\ RevokedStays
  BY DEF E!Init, Withdrawing, RevokedStays
<1>. QED BY <1>1, <1>2, <1>3, <1>4 DEF EnrollmentInv

LEMMA EnrollmentKept ==
  ASSUME E!EnrollmentAssumption, EnrollmentInv, [E!Next]_E!vars
  PROVE  EnrollmentInv'
<1>1. CASE UNCHANGED E!vars
  BY <1>1 DEF E!vars, EnrollmentInv, EnrollmentTypes, Requested, RequestOf, Drawn, Entries, EntryOf, Redemptions,
              HasEntry, Withdrawing, RevokedStays, E!IsRevoked, Kind, Auth
<1>. QED BY <1>1, AskKeeps, AuthorizeKeeps, AuthorizedKeeps, RevokeKeeps, RedeemKeeps, RedeemedKeeps, LiveKeeps,
            EnrolKeeps, EnrolledKeeps, RecordKeeps, WithdrawKeeps, WithdrawnKeeps, AbandonKeeps, TickKeeps DEF E!Next

EnrollmentSpec == E!Init /\ [][E!Next]_E!vars

LEMMA EnrollmentInductive ==
  ASSUME E!EnrollmentAssumption
  PROVE  EnrollmentSpec => []EnrollmentInv
<1>1. E!Init => EnrollmentInv
  BY EnrollmentStarts
<1>2. EnrollmentInv /\ [E!Next]_E!vars => EnrollmentInv'
  BY EnrollmentKept
<1>. QED BY <1>1, <1>2, PTL DEF EnrollmentSpec

LEMMA AtMostOne ==
  ASSUME NEW S, \A x, y \in S : x = y
  PROVE  E!Cardinality(S) <= 1
<1>1. E!Cardinality(S) = Cardinality(S)
  BY DEF E!Cardinality, Cardinality
<1>2. CASE S = {}
  BY <1>1, <1>2, FS_EmptySet
<1>3. CASE S # {}
  <2>1. PICK x \in S : TRUE
    BY <1>3
  <2>2. S = {x}
    BY <2>1
  <2>. QED BY <1>1, <2>2, FS_Singleton
<1>. QED BY <1>2, <1>3

\* An authorization shows its credential in one answer and is spent by one
\* redemption, and the two tables agree on it, for every set of requests,
\* authorizations and delegations.
THEOREM AuthorizationsAreSpentOnce ==
  ASSUME E!EnrollmentAssumption
  PROVE  EnrollmentSpec => []SingleUse
<1>1. ASSUME EnrollmentInv
      PROVE  E!SingleUse
  <2>. SUFFICES ASSUME NEW a \in Auths
       PROVE  LET redeemers == {r \in Requests : rq[r].ask # None /\ rq[r].ask.kind = "redeem" /\ rq[r].ask.auth = a}
                  enrolling == {r \in redeemers : \E o \in LedgerOps : /\ ledger[o] # None /\ ledger[o].claim = r
                                                                      /\ ledger[o].outcome = "enrolled"}
              IN /\ E!Cardinality(E!Shown(a)) <= 1 /\ E!Cardinality(enrolling) <= 1
                 /\ \A r \in redeemers : rq[r].answer = "enrolled" => r \in enrolling
                 /\ \A r \in enrolling : auths[a].claim = r /\ auths[a].outcome = "enrolled"
                 /\ auths[a] # None /\ auths[a].outcome = "enrolled" => auths[a].claim \in enrolling
    BY DEF E!SingleUse
  <2>. DEFINE redeemers == {r \in Requests : rq[r].ask # None /\ rq[r].ask.kind = "redeem" /\ rq[r].ask.auth = a}
              enrolling == {r \in redeemers : \E o \in LedgerOps : /\ ledger[o] # None /\ ledger[o].claim = r
                                                                  /\ ledger[o].outcome = "enrolled"}
  <2>1. E!Cardinality(E!Shown(a)) <= 1
    <3>1. \A r \in E!Shown(a) : r = auths[a].token
      BY <1>1 DEF E!Shown, EnrollmentInv, Drawn, Auth
    <3>. QED BY <3>1, AtMostOne
  <2>2. ASSUME NEW r \in enrolling
        PROVE  auths[a].claim = r /\ auths[a].outcome = "enrolled"
    <3>1. PICK o \in LedgerOps : ledger[o] # None /\ ledger[o].claim = r /\ ledger[o].outcome = "enrolled"
      OBVIOUS
    <3>. QED BY <1>1, <3>1 DEF EnrollmentInv, Entries, EntryOf, Kind, Auth
  <2>3. E!Cardinality(enrolling) <= 1
    <3>1. \A r, s \in enrolling : r = s
      BY <2>2
    <3>. HIDE DEF enrolling
    <3>. QED BY <3>1, AtMostOne
  <2>4. ASSUME auths[a] # None, auths[a].outcome = "enrolled"
        PROVE  auths[a].claim \in enrolling
    <3>1. auths[a].claim \in Requests
      BY <1>1, <2>4 DEF EnrollmentInv, EnrollmentTypes, E!AuthRow
    <3>. QED BY <1>1, <2>4, <3>1 DEF EnrollmentInv, Redemptions, HasEntry, Kind, Auth
  <2>5. ASSUME NEW r \in redeemers, rq[r].answer = "enrolled"
        PROVE  r \in enrolling
    <3>1. auths[a] # None /\ auths[a].claim = r /\ auths[a].outcome = "enrolled"
      BY <1>1, <2>5 DEF EnrollmentInv, Redemptions, Kind, Auth
    <3>. QED BY <2>4, <3>1
  <2>. QED BY <2>1, <2>2, <2>3, <2>4, <2>5
<1>. QED BY <1>1, EnrollmentInductive, PTL DEF SingleUse

\* Nothing of a recorded revocation or withdrawal is undone by what was under
\* way: the step of any request leaves the authorization revoked, enrols
\* nothing with it and leaves a withdrawn delegation as it is.
THEOREM RevocationsHold ==
  ASSUME E!EnrollmentAssumption
  PROVE  EnrollmentSpec => RevocationHolds
<1>1. ASSUME EnrollmentInv, E!Next
      PROVE  E!KeepsRevoked
  <2>1. \A d \in Delegations : delegations[d] # None /\ delegations[d].revoked => delegations'[d] = delegations[d]
    <3>1. ASSUME NEW r \in Requests, NEW e \in Intents, E!Enrolment(r, e)
          PROVE  \A d \in Delegations : delegations[d] # None => delegations'[d] = delegations[d]
      BY <1>1, <3>1, EnrolmentFacts
    <3>2. ASSUME NEW r \in Requests, E!Enrol(r) \/ E!Redeem(r)
          PROVE  \A d \in Delegations : delegations[d] # None => delegations'[d] = delegations[d]
      <4>1. rq[r].pc \in {"enrol", "redeem"} /\ rq[r].ask.intent \in Intents
        BY <1>1, <3>2, AskOf, AskFacts DEF E!Enrol, E!Redeem, EnrollmentInv, Requested, RequestOf, Kind
      <4>. QED BY <3>1, <3>2, <4>1 DEF E!Enrol, E!Redeem
    <3>3. ASSUME NEW r \in Requests, E!Withdraw(r)
          PROVE  \A d \in Delegations : delegations[d] # None /\ delegations[d].revoked => delegations'[d] = delegations[d]
      BY <1>1, <3>3, WithdrawKeeps
    <3>4. UNCHANGED delegations \/ \E r \in Requests : E!Enrol(r) \/ E!Redeem(r) \/ E!Withdraw(r)
      BY <1>1 DEF E!Next, E!Ask, E!Authorize, E!Authorized, E!Revoke, E!Redeemed, E!Live, E!Enrolled, E!Record,
                  E!Withdrawn, E!Abandon, E!Tick
    <3>. QED BY <3>2, <3>3, <3>4
  <2>2. ASSUME NEW a \in Auths, E!IsRevoked(a), auths'[a] # None
        PROVE  auths'[a].state = "revoked"
    <3>1. EnrollmentInv'
      BY <1>1, EnrollmentKept
    <3>2. E!IsRevoked(a)'
      <4>1. PICK p \in Operators : operator[p] # None /\ operator[p].ask.kind = "revoke" /\ operator[p].ask.auth = a
        BY <2>2 DEF E!IsRevoked
      <4>2. operator'[p] = operator[p]
        <5>1. ASSUME NEW r \in Requests, E!Authorize(r)
              PROVE  operator'[p] = operator[p]
          BY <1>1, <4>1, <5>1 DEF E!Authorize, EnrollmentInv, EnrollmentTypes
        <5>2. ASSUME NEW r \in Requests, E!Revoke(r)
              PROVE  operator'[p] = operator[p]
          BY <1>1, <4>1, <5>2 DEF E!Revoke, EnrollmentInv, EnrollmentTypes
        <5>3. UNCHANGED operator \/ \E r \in Requests : E!Authorize(r) \/ E!Revoke(r)
          BY <1>1 DEF E!Next, E!Ask, E!Authorized, E!Redeem, E!Redeemed, E!Live, E!Enrol, E!Enrolled, E!Record,
                      E!Withdraw, E!Withdrawn, E!Abandon, E!Tick
        <5>. QED BY <5>1, <5>2, <5>3
      <4>. QED BY <4>1, <4>2 DEF E!IsRevoked
    <3>. QED BY <2>2, <3>1, <3>2 DEF EnrollmentInv, RevokedStays
  <2>3. ASSUME NEW a \in Auths, E!IsRevoked(a), NEW o \in LedgerOps, ledger'[o] # None, ledger[o] = None,
               rq[ledger'[o].claim].ask.kind = "redeem"
        PROVE  rq[ledger'[o].claim].ask.auth # a
    <3>1. ASSUME NEW r \in Requests, E!Redeem(r)
          PROVE  rq[ledger'[o].claim].ask.auth # a
      <4>1. Kind(r) = "redeem" /\ rq[r].ask.auth \in Auths /\ rq[r].ask.intent \in Intents
        BY <1>1, <3>1, AskOf, AskFacts DEF E!Redeem, EnrollmentInv, Requested, RequestOf, Kind
      <4>2. /\ E!MayRedeem(auths[rq[r].ask.auth]) /\ E!Enrolment(r, rq[r].ask.intent)
        BY <2>3, <3>1 DEF E!Redeem
      <4>3. auths[rq[r].ask.auth] # None /\ auths[rq[r].ask.auth].state = "available"
        BY <4>2 DEF E!MayRedeem, E!IsUsable
      <4>4. rq[r].ask.auth # a
        BY <1>1, <2>3, <4>1, <4>3 DEF EnrollmentInv, RevokedStays
      <4>5. ledger'[o].claim = r
        BY <1>1, <2>3, <4>1, <4>2, EntryFact
      <4>. QED BY <4>4, <4>5
    <3>2. ASSUME NEW r \in Requests, E!Enrol(r)
          PROVE  FALSE
      <4>1. Kind(r) = "enrol" /\ rq[r].ask.intent \in Intents
        BY <1>1, <3>2, AskOf, AskFacts DEF E!Enrol, EnrollmentInv, Requested, RequestOf, Kind
      <4>2. E!Enrolment(r, rq[r].ask.intent)
        BY <2>3, <3>2 DEF E!Enrol
      <4>3. ledger'[o].claim = r
        BY <1>1, <2>3, <4>1, <4>2, EntryFact
      <4>. QED BY <2>3, <4>1, <4>3 DEF Kind
    <3>3. ASSUME NEW r \in Requests, E!Record(r)
          PROVE  FALSE
      <4>1. Kind(r) = "withdraw"
        BY <1>1, <3>3 DEF E!Record, EnrollmentInv, Requested, RequestOf
      <4>2. ledger'[o].claim = r
        BY <1>1, <2>3, <3>3 DEF E!Record, EnrollmentInv, EnrollmentTypes
      <4>. QED BY <2>3, <4>1, <4>2 DEF Kind
    <3>4. ASSUME NEW r \in Requests, E!Withdrawn(r)
          PROVE  FALSE
      BY <1>1, <2>3, <3>4, WithdrawnKeeps
    <3>5. UNCHANGED ledger \/ \E r \in Requests : E!Redeem(r) \/ E!Enrol(r) \/ E!Record(r) \/ E!Withdrawn(r)
      BY <1>1 DEF E!Next, E!Ask, E!Authorize, E!Authorized, E!Revoke, E!Redeemed, E!Live, E!Enrolled, E!Withdraw,
                  E!Abandon, E!Tick
    <3>. QED BY <2>3, <3>1, <3>2, <3>3, <3>4, <3>5
  <2>. QED BY <2>1, <2>2, <2>3 DEF E!KeepsRevoked
<1>2. EnrollmentInv /\ [E!Next]_E!vars => [E!KeepsRevoked]_E!vars
  BY <1>1
<1>. QED BY <1>2, EnrollmentInductive, PTL DEF EnrollmentSpec, RevocationHolds, E!RevocationHolds
=============================================================================
