---------------------------- MODULE HostWakeProofs ----------------------------
(***************************************************************************)
(* Proofs about the host app wake.  The row of a wake belongs to the call  *)
(* that claimed it; the claim is made at one reading of the clock, and the *)
(* sending happens within a window of it, so that the distance of the      *)
(* claims bounds that of the sendings.                                     *)
(***************************************************************************)
EXTENDS HostWake, TLAPS, FiniteSetTheorems

WakeSteps == {"expire", "reserve", "reread", "mark", "send", "sent", "invalidate",
              "finish", "unsent", "unknown"}
\* From the marker on the row is the caller's own.
Holding == WakeSteps \ {"expire", "reserve", "reread"}
\* Before its statement a call has claimed nothing.
Early == {"idle", "admit", "issue", "register", "withdraw", "expire", "reserve"}
Admitted == WakeSteps \cup {"withdraw", "register"}
Steps == Admitted \cup {"idle", "admit", "issue", "issued", "done"}

\* The fields of a call at each of its steps.
Control(q) ==
  /\ q.pc # "idle" => q.kind \in Kinds /\ q.purpose \in Purposes
  /\ q.pc = "idle" => ~q.sent /\ q.answer = None
  /\ q.pc # "idle" /\ q.kind \in {"register", "wake"} =>
       q.op \in Ops /\ q.generation \in Generations /\ q.revision \in 1 .. MaxRevision
  /\ q.pc = "admit" => q.kind \in {"register", "wake", "revoke"}
  /\ q.pc = "register" => q.kind = "register"
  /\ q.pc = "withdraw" => q.kind = "revoke"
  /\ q.pc \in {"issue", "issued"} => q.kind = "issue"
  /\ q.pc \in WakeSteps => q.kind = "wake"
  /\ q.pc = "invalidate" => q.answer = "gone"
  /\ q.pc \in {"sent", "invalidate", "finish"} => q.sent
  /\ q.answer # None => q.sent /\ q.pc # "sent"
  /\ q.sent => q.kind = "wake" /\ q.pc \in {"sent", "invalidate", "finish", "unknown", "done"}

\* A call has read the clock before, and its purpose was found.
Found(q) ==
  /\ q.clock <= now /\ q.captured <= now
  /\ q.pc \in Admitted => purposes[q.purpose] # None
Shape == \A c \in Calls : Control(calls[c]) /\ Found(calls[c])

\* What a call knows of its row.
ClaimOf(c) ==
  LET q == calls[c]
      row == ops[q.purpose][q.op]
  IN /\ q.pc \in Holding => Owns(c)
     /\ q.pc \in Holding \cup {"reread"} /\ Owns(c) => row.kind = "wake" /\ row.accepted = q.captured
     /\ q.pc = "send" => row.outcome = "dispatch_started"
     /\ q.sent => /\ Owns(c) /\ row.kind = "wake"
                  /\ row.outcome \in Counted \ {"reserved", "not_sent"}
                  /\ row.accepted <= q.clock /\ q.clock < row.accepted + Window

\* What a row says of the call that claimed it.
RowOf(p, o) ==
  ops[p][o] # None =>
    LET row == ops[p][o]
        q == calls[row.claim]
    IN /\ purposes[p] # None
       /\ q.pc \notin Early /\ q.purpose = p /\ q.op = o /\ q.kind = row.kind
       /\ row.outcome = "provider_accepted" => q.sent /\ q.answer = "accepted"
Ledger == (\A c \in Calls : ClaimOf(c)) /\ (\A p \in Purposes, o \in Ops : RowOf(p, o))

\* The counted wakes of a host are accepted a window apart.
Apart ==
  \A p, r \in Purposes : HostOf[p] = HostOf[r] =>
    \A o \in CountedWakes(p), n \in CountedWakes(r) : <<p, o>> # <<r, n>> =>
      \/ ops[p][o].accepted - ops[r][n].accepted >= Window
      \/ ops[r][n].accepted - ops[p][o].accepted >= Window

\* The registrations of a purpose, and the one answer it was issued with.
Registered(p) == {o \in OpRows(p) : ops[p][o].outcome = "registered"}
Chain ==
  \A p \in Purposes : purposes[p] # None =>
    /\ Cardinality(Registered(p)) = purposes[p].revision
    /\ {ops[p][o].revision : o \in Registered(p)} = 1 .. purposes[p].revision
    /\ \A o \in Registered(p) : ops[p][o].generation = purposes[p].generation
Issued ==
  /\ \A c \in Calls : calls[c].pc = "issued" => purposes[calls[c].purpose] # None
  /\ \A c, d \in Calls : /\ calls[c].pc = "issued" /\ calls[d].pc = "issued"
                         /\ calls[c].purpose = calls[d].purpose
                         => c = d

IInv == TypeOK /\ Shape /\ Ledger /\ Apart /\ Chain /\ Issued /\ TokenForCause

-----------------------------------------------------------------------------
Same(q, r) ==
  /\ q.kind = r.kind /\ q.purpose = r.purpose /\ q.op = r.op
  /\ q.generation = r.generation /\ q.revision = r.revision
Still(q, r) == Same(q, r) /\ q.sent = r.sent /\ q.answer = r.answer

\* What a step of its own may do to a request that has arrived.
Moves(q, r) ==
  /\ Same(q, r)
  /\ q.pc # "done" => q.captured = r.captured
  /\ r.sent => q.sent /\ q.clock = r.clock
  /\ r.answer # None => q.answer = r.answer

LEMMA ConstantsFact ==
  /\ Window \in Nat /\ Capacity \in Nat /\ MaxOperations \in Nat /\ MaxWakes \in Nat
  /\ MaxRevision \in Nat /\ MaxTime \in Nat /\ \A p \in Purposes : Expiry[p] \in Nat
BY ConstantsAssumption

\* Only the call that takes a step changes.
LEMMA CallFact ==
  ASSUME TypeOK, NEW c \in Calls, NEW q \in Call, calls' = [calls EXCEPT ![c] = q]
  PROVE  /\ calls' \in [Calls -> Call] /\ calls'[c] = q
         /\ \A d \in Calls : d # c => calls'[d] = calls[d]
BY DEF TypeOK

LEMMA GotoFact ==
  ASSUME TypeOK, NEW c \in Calls, NEW pc \in Steps, Goto(c, pc)
  PROVE  /\ calls' \in [Calls -> Call] /\ calls'[c].pc = pc /\ calls'[c].clock = now
         /\ Still(calls'[c], calls[c]) /\ calls'[c].captured = calls[c].captured
         /\ \A d \in Calls : d # c => calls'[d] = calls[d]
<1> DEFINE q == [calls[c] EXCEPT !.pc = pc, !.clock = now]
<1>1. calls' = [calls EXCEPT ![c] = q]
  BY DEF Goto
<1>2. /\ q \in Call /\ q.pc = pc /\ q.clock = now /\ Still(q, calls[c]) /\ q.captured = calls[c].captured
  <2>1. now \in Nat /\ calls[c] \in Call
    BY ConstantsFact DEF TypeOK
  <2>. QED BY <2>1 DEF Call, Still, Same, Steps, Admitted, WakeSteps
<1>. HIDE DEF q
<1>. QED BY <1>1, <1>2, CallFact

LEMMA EndFact ==
  ASSUME TypeOK, NEW c \in Calls, End(c)
  PROVE  /\ calls' \in [Calls -> Call] /\ calls'[c].pc = "done" /\ Still(calls'[c], calls[c])
         /\ calls'[c].captured = 0 /\ calls'[c].clock \in {0, calls[c].clock}
         /\ calls[c].sent => calls'[c].clock = calls[c].clock
         /\ \A d \in Calls : d # c => calls'[d] = calls[d]
<1> DEFINE q == [calls[c] EXCEPT !.pc = "done", !.captured = 0,
                                 !.clock = IF calls[c].sent THEN calls[c].clock ELSE 0]
<1>0. calls[c] \in Call
  BY DEF TypeOK
<1>1. calls' = [calls EXCEPT ![c] = q]
  BY <1>0 DEF End, TypeOK
<1>2. /\ q \in Call /\ q.pc = "done" /\ Still(q, calls[c]) /\ q.captured = 0
      /\ q.clock \in {0, calls[c].clock} /\ (calls[c].sent => q.clock = calls[c].clock)
  BY <1>0 DEF Call, Still, Same
<1>. HIDE DEF q
<1>. QED BY <1>1, <1>2, CallFact

\* A step that only moves on.
LEMMA PcFact ==
  ASSUME TypeOK, NEW c \in Calls, NEW pc \in Steps, calls' = [calls EXCEPT ![c].pc = pc]
  PROVE  /\ calls' \in [Calls -> Call] /\ calls'[c].pc = pc /\ Still(calls'[c], calls[c])
         /\ calls'[c].captured = calls[c].captured /\ calls'[c].clock = calls[c].clock
         /\ \A d \in Calls : d # c => calls'[d] = calls[d]
<1> DEFINE q == [calls[c] EXCEPT !.pc = pc]
<1>0. calls[c] \in Call
  BY DEF TypeOK
<1>1. calls' = [calls EXCEPT ![c] = q]
  OBVIOUS
<1>2. q \in Call /\ q.pc = pc /\ Still(q, calls[c]) /\ q.captured = calls[c].captured /\ q.clock = calls[c].clock
  BY <1>0 DEF Call, Still, Same, Steps, Admitted, WakeSteps
<1>. HIDE DEF q
<1>. QED BY <1>1, <1>2, CallFact

LEMMA ArriveFact ==
  ASSUME TypeOK, NEW c \in Calls, Arrive(c)
  PROVE  /\ calls' \in [Calls -> Call] /\ Control(calls'[c])
         /\ calls[c].pc = "idle" /\ calls'[c].pc \in {"issue", "admit"} /\ ~calls'[c].sent
         /\ calls'[c].clock = now /\ calls'[c].captured = now /\ calls'[c].answer = None
         /\ UNCHANGED <<purposes, ops, now>>
         /\ \A d \in Calls : d # c => calls'[d] = calls[d]
<1>1. PICK r \in AsksOf[c] : calls' = [calls EXCEPT ![c] =
         [Idle EXCEPT !.kind = r.kind, !.purpose = r.purpose, !.op = r.op,
                      !.generation = r.generation, !.revision = r.revision,
                      !.captured = now, !.clock = now,
                      !.pc = IF r.kind = "issue" THEN "issue" ELSE "admit"]]
  BY Zenon DEF Arrive
<1> DEFINE q == [Idle EXCEPT !.kind = r.kind, !.purpose = r.purpose, !.op = r.op,
                      !.generation = r.generation, !.revision = r.revision,
                      !.captured = now, !.clock = now,
                      !.pc = IF r.kind = "issue" THEN "issue" ELSE "admit"]
<1>2. r \in Request /\ WellFormed(r) /\ now \in Nat
  BY ConstantsAssumption, ConstantsFact DEF TypeOK
<1>3. /\ q \in Call /\ q.pc = (IF r.kind = "issue" THEN "issue" ELSE "admit") /\ q.kind = r.kind
      /\ q.purpose = r.purpose /\ q.op = r.op /\ q.generation = r.generation /\ q.revision = r.revision
      /\ ~q.sent /\ q.answer = None /\ q.clock = now /\ q.captured = now
  BY <1>2 DEF Request, Call, Idle, Kinds
<1>. HIDE DEF q
<1>4. Control(q) /\ q.pc \in {"issue", "admit"}
  BY <1>2, <1>3, ConstantsFact DEF Control, Request, WellFormed, Kinds, WakeSteps
<1>5. calls' = [calls EXCEPT ![c] = q]
  BY <1>1 DEF q
<1>6. /\ calls' \in [Calls -> Call] /\ calls'[c] = q
      /\ \A d \in Calls : d # c => calls'[d] = calls[d]
  BY <1>3, <1>5, CallFact
<1>7. calls[c].pc = "idle" /\ UNCHANGED <<purposes, ops, now>>
  BY DEF Arrive
<1>. QED BY <1>3, <1>4, <1>6, <1>7

\* The steps of a request that has arrived.
Acts(c) ==
  \/ Issue(c) \/ Admit(c) \/ Withdraw(c) \/ Register(c) \/ Expire(c) \/ Reserve(c) \/ Prepare(c)
  \/ Mark(c) \/ Fetch(c) \/ Answer(c) \/ Invalidate(c) \/ Finish(c) \/ Break(c) \/ Drop(c)

\* What they all do to it.
Moved(c) ==
  /\ calls' \in [Calls -> Call] /\ Control(calls'[c]) /\ Moves(calls'[c], calls[c])
  /\ calls'[c].clock <= now /\ calls'[c].captured <= now
  /\ calls[c].pc # "idle" /\ calls'[c].pc # "idle"
  /\ calls'[c].pc \in Admitted => calls[c].pc \in Admitted \/ Admit(c)
  /\ \A d \in Calls : d # c => calls'[d] = calls[d]

LEMMA CallsTyped ==
  ASSUME TypeOK, Shape, NEW c \in Calls
  PROVE  calls[c] \in Call /\ Control(calls[c]) /\ Found(calls[c]) /\ now \in Nat
BY ConstantsFact DEF TypeOK, Shape

\* Wherever a request goes on to, it has not sent.
LEMMA GotoMoved ==
  ASSUME TypeOK, Shape, NEW c \in Calls, NEW pc \in Steps, Goto(c, pc),
         ~calls[c].sent, calls[c].pc # "idle", pc # "idle", pc \notin {"sent", "invalidate", "finish"},
         pc = "admit" => calls[c].kind \in {"register", "wake", "revoke"},
         pc = "register" => calls[c].kind = "register", pc = "withdraw" => calls[c].kind = "revoke",
         pc \in {"issue", "issued"} => calls[c].kind = "issue", pc \in WakeSteps => calls[c].kind = "wake",
         pc \in Admitted => calls[c].pc \in Admitted \/ Admit(c)
  PROVE  Moved(c) /\ calls'[c].pc = pc /\ calls'[c].sent = calls[c].sent /\ calls'[c].answer = calls[c].answer
         /\ calls'[c].captured = calls[c].captured
<1>1. calls[c] \in Call /\ Control(calls[c]) /\ Found(calls[c]) /\ now \in Nat
  BY CallsTyped
<1>2. /\ calls' \in [Calls -> Call] /\ calls'[c].pc = pc /\ calls'[c].clock = now
      /\ Still(calls'[c], calls[c]) /\ calls'[c].captured = calls[c].captured
      /\ \A d \in Calls : d # c => calls'[d] = calls[d]
  BY GotoFact
<1>3. Control(calls'[c])
  BY <1>1, <1>2 DEF Control, Still, Same, WakeSteps
<1>. QED BY <1>1, <1>2, <1>3 DEF Moved, Moves, Still, Found

LEMMA EndMoved ==
  ASSUME TypeOK, Shape, NEW c \in Calls, End(c), calls[c].pc # "idle"
  PROVE  Moved(c) /\ calls'[c].pc = "done" /\ calls'[c].sent = calls[c].sent /\ calls'[c].answer = calls[c].answer
<1>1. calls[c] \in Call /\ Control(calls[c]) /\ Found(calls[c]) /\ now \in Nat
  BY CallsTyped
<1>2. /\ calls' \in [Calls -> Call] /\ calls'[c].pc = "done" /\ Still(calls'[c], calls[c])
      /\ calls'[c].captured = 0 /\ calls'[c].clock \in {0, calls[c].clock}
      /\ calls[c].sent => calls'[c].clock = calls[c].clock
      /\ \A d \in Calls : d # c => calls'[d] = calls[d]
  BY EndFact
<1>3. Control(calls'[c])
  BY <1>1, <1>2 DEF Control, Still, Same, WakeSteps
<1>. QED BY <1>1, <1>2, <1>3 DEF Moved, Moves, Still, Found, Admitted, WakeSteps

LEMMA PcMoved ==
  ASSUME TypeOK, Shape, NEW c \in Calls, NEW pc \in {"finish", "unsent", "unknown"},
         calls' = [calls EXCEPT ![c].pc = pc], calls[c].pc \in WakeSteps,
         pc = "finish" => calls[c].sent, pc = "unsent" => ~calls[c].sent
  PROVE  Moved(c) /\ calls'[c].pc = pc /\ calls'[c].sent = calls[c].sent /\ calls'[c].answer = calls[c].answer
         /\ calls'[c].captured = calls[c].captured
<1>1. calls[c] \in Call /\ Control(calls[c]) /\ Found(calls[c]) /\ now \in Nat
  BY CallsTyped
<1>2. pc \in Steps
  BY DEF Steps, Admitted, WakeSteps
<1>3. /\ calls' \in [Calls -> Call] /\ calls'[c].pc = pc /\ Still(calls'[c], calls[c])
      /\ calls'[c].captured = calls[c].captured /\ calls'[c].clock = calls[c].clock
      /\ \A d \in Calls : d # c => calls'[d] = calls[d]
  BY <1>2, PcFact
<1>4. Control(calls'[c])
  BY <1>1, <1>3 DEF Control, Still, Same, WakeSteps
<1>. QED BY <1>1, <1>3, <1>4 DEF Moved, Moves, Still, Found, Admitted, WakeSteps

\* The request is moved, each step in its own way.
LEMMA ActsMove ==
  ASSUME TypeOK, Shape, NEW c \in Calls, Acts(c)
  PROVE  /\ Moved(c)
         /\ ~Fetch(c) => calls'[c].sent = calls[c].sent
         /\ ~Answer(c) => calls'[c].answer = calls[c].answer
<1>0. calls[c] \in Call /\ Control(calls[c]) /\ Found(calls[c]) /\ now \in Nat
  BY CallsTyped
<1>1. CASE Issue(c)
  <2>1. calls[c].pc = "issue" /\ ~calls[c].sent /\ (Goto(c, "issued") \/ End(c))
    BY <1>0, <1>1 DEF Issue, Control
  <2>. QED BY <1>0, <2>1, GotoMoved, EndMoved DEF Steps, Control, Admitted, WakeSteps
<1>2. CASE Admit(c)
  <2>1. calls[c].pc = "admit" /\ ~calls[c].sent
    BY <1>0, <1>2 DEF Admit, Control
  <2>2. \/ calls[c].kind = "revoke" /\ Goto(c, "withdraw")
        \/ calls[c].kind = "register" /\ Goto(c, "register")
        \/ calls[c].kind = "wake" /\ (Goto(c, "expire") \/ Goto(c, "reserve"))
    <3>1. calls[c].kind \in {"register", "wake", "revoke"}
      BY <1>0, <2>1 DEF Control
    <3>. QED BY <1>2, <3>1 DEF Admit
  <2>. QED BY <1>2, <2>1, <2>2, GotoMoved DEF Steps, Admitted, WakeSteps
<1>3. CASE Withdraw(c) \/ Register(c) \/ Expire(c) \/ Finish(c) \/ Drop(c)
  <2>1. calls[c].pc # "idle" /\ End(c)
    BY <1>3 DEF Withdraw, Register, Expire, Finish, Drop
  <2>. QED BY <2>1, EndMoved
<1>4. CASE Reserve(c)
  <2>1. calls[c].pc = "reserve" /\ ~calls[c].sent /\ Goto(c, "reread") /\ calls[c].kind = "wake"
    BY <1>0, <1>4 DEF Reserve, Control, WakeSteps
  <2>. QED BY <2>1, GotoMoved DEF Steps, Admitted, WakeSteps
<1>5. CASE Prepare(c)
  <2>1. /\ calls[c].pc = "reread" /\ ~calls[c].sent /\ calls[c].kind = "wake"
        /\ End(c) \/ Goto(c, "mark") \/ Goto(c, "unsent")
    BY <1>0, <1>5 DEF Prepare, Control, WakeSteps
  <2>. QED BY <2>1, GotoMoved, EndMoved DEF Steps, Admitted, WakeSteps
<1>6. CASE Mark(c)
  <2>1. /\ calls[c].pc = "mark" /\ ~calls[c].sent /\ calls[c].kind = "wake"
        /\ End(c) \/ Goto(c, "send") \/ Goto(c, "unknown")
    BY <1>0, <1>6 DEF Mark, Control, WakeSteps
  <2>. QED BY <2>1, GotoMoved, EndMoved DEF Steps, Admitted, WakeSteps
<1>7. CASE Fetch(c)
  <2>1. calls[c].pc = "send" /\ ~calls[c].sent /\ calls[c].kind = "wake"
    BY <1>0, <1>7 DEF Fetch, Control, WakeSteps
  <2>2. CASE Goto(c, "unsent")
    BY <1>7, <2>1, <2>2, GotoMoved DEF Steps, Admitted, WakeSteps
  <2>3. CASE calls' = [calls EXCEPT ![c].pc = "sent", ![c].clock = now, ![c].sent = TRUE]
    <3> DEFINE q == [calls[c] EXCEPT !.pc = "sent", !.clock = now, !.sent = TRUE]
    <3>1. calls' = [calls EXCEPT ![c] = q]
      BY <2>3
    <3>2. /\ q \in Call /\ q.pc = "sent" /\ q.clock = now /\ q.sent /\ Same(q, calls[c])
          /\ q.captured = calls[c].captured /\ q.answer = calls[c].answer
      BY <1>0 DEF Call, Same
    <3>. HIDE DEF q
    <3>3. Control(q)
      BY <1>0, <2>1, <3>2 DEF Control, Same, WakeSteps
    <3>4. /\ calls' \in [Calls -> Call] /\ calls'[c] = q
          /\ \A d \in Calls : d # c => calls'[d] = calls[d]
      BY <3>1, <3>2, CallFact
    <3>. QED BY <1>0, <1>7, <2>1, <3>2, <3>3, <3>4 DEF Moved, Moves, Found, Admitted, WakeSteps
  <2>. QED BY <1>7, <2>2, <2>3 DEF Fetch
<1>8. CASE Answer(c)
  <2>1. PICK answer \in {"accepted", "gone", "rejected"} :
          calls' = [calls EXCEPT ![c].pc = IF answer = "gone" THEN "invalidate" ELSE "finish",
                                 ![c].answer = answer]
    BY <1>8, Zenon DEF Answer
  <2> DEFINE pc == IF answer = "gone" THEN "invalidate" ELSE "finish"
             q == [calls[c] EXCEPT !.pc = pc, !.answer = answer]
  <2>2. calls[c].pc = "sent" /\ calls[c].sent /\ calls[c].answer = None
    BY <1>0, <1>8 DEF Answer, Control
  <2>3. calls' = [calls EXCEPT ![c] = q]
    BY <2>1
  <2>7. pc \in {"invalidate", "finish"} /\ (pc = "invalidate" => answer = "gone")
    OBVIOUS
  <2>. HIDE DEF pc
  <2>4. /\ q \in Call /\ q.pc = pc /\ q.sent /\ Same(q, calls[c])
        /\ q.captured = calls[c].captured /\ q.answer = answer /\ q.clock = calls[c].clock
    BY <1>0, <2>2, <2>7 DEF Call, Same
  <2>. HIDE DEF q
  <2>5. Control(q)
    BY <1>0, <2>2, <2>4, <2>7 DEF Control, Same, WakeSteps
  <2>6. /\ calls' \in [Calls -> Call] /\ calls'[c] = q
        /\ \A d \in Calls : d # c => calls'[d] = calls[d]
    BY <2>3, <2>4, CallFact
  <2>. QED BY <1>0, <1>8, <2>2, <2>4, <2>5, <2>6, <2>7 DEF Moved, Moves, Found, Admitted, WakeSteps
<1>9. CASE Invalidate(c)
  <2>1. calls[c].pc = "invalidate" /\ calls[c].sent /\ \E pc \in {"finish", "unknown"} : calls' = [calls EXCEPT ![c].pc = pc]
    BY <1>0, <1>9 DEF Invalidate, Control
  <2>. QED BY <2>1, PcMoved DEF WakeSteps
<1>10. CASE Break(c)
  <2>1. \/ calls[c].pc \in {"reread", "send"} /\ calls' = [calls EXCEPT ![c].pc = "unsent"]
        \/ calls[c].pc \in {"mark", "sent", "invalidate"} /\ calls' = [calls EXCEPT ![c].pc = "unknown"]
    BY <1>10 DEF Break
  <2>2. calls[c].pc \in {"reread", "send"} => ~calls[c].sent
    BY <1>0 DEF Control
  <2>. QED BY <2>1, <2>2, PcMoved DEF WakeSteps
<1>. QED BY <1>1, <1>2, <1>3, <1>4, <1>5, <1>6, <1>7, <1>8, <1>9, <1>10 DEF Acts

-----------------------------------------------------------------------------
\* Writing one row leaves the others.
LEMMA RowFact ==
  ASSUME TypeOK, NEW p \in Purposes, NEW o \in Ops, NEW row \in Operation, ops' = [ops EXCEPT ![p][o] = row]
  PROVE  /\ ops' \in [Purposes -> [Ops -> Operation \cup {None}]] /\ ops'[p][o] = row /\ row # None
         /\ \A r \in Purposes, n \in Ops : r # p \/ n # o => ops'[r][n] = ops[r][n]
BY NoneAssumption DEF TypeOK

\* The statements that claim a row, that settle one, and that change a purpose.
Claims(c) == Register(c) \/ Expire(c) \/ Reserve(c)
Settles(c) == Mark(c) \/ Finish(c)

\* A row that a call has just claimed.
IsClaim(c, row) ==
  LET q == calls[c]
  IN /\ row # None /\ row.claim = c /\ row.kind = q.kind
     /\ row.generation = q.generation /\ row.revision = q.revision
     /\ row.outcome = "registered" => Register(c) /\ MayRotate(q)
     /\ row.outcome \in Counted => Reserve(c) /\ Quiet(q.purpose, q.captured)
     /\ Reserve(c) => row.accepted = q.captured
     /\ row.outcome # "provider_accepted"

LEMMA ClaimsFact ==
  ASSUME TypeOK, Shape, NEW c \in Calls, Claims(c)
  PROVE  LET p == calls[c].purpose
             o == calls[c].op
         IN /\ ops' \in [Purposes -> [Ops -> Operation \cup {None}]] /\ p \in Purposes /\ o \in Ops
            /\ UNCHANGED now
            /\ \/ ops' = ops /\ UNCHANGED purposes
               \/ /\ ops[p][o] = None /\ purposes[p] # None /\ ~purposes[p].withdrawn
                  /\ IsClaim(c, ops'[p][o])
                  /\ ops'[p][o].outcome = "registered" <=> Register(c) /\ MayRotate(calls[c])
                  /\ \A r \in Purposes, n \in Ops : r # p \/ n # o => ops'[r][n] = ops[r][n]
<1> DEFINE p == calls[c].purpose
           o == calls[c].op
           q == calls[c]
<1>0. calls[c] \in Call /\ Control(calls[c]) /\ Found(calls[c]) /\ now \in Nat
  BY CallsTyped
<1>1. /\ p \in Purposes /\ o \in Ops /\ q.kind \in {"register", "wake"}
      /\ q.generation \in Generations /\ q.revision \in 1 .. MaxRevision
      /\ q.captured \in Nat /\ Expiry[p] \in Nat /\ Deadline(c) \in Nat
      /\ Clocks(c) \subseteq Nat
  <2>1. /\ p \in Purposes /\ o \in Ops /\ q.kind \in {"register", "wake"}
        /\ q.generation \in Generations /\ q.revision \in 1 .. MaxRevision
    BY <1>0 DEF Control, WakeSteps, Claims, Register, Expire, Reserve
  <2>2. q.captured \in Nat /\ q.clock \in Nat
    BY <1>0 DEF Call
  <2>3. Expiry[p] \in Nat /\ Window \in Nat
    BY <2>1, ConstantsFact
  <2>. QED BY <1>0, <2>1, <2>2, <2>3 DEF Deadline, Smallest, Clocks
<1>2. ASSUME NEW accepted \in Nat, NEW expires \in Nat, NEW at,
             NEW outcome \in Counted \cup {"conflict", "registered", "coalesced", "expired"},
             MayClaim(q, at), ops' = Claimed(c, accepted, expires, outcome)
      PROVE  /\ ops' \in [Purposes -> [Ops -> Operation \cup {None}]]
             /\ ops[p][o] = None /\ purposes[p] # None /\ ~purposes[p].withdrawn
             /\ LET row == ops'[p][o]
                IN /\ row # None /\ row.claim = c /\ row.kind = q.kind /\ row.accepted = accepted
                   /\ row.generation = q.generation /\ row.revision = q.revision /\ row.outcome = outcome
             /\ \A r \in Purposes, n \in Ops : r # p \/ n # o => ops'[r][n] = ops[r][n]
  <2> DEFINE row == [kind |-> q.kind, claim |-> c, generation |-> q.generation, revision |-> q.revision,
                     accepted |-> accepted, expires |-> expires, outcome |-> outcome]
  <2>1. ops' = [ops EXCEPT ![p][o] = row]
    BY <1>2 DEF Claimed
  <2>2. /\ row \in Operation /\ row.claim = c /\ row.kind = q.kind /\ row.accepted = accepted
        /\ row.generation = q.generation /\ row.revision = q.revision /\ row.outcome = outcome
    BY <1>1, <1>2 DEF Operation
  <2>. HIDE DEF row
  <2>3. ops[p][o] = None /\ purposes[p] # None /\ ~purposes[p].withdrawn
    BY <1>2 DEF MayClaim, IsLive
  <2>. HIDE DEF p, o
  <2>4. /\ ops' \in [Purposes -> [Ops -> Operation \cup {None}]] /\ ops'[p][o] = row /\ row # None
        /\ \A r \in Purposes, n \in Ops : r # p \/ n # o => ops'[r][n] = ops[r][n]
    BY <1>1, <2>1, <2>2, RowFact
  <2>. QED BY <2>2, <2>3, <2>4
<1>. HIDE DEF p, o
<1>3. CASE Register(c)
  <2>0. ~Reserve(c) /\ UNCHANGED now
    BY <1>3 DEF Register, Reserve
  <2>1. PICK at \in Clocks(c) :
          IF MayClaim(q, at)
            THEN IF MayRotate(q)
                   THEN ops' = Claimed(c, at, Expiry[q.purpose], "registered")
                   ELSE ops' = Claimed(c, at, Expiry[q.purpose], "conflict")
            ELSE UNCHANGED <<purposes, ops>>
    BY <1>3 DEF Register
  <2>2. at \in Nat /\ Expiry[q.purpose] \in Nat
    BY <1>1 DEF p
  <2>3. CASE ~MayClaim(q, at)
    BY <1>1, <2>0, <2>1, <2>3 DEF TypeOK, p, o
  <2>4. CASE MayClaim(q, at) /\ MayRotate(q)
    <3>1. "registered" \in Counted \cup {"conflict", "registered", "coalesced", "expired"} /\ "registered" \notin Counted
      BY DEF Counted, InFlight
    <3>2. /\ ops' \in [Purposes -> [Ops -> Operation \cup {None}]]
          /\ ops[p][o] = None /\ purposes[p] # None /\ ~purposes[p].withdrawn
          /\ LET row == ops'[p][o]
             IN /\ row # None /\ row.claim = c /\ row.kind = q.kind
                /\ row.generation = q.generation /\ row.revision = q.revision /\ row.outcome = "registered"
          /\ \A r \in Purposes, n \in Ops : r # p \/ n # o => ops'[r][n] = ops[r][n]
      BY <1>2, <2>1, <2>2, <2>4, <3>1
    <3>. QED BY <1>1, <1>3, <2>0, <2>4, <3>1, <3>2 DEF IsClaim, p, o
  <2>5. CASE MayClaim(q, at) /\ ~MayRotate(q)
    <3>1. "conflict" \in Counted \cup {"conflict", "registered", "coalesced", "expired"} /\ "conflict" \notin Counted
      BY DEF Counted, InFlight
    <3>2. /\ ops' \in [Purposes -> [Ops -> Operation \cup {None}]]
          /\ ops[p][o] = None /\ purposes[p] # None /\ ~purposes[p].withdrawn
          /\ LET row == ops'[p][o]
             IN /\ row # None /\ row.claim = c /\ row.kind = q.kind
                /\ row.generation = q.generation /\ row.revision = q.revision /\ row.outcome = "conflict"
          /\ \A r \in Purposes, n \in Ops : r # p \/ n # o => ops'[r][n] = ops[r][n]
      BY <1>2, <2>1, <2>2, <2>5, <3>1
    <3>. QED BY <1>1, <1>3, <2>0, <2>5, <3>1, <3>2 DEF IsClaim, p, o
  <2>. QED BY <2>3, <2>4, <2>5
<1>4. CASE Expire(c)
  <2>0. ~Register(c) /\ ~Reserve(c) /\ UNCHANGED <<purposes, now>>
    BY <1>4 DEF Register, Expire, Reserve
  <2>1. PICK at \in Clocks(c) :
          ops' = IF MayClaim(q, at) THEN Claimed(c, q.captured, Deadline(c), "expired") ELSE ops
    BY <1>4 DEF Expire
  <2>2. CASE ~MayClaim(q, at)
    BY <1>1, <2>0, <2>1, <2>2 DEF TypeOK, p, o
  <2>3. CASE MayClaim(q, at)
    <3>1. "expired" \in Counted \cup {"conflict", "registered", "coalesced", "expired"} /\ "expired" \notin Counted
      BY DEF Counted, InFlight
    <3>2. /\ ops' \in [Purposes -> [Ops -> Operation \cup {None}]]
          /\ ops[p][o] = None /\ purposes[p] # None /\ ~purposes[p].withdrawn
          /\ LET row == ops'[p][o]
             IN /\ row # None /\ row.claim = c /\ row.kind = q.kind
                /\ row.generation = q.generation /\ row.revision = q.revision /\ row.outcome = "expired"
          /\ \A r \in Purposes, n \in Ops : r # p \/ n # o => ops'[r][n] = ops[r][n]
      BY <1>1, <1>2, <2>1, <2>3, <3>1
    <3>. QED BY <1>1, <2>0, <3>1, <3>2 DEF IsClaim, p, o
  <2>. QED BY <2>2, <2>3
<1>5. CASE Reserve(c)
  <2>0. ~Register(c) /\ UNCHANGED <<purposes, now>>
    BY <1>5 DEF Register, Reserve
  <2>1. ops' = IF MayClaim(q, q.captured) THEN Claimed(c, q.captured, Deadline(c), ReservedOutcome(q)) ELSE ops
    BY <1>5 DEF Reserve
  <2>2. CASE ~MayClaim(q, q.captured)
    BY <1>1, <2>0, <2>1, <2>2 DEF TypeOK, p, o
  <2>3. CASE MayClaim(q, q.captured)
    <3>1. /\ ReservedOutcome(q) \in {"reserved", "coalesced", "conflict"}
          /\ ReservedOutcome(q) = "reserved" => Quiet(q.purpose, q.captured)
          /\ ReservedOutcome(q) \in Counted => ReservedOutcome(q) = "reserved"
      BY DEF ReservedOutcome, Counted, InFlight
    <3>2. /\ ops' \in [Purposes -> [Ops -> Operation \cup {None}]]
          /\ ops[p][o] = None /\ purposes[p] # None /\ ~purposes[p].withdrawn
          /\ LET row == ops'[p][o]
             IN /\ row # None /\ row.claim = c /\ row.kind = q.kind /\ row.accepted = q.captured
                /\ row.generation = q.generation /\ row.revision = q.revision /\ row.outcome = ReservedOutcome(q)
          /\ \A r \in Purposes, n \in Ops : r # p \/ n # o => ops'[r][n] = ops[r][n]
      <4>1. ReservedOutcome(q) \in Counted \cup {"conflict", "registered", "coalesced", "expired"}
        BY <3>1 DEF Counted, InFlight
      <4>. QED BY <1>1, <1>2, <2>1, <2>3, <4>1
    <3>. QED BY <1>1, <1>5, <2>0, <3>1, <3>2 DEF IsClaim, p, o
  <2>. QED BY <2>2, <2>3
<1>. QED BY <1>3, <1>4, <1>5 DEF Claims

\* A settled row keeps all but its outcome.
LEMMA SettlesFact ==
  ASSUME TypeOK, Shape, NEW c \in Calls, Settles(c)
  PROVE  LET p == calls[c].purpose
             o == calls[c].op
         IN /\ ops' \in [Purposes -> [Ops -> Operation \cup {None}]] /\ p \in Purposes /\ o \in Ops
            /\ UNCHANGED <<purposes, now>>
            /\ \/ ops' = ops
               \/ /\ Owns(c) /\ ops'[p][o] # None
                  /\ \E outcome \in Counted :
                       /\ ops'[p][o] = [ops[p][o] EXCEPT !.outcome = outcome]
                       /\ ops[p][o].outcome \in InFlight
                       /\ outcome = IF Mark(c) THEN "dispatch_started" ELSE OutcomeOf(calls[c])
                  /\ \A r \in Purposes, n \in Ops : r # p \/ n # o => ops'[r][n] = ops[r][n]
<1> DEFINE p == calls[c].purpose
           o == calls[c].op
<1>0. calls[c] \in Call /\ Control(calls[c]) /\ Found(calls[c]) /\ now \in Nat
  BY CallsTyped
<1>1. p \in Purposes /\ o \in Ops /\ UNCHANGED <<purposes, now>>
  BY <1>0 DEF Control, WakeSteps, Settles, Mark, Finish
<1>2. \/ ops' = ops
      \/ /\ Owns(c)
         /\ \E outcome \in Counted :
              /\ ops' = [ops EXCEPT ![p][o].outcome = outcome]
              /\ ops[p][o].outcome \in InFlight
              /\ outcome = IF Mark(c) THEN "dispatch_started" ELSE OutcomeOf(calls[c])
  <2>1. CASE Mark(c)
    <3>1. \/ ops' = ops
          \/ Owns(c) /\ ops[p][o].outcome = "reserved" /\ ops' = [ops EXCEPT ![p][o].outcome = "dispatch_started"]
      BY <2>1 DEF Mark, MayMark
    <3>. QED BY <2>1, <3>1 DEF Counted, InFlight
  <2>2. CASE Finish(c) /\ ~Mark(c)
    <3>1. \/ ops' = ops
          \/ Owns(c) /\ ops[p][o].outcome \in InFlight /\ ops' = [ops EXCEPT ![p][o].outcome = OutcomeOf(calls[c])]
      BY <2>2 DEF Finish
    <3>2. OutcomeOf(calls[c]) \in Counted
      BY <2>2 DEF Finish, OutcomeOf, Answered, Counted
    <3>. QED BY <2>2, <3>1, <3>2
  <2>. QED BY <2>1, <2>2 DEF Settles
<1>3. CASE ops' = ops
  BY <1>1, <1>3 DEF TypeOK
<1>4. CASE ops' # ops
  <2>1. PICK outcome \in Counted :
          /\ ops' = [ops EXCEPT ![p][o].outcome = outcome]
          /\ ops[p][o].outcome \in InFlight
          /\ outcome = IF Mark(c) THEN "dispatch_started" ELSE OutcomeOf(calls[c])
    BY <1>2, <1>4
  <2> DEFINE row == [ops[p][o] EXCEPT !.outcome = outcome]
  <2>2. Owns(c) /\ ops[p][o] \in Operation
    BY <1>1, <1>2, <1>4 DEF Owns, TypeOK
  <2>3. row \in Operation
    BY <2>2 DEF Operation
  <2>4. ops' = [ops EXCEPT ![p][o] = row]
    BY <1>1, <2>1 DEF TypeOK
  <2>. HIDE DEF p, o
  <2>5. /\ ops' \in [Purposes -> [Ops -> Operation \cup {None}]] /\ ops'[p][o] = row /\ row # None
        /\ \A r \in Purposes, n \in Ops : r # p \/ n # o => ops'[r][n] = ops[r][n]
    <3>. HIDE DEF row
    <3>. QED BY <1>1, <2>3, <2>4, RowFact
  <2>. QED BY <1>1, <2>1, <2>2, <2>5 DEF p, o
<1>. QED BY <1>3, <1>4

\* What a step writes to a purpose.
Rewrites(c) ==
  LET q == calls[c]
      old == purposes[q.purpose]
      row == purposes'[q.purpose]
  IN /\ q.purpose \in Purposes /\ row # None
     /\ \/ /\ Issue(c) /\ old = None
           /\ ~row.withdrawn /\ ~row.token /\ row.revision = 0
        \/ /\ Withdraw(c) /\ old # None
           /\ row.withdrawn /\ ~row.token /\ row.revision = old.revision /\ row.generation = old.generation
        \/ /\ Register(c) /\ old # None /\ MayRotate(q) /\ ops[q.purpose][q.op] = None
           /\ ops'[q.purpose][q.op].outcome = "registered"
           /\ ~row.withdrawn /\ row.token /\ row.revision = q.revision /\ row.generation = q.generation
        \/ /\ Invalidate(c) /\ old # None /\ IsSent(q)
           /\ row.withdrawn = old.withdrawn /\ ~row.token
           /\ row.revision = old.revision /\ row.generation = old.generation

LEMMA PurposeFact ==
  ASSUME TypeOK, NEW p \in Purposes, NEW row \in Purpose, purposes' = [purposes EXCEPT ![p] = row]
  PROVE  /\ purposes' \in [Purposes -> Purpose \cup {None}] /\ purposes'[p] = row /\ row # None
         /\ \A r \in Purposes : r # p => purposes'[r] = purposes[r]
BY NoneAssumption DEF TypeOK

LEMMA PurposesFact ==
  ASSUME TypeOK, Shape, NEW c \in Calls, Issue(c) \/ Withdraw(c) \/ Register(c) \/ Invalidate(c)
  PROVE  /\ purposes' \in [Purposes -> Purpose \cup {None}] /\ UNCHANGED now
         /\ ~Register(c) => UNCHANGED ops
         /\ \/ purposes' = purposes
            \/ /\ Rewrites(c)
               /\ \A r \in Purposes : r # calls[c].purpose => purposes'[r] = purposes[r]
<1> DEFINE p == calls[c].purpose
           q == calls[c]
<1>0. calls[c] \in Call /\ Control(calls[c]) /\ Found(calls[c]) /\ now \in Nat
  BY CallsTyped
<1>1. p \in Purposes
  BY <1>0 DEF Control, WakeSteps, Issue, Withdraw, Register, Invalidate
<1>2. CASE purposes' = purposes
  BY <1>2 DEF TypeOK, Issue, Withdraw, Register, Invalidate
<1>3. CASE Issue(c) /\ purposes' # purposes
  <2> DEFINE row == [withdrawn |-> FALSE, generation |-> None, revision |-> 0, token |-> FALSE, claim |-> c]
  <2>1. purposes' = [purposes EXCEPT ![p] = row] /\ purposes[p] = None /\ UNCHANGED <<ops, now>>
    BY <1>3 DEF Issue
  <2>2. row \in Purpose /\ ~row.withdrawn /\ ~row.token /\ row.revision = 0
    BY ConstantsFact DEF Purpose
  <2>. HIDE DEF row
  <2>3. /\ purposes' \in [Purposes -> Purpose \cup {None}] /\ purposes'[p] = row /\ row # None
        /\ \A r \in Purposes : r # p => purposes'[r] = purposes[r]
    BY <1>1, <2>1, <2>2, PurposeFact
  <2>. QED BY <1>1, <1>3, <2>1, <2>2, <2>3 DEF Rewrites
<1>4. CASE Withdraw(c) /\ purposes' # purposes
  <2> DEFINE row == [purposes[p] EXCEPT !.withdrawn = TRUE, !.token = FALSE]
  <2>1. purposes[p] # None /\ purposes[p] \in Purpose
    <3>1. calls[c].pc \in Admitted
      BY <1>4 DEF Withdraw, Admitted, WakeSteps
    <3>. QED BY <1>0, <1>1, <3>1 DEF Found, TypeOK
  <2>2. /\ row \in Purpose /\ row.withdrawn /\ ~row.token
        /\ row.revision = purposes[p].revision /\ row.generation = purposes[p].generation
    BY <2>1 DEF Purpose
  <2>3. purposes' = [purposes EXCEPT ![p] = row] /\ UNCHANGED <<ops, now>>
    BY <1>1, <1>4, <2>1 DEF Withdraw, TypeOK
  <2>. HIDE DEF row
  <2>4. /\ purposes' \in [Purposes -> Purpose \cup {None}] /\ purposes'[p] = row /\ row # None
        /\ \A r \in Purposes : r # p => purposes'[r] = purposes[r]
    BY <1>1, <2>2, <2>3, PurposeFact
  <2>. QED BY <1>1, <1>4, <2>1, <2>2, <2>3, <2>4 DEF Rewrites, Register
<1>6. CASE Invalidate(c) /\ purposes' # purposes
  <2> DEFINE row == [purposes[p] EXCEPT !.token = FALSE]
  <2>1. purposes[p] # None /\ purposes[p] \in Purpose
    <3>1. calls[c].pc \in Admitted
      BY <1>6 DEF Invalidate, Admitted, WakeSteps
    <3>. QED BY <1>0, <1>1, <3>1 DEF Found, TypeOK
  <2>2. /\ row \in Purpose /\ row.withdrawn = purposes[p].withdrawn /\ ~row.token
        /\ row.revision = purposes[p].revision /\ row.generation = purposes[p].generation
    BY <2>1 DEF Purpose
  <2>3. purposes' = [purposes EXCEPT ![p] = row] /\ UNCHANGED <<ops, now>> /\ IsSent(q)
    BY <1>1, <1>6, <2>1 DEF Invalidate, TypeOK
  <2>. HIDE DEF row
  <2>4. /\ purposes' \in [Purposes -> Purpose \cup {None}] /\ purposes'[p] = row /\ row # None
        /\ \A r \in Purposes : r # p => purposes'[r] = purposes[r]
    BY <1>1, <2>2, <2>3, PurposeFact
  <2>. QED BY <1>1, <1>6, <2>1, <2>2, <2>3, <2>4 DEF Rewrites, Register
<1>5. CASE Register(c) /\ purposes' # purposes
  <2> DEFINE row == [purposes[p] EXCEPT !.generation = q.generation, !.revision = q.revision, !.token = TRUE, !.claim = c]
  <2>1. /\ purposes' = [purposes EXCEPT ![p] = [@ EXCEPT !.generation = q.generation, !.revision = q.revision,
                                                        !.token = TRUE, !.claim = c]]
        /\ MayRotate(q) /\ UNCHANGED now
    BY <1>5 DEF Register
  <2>2. ops' # ops
    <3>1. PICK at \in Clocks(c) : MayClaim(q, at) /\ ops' = Claimed(c, at, Expiry[q.purpose], "registered")
      BY <1>5 DEF Register
    <3>2. ops[p][q.op] = None /\ q.op \in Ops
      BY <1>0, <1>5, <3>1 DEF MayClaim, Register, Control
    <3> DEFINE new == [kind |-> q.kind, claim |-> c, generation |-> q.generation, revision |-> q.revision,
                       accepted |-> at, expires |-> Expiry[q.purpose], outcome |-> "registered"]
    <3>3. ops'[p][q.op] = new
      BY <1>1, <3>1, <3>2 DEF Claimed, TypeOK
    <3>4. new \in Operation
      <4>1. at \in Nat /\ Expiry[p] \in Nat
        BY <1>0, <1>1, ConstantsFact DEF Clocks, Call
      <4>. QED BY <1>0, <1>5, <4>1 DEF Operation, Register, Control
    <3>. HIDE DEF new
    <3>. QED BY <3>2, <3>3, <3>4, NoneAssumption
  <2>3. /\ ops[p][q.op] = None /\ purposes[p] # None /\ ~purposes[p].withdrawn
        /\ ops'[p][q.op].outcome = "registered"
    BY <1>5, <2>1, <2>2, ClaimsFact DEF Claims
  <2>4. purposes[p] \in Purpose /\ q.generation \in Generations /\ q.revision \in 0 .. MaxRevision
    BY <1>0, <1>1, <1>5, <2>3, ConstantsFact DEF TypeOK, Register, Control
  <2>5. /\ row \in Purpose /\ row.withdrawn = purposes[p].withdrawn /\ row.token
        /\ row.revision = q.revision /\ row.generation = q.generation
    BY <2>4 DEF Purpose
  <2>6. purposes' = [purposes EXCEPT ![p] = row]
    BY <1>1, <2>1 DEF TypeOK
  <2>. HIDE DEF row
  <2>7. /\ purposes' \in [Purposes -> Purpose \cup {None}] /\ purposes'[p] = row /\ row # None
        /\ \A r \in Purposes : r # p => purposes'[r] = purposes[r]
    BY <1>1, <2>5, <2>6, PurposeFact
  <2>. QED BY <1>1, <1>5, <2>1, <2>3, <2>5, <2>7 DEF Rewrites
<1>. QED BY <1>2, <1>3, <1>4, <1>5, <1>6

-----------------------------------------------------------------------------
\* The rows of all operations after a step.
OpsChange(c) ==
  LET p == calls[c].purpose
      o == calls[c].op
  IN \/ ops' = ops
     \/ /\ p \in Purposes /\ o \in Ops
        /\ \A r \in Purposes, n \in Ops : r # p \/ n # o => ops'[r][n] = ops[r][n]
        /\ \/ /\ Claims(c) /\ ops[p][o] = None /\ purposes[p] # None /\ IsClaim(c, ops'[p][o])
           \/ /\ Settles(c) /\ Owns(c) /\ ops'[p][o] # None
              /\ \E outcome \in Counted :
                   /\ ops'[p][o] = [ops[p][o] EXCEPT !.outcome = outcome]
                   /\ ops[p][o].outcome \in InFlight
                   /\ outcome = IF Mark(c) THEN "dispatch_started" ELSE OutcomeOf(calls[c])

LEMMA StepFact ==
  ASSUME TypeOK, Shape, NEW c \in Calls, Arrive(c) \/ Acts(c)
  PROVE  /\ TypeOK' /\ UNCHANGED now /\ OpsChange(c)
         /\ \/ purposes' = purposes
            \/ /\ Rewrites(c)
               /\ \A r \in Purposes : r # calls[c].purpose => purposes'[r] = purposes[r]
         /\ ~Claims(c) /\ ~Settles(c) => ops' = ops
<1>0. calls' \in [Calls -> Call]
  BY ArriveFact, ActsMove DEF Moved
<1>1. CASE Settles(c)
  <2>1. calls[c].pc \in {"mark", "finish", "unsent", "unknown"}
    BY <1>1 DEF Settles, Mark, Finish
  <2>2. ~Claims(c)
    BY <2>1 DEF Claims, Register, Expire, Reserve
  <2>. QED BY <1>0, <1>1, <2>2, SettlesFact DEF OpsChange, TypeOK
<1>2. CASE Register(c)
  <2>1. Claims(c)
    BY <1>2 DEF Claims
  <2>. QED BY <1>0, <1>2, <2>1, ClaimsFact, PurposesFact DEF OpsChange, TypeOK
<1>3. CASE Expire(c) \/ Reserve(c)
  <2>1. Claims(c) /\ UNCHANGED purposes
    BY <1>3 DEF Claims, Expire, Reserve
  <2>. QED BY <1>0, <2>1, ClaimsFact DEF OpsChange, TypeOK
<1>4. CASE (Issue(c) \/ Withdraw(c) \/ Invalidate(c)) /\ ~Register(c)
  BY <1>0, <1>4, PurposesFact DEF OpsChange, TypeOK
<1>5. CASE Arrive(c) \/ Admit(c) \/ Prepare(c) \/ Fetch(c) \/ Answer(c) \/ Break(c) \/ Drop(c)
  <2>1. UNCHANGED <<purposes, ops, now>>
    BY <1>5 DEF Arrive, Admit, Prepare, Fetch, Answer, Break, Drop
  <2>. QED BY <1>0, <2>1 DEF OpsChange, TypeOK
<1>. QED BY <1>1, <1>2, <1>3, <1>4, <1>5 DEF Acts, Settles

\* Calls keep their shape, and their purposes stay.
LEMMA ShapeStep ==
  ASSUME TypeOK, Shape, NEW c \in Calls, Arrive(c) \/ Acts(c)
  PROVE  Shape' /\ \A p \in Purposes : purposes[p] # None => purposes'[p] # None
<1>1. \A p \in Purposes : purposes[p] # None => purposes'[p] # None
  BY StepFact DEF Rewrites
<1>2. UNCHANGED now
  BY StepFact
<1>3. /\ Control(calls'[c]) /\ calls'[c].clock <= now /\ calls'[c].captured <= now
      /\ \A d \in Calls : d # c => calls'[d] = calls[d]
  BY ArriveFact, ActsMove, CallsTyped DEF Moved
<1>4. calls'[c].pc \in Admitted => purposes'[calls'[c].purpose] # None
  <2>1. CASE Arrive(c)
    BY <2>1, ArriveFact DEF Admitted, WakeSteps
  <2>2. CASE Acts(c)
    <3>1. Moves(calls'[c], calls[c]) /\ (calls'[c].pc \in Admitted => calls[c].pc \in Admitted \/ Admit(c))
      BY <2>2, ActsMove DEF Moved
    <3>2. calls[c].pc # "idle" => calls[c].purpose \in Purposes
      BY CallsTyped DEF Control
    <3>3. Admit(c) => purposes[calls[c].purpose] # None /\ calls[c].pc = "admit"
      BY DEF Admit
    <3>4. calls[c].pc \in Admitted => purposes[calls[c].purpose] # None /\ calls[c].pc # "idle"
      BY CallsTyped DEF Found, Admitted, WakeSteps
    <3>. QED BY <1>1, <3>1, <3>2, <3>3, <3>4 DEF Moves, Same
  <2>. QED BY <2>1, <2>2
<1>5. ASSUME NEW d \in Calls, d # c PROVE Control(calls'[d]) /\ Found(calls[d])'
  <2>1. Control(calls[d]) /\ Found(calls[d]) /\ calls'[d] = calls[d]
    BY <1>3, <1>5 DEF Shape
  <2>2. calls[d].pc \in Admitted => calls[d].purpose \in Purposes
    BY <2>1 DEF Control, Admitted, WakeSteps
  <2>. QED BY <1>1, <1>2, <2>1, <2>2 DEF Found
<1>. QED BY <1>1, <1>2, <1>3, <1>4, <1>5 DEF Shape, Found

\* Once past its statement, or with it, a call is not early again.
LEMMA LateStays ==
  ASSUME TypeOK, Shape, NEW c \in Calls, Acts(c), calls[c].pc \notin Early \/ Claims(c)
  PROVE  calls'[c].pc \notin Early
<1>1. CASE Claims(c)
  <2>1. End(c) \/ (Goto(c, "reread") /\ "reread" \in Steps)
    BY <1>1 DEF Claims, Register, Expire, Reserve, Steps, Admitted, WakeSteps
  <2>. QED BY <2>1, EndFact, GotoFact DEF Early
<1>2. CASE calls[c].pc \notin Early
  <2>1. \/ End(c)
        \/ \E pc \in {"mark", "unsent", "send", "unknown"} : Goto(c, pc)
        \/ \E pc \in {"finish", "unsent", "unknown"} : calls' = [calls EXCEPT ![c].pc = pc]
        \/ Fetch(c) \/ Answer(c)
    BY <1>2 DEF Acts, Early, Issue, Admit, Withdraw, Register, Expire, Reserve, Prepare, Mark,
                Invalidate, Finish, Break, Drop
  <2>2. {"mark", "unsent", "send", "unknown", "finish"} \subseteq Steps \ Early
    BY DEF Steps, Admitted, WakeSteps, Early
  <2>3. Fetch(c) \/ Answer(c) => calls'[c].pc \notin Early
    <3>1. ASSUME Answer(c) PROVE calls'[c].pc \in {"invalidate", "finish"}
      BY <3>1, CallsTyped DEF Answer, TypeOK, Call
    <3>2. ASSUME Fetch(c) PROVE calls'[c].pc \in {"sent", "unsent"}
      BY <3>2, CallsTyped DEF Fetch, Goto, TypeOK, Call
    <3>. QED BY <3>1, <3>2 DEF Early
  <2>4. End(c) => calls'[c].pc \notin Early
    BY EndFact DEF Early
  <2>5. ASSUME NEW pc \in {"mark", "unsent", "send", "unknown"}, Goto(c, pc) PROVE calls'[c].pc \notin Early
    BY <2>2, <2>5, GotoFact
  <2>6. ASSUME NEW pc \in {"finish", "unsent", "unknown"}, calls' = [calls EXCEPT ![c].pc = pc]
        PROVE  calls'[c].pc \notin Early
    BY <2>2, <2>6, PcFact
  <2>. QED BY <2>1, <2>3, <2>4, <2>5, <2>6
<1>. QED BY <1>1, <1>2

-----------------------------------------------------------------------------
\* The others' rows are left to them.
LEMMA OthersClaims ==
  ASSUME TypeOK, Shape, Ledger, NEW c \in Calls, Arrive(c) \/ Acts(c), NEW d \in Calls, d # c
  PROVE  ClaimOf(d)'
<1> DEFINE p == calls[c].purpose
           o == calls[c].op
           r == calls[d].purpose
           n == calls[d].op
<1>1. calls'[d] = calls[d] /\ ClaimOf(d)
  BY ArriveFact, ActsMove DEF Moved, Ledger
<1>2. CASE ops'[r][n] = ops[r][n]
  BY <1>1, <1>2 DEF ClaimOf, Owns
<1>3. CASE ops'[r][n] # ops[r][n]
  <2>1. CASE r \notin Purposes \/ n \notin Ops
    <3>1. Control(calls[d])
      BY DEF Shape
    <3>2. calls[d].pc \notin Holding \cup {"reread"} /\ ~calls[d].sent
      BY <2>1, <3>1 DEF Control, Holding, WakeSteps
    <3>. QED BY <1>1, <3>2 DEF ClaimOf, Holding, WakeSteps
  <2>2. CASE r \in Purposes /\ n \in Ops
    <3>1. r = p /\ n = o /\ ops' # ops
      BY <1>3, <2>2, StepFact DEF OpsChange
    <3>2. ~Owns(d) /\ ~Owns(d)'
      <4>1. CASE Claims(c) /\ ops[p][o] = None /\ IsClaim(c, ops'[p][o])
        BY <1>1, <3>1, <4>1 DEF Owns, IsClaim
      <4>2. CASE Owns(c) /\ \E outcome \in Counted : ops'[p][o] = [ops[p][o] EXCEPT !.outcome = outcome]
        <5>1. ops[p][o] \in Operation /\ ops[p][o].claim = c
          BY <2>2, <3>1, <4>2 DEF Owns, TypeOK
        <5>2. ops'[p][o].claim = c
          BY <4>2, <5>1 DEF Operation
        <5>. QED BY <1>1, <3>1, <5>1, <5>2 DEF Owns
      <4>. QED BY <3>1, <4>1, <4>2, StepFact DEF OpsChange
    <3>. QED BY <1>1, <3>2 DEF ClaimOf, Holding, WakeSteps
  <2>. QED BY <2>1, <2>2
<1>. QED BY <1>2, <1>3

\* A call that has claimed nothing owns nothing.
LEMMA EarlyOwnsNothing ==
  ASSUME Shape, Ledger, NEW c \in Calls, calls[c].pc \in Early, calls[c].purpose \in Purposes, calls[c].op \in Ops
  PROVE  ~Owns(c)
BY DEF Ledger, RowOf, Owns

\* What a call knows of its own row after a step.
LEMMA OwnClaim ==
  ASSUME TypeOK, Shape, Ledger, NEW c \in Calls, Arrive(c) \/ Acts(c)
  PROVE  ClaimOf(c)'
<1> DEFINE p == calls[c].purpose
           o == calls[c].op
           q == calls[c]
           new == calls'[c]
<1>0. q \in Call /\ Control(q) /\ Found(q) /\ now \in Nat /\ ClaimOf(c) /\ now' = now
  BY CallsTyped, StepFact DEF Ledger
<1>1. CASE Arrive(c)
  BY <1>1, ArriveFact DEF ClaimOf, Holding, WakeSteps
<1>2. CASE Issue(c) \/ Admit(c) \/ Withdraw(c) \/ Register(c) \/ Expire(c)
  <2>1. /\ ~q.sent
        /\ End(c) \/ \E pc \in {"issued", "withdraw", "register", "expire", "reserve"} : Goto(c, pc)
    BY <1>0, <1>2 DEF Issue, Admit, Withdraw, Register, Expire, Control, WakeSteps
  <2>2. {"issued", "withdraw", "register", "expire", "reserve"} \subseteq Steps \ (Holding \cup {"reread"})
    BY DEF Steps, Admitted, WakeSteps, Holding
  <2>3. ~new.sent /\ new.pc \notin Holding \cup {"reread"}
    <3>1. CASE End(c)
      BY <2>1, <3>1, EndFact DEF Still, Holding, WakeSteps
    <3>2. ASSUME NEW pc \in {"issued", "withdraw", "register", "expire", "reserve"}, Goto(c, pc)
          PROVE  ~new.sent /\ new.pc \notin Holding \cup {"reread"}
      BY <2>1, <2>2, <3>2, GotoFact DEF Still
    <3>. QED BY <2>1, <3>1, <3>2
  <2>. QED BY <2>3 DEF ClaimOf, Holding, WakeSteps
<1>3. CASE Reserve(c)
  <2>1. q.pc = "reserve" /\ ~q.sent /\ p \in Purposes /\ o \in Ops /\ Goto(c, "reread") /\ "reread" \in Steps
    BY <1>0, <1>3 DEF Reserve, Control, WakeSteps, Steps, Admitted
  <2>2. new.pc = "reread" /\ ~new.sent /\ Same(new, q) /\ new.captured = q.captured
    BY <2>1, GotoFact DEF Still
  <2>3. ~Owns(c)
    BY <2>1, EarlyOwnsNothing DEF Early
  <2>4. Owns(c)' => ops'[p][o].kind = "wake" /\ ops'[p][o].accepted = q.captured
    <3>1. ops' = ops \/ IsClaim(c, ops'[p][o])
      BY <1>3, ClaimsFact DEF Claims
    <3>2. q.kind = "wake"
      BY <1>0, <2>1 DEF Control, WakeSteps
    <3>. QED BY <1>3, <2>2, <2>3, <3>1, <3>2 DEF Owns, IsClaim, Same
  <2>. QED BY <2>2, <2>4 DEF ClaimOf, Holding, WakeSteps, Same
<1>4. CASE Mark(c)
  <2>1. q.pc = "mark" /\ ~q.sent /\ p \in Purposes /\ o \in Ops
    BY <1>0, <1>4 DEF Mark, Control, WakeSteps
  <2>2. Owns(c) /\ ops[p][o].kind = "wake" /\ ops[p][o].accepted = q.captured /\ ops[p][o] \in Operation
    BY <1>0, <2>1 DEF ClaimOf, Holding, WakeSteps, Owns, TypeOK
  <2>3. \/ End(c)
        \/ Goto(c, "unknown")
        \/ Goto(c, "send") /\ ops' = [ops EXCEPT ![p][o].outcome = "dispatch_started"]
    BY <1>4 DEF Mark
  <2>4. /\ ops'[p][o] # None /\ ops'[p][o].claim = c /\ ops'[p][o].kind = "wake"
        /\ ops'[p][o].accepted = q.captured
        /\ ops' # ops \/ Goto(c, "send") => ops'[p][o].outcome = "dispatch_started"
    <3>1. \/ ops' = ops /\ ~Goto(c, "send")
          \/ ops' = [ops EXCEPT ![p][o].outcome = "dispatch_started"]
      <4>1. Goto(c, "send") => new.pc = "send"
        BY GotoFact DEF Steps, Admitted, WakeSteps
      <4>2. Goto(c, "unknown") => new.pc = "unknown"
        BY GotoFact DEF Steps, Admitted, WakeSteps
      <4>3. End(c) => new.pc = "done"
        BY EndFact
      <4>. QED BY <1>4, <4>1, <4>2, <4>3 DEF Mark
    <3>2. ops'[p][o] \in Operation
      <4> DEFINE row == [ops[p][o] EXCEPT !.outcome = "dispatch_started"]
      <4>1. row \in Operation
        BY <2>2 DEF Operation, Counted, InFlight
      <4>2. ops'[p][o] \in {ops[p][o], row}
        BY <2>1, <3>1 DEF TypeOK
      <4>. QED BY <2>2, <4>1, <4>2
    <3>3. CASE ops' = ops /\ ~Goto(c, "send")
      BY <2>2, <3>3 DEF Owns
    <3>4. CASE ops' = [ops EXCEPT ![p][o].outcome = "dispatch_started"]
      <4>1. ops'[p][o] = [ops[p][o] EXCEPT !.outcome = "dispatch_started"]
        BY <2>1, <3>4 DEF TypeOK
      <4>2. ops'[p][o] # None
        BY <3>2, NoneAssumption
      <4>. QED BY <2>2, <4>1, <4>2 DEF Operation, Owns
    <3>. QED BY <3>1, <3>3, <3>4
  <2>5. CASE End(c)
    BY <2>1, <2>5, EndFact DEF ClaimOf, Holding, WakeSteps, Still
  <2>6. CASE Goto(c, "unknown") \/ Goto(c, "send")
    <3>1. /\ new.pc \in {"unknown", "send"} /\ ~new.sent /\ Same(new, q) /\ new.captured = q.captured
          /\ new.pc = "send" => Goto(c, "send")
      <4>1. ASSUME NEW pc \in {"unknown", "send"}, Goto(c, pc)
            PROVE  new.pc = pc /\ ~new.sent /\ Same(new, q) /\ new.captured = q.captured
        BY <2>1, <4>1, GotoFact DEF Still, Steps, Admitted, WakeSteps
      <4>. QED BY <2>6, <4>1
    <3>. QED BY <2>4, <3>1 DEF ClaimOf, Owns, Holding, WakeSteps, Same
  <2>. QED BY <2>3, <2>5, <2>6
<1>5. CASE Fetch(c)
  <2>1. q.pc = "send" /\ p \in Purposes /\ o \in Ops /\ UNCHANGED ops
    BY <1>0, <1>5 DEF Fetch, Control, WakeSteps
  <2>2. /\ Owns(c) /\ ops[p][o].kind = "wake" /\ ops[p][o].accepted = q.captured
        /\ ops[p][o].outcome = "dispatch_started"
    BY <1>0, <2>1 DEF ClaimOf, Holding, WakeSteps
  <2>3. Moves(new, q) /\ new.pc # "done"
    <3>1. new.pc \in {"sent", "unsent"}
      BY <1>0, <1>5 DEF Fetch, Goto, TypeOK, Call
    <3>. QED BY <1>5, <3>1, ActsMove DEF Acts, Moved
  <2>4. \/ new.pc = "unsent" /\ ~new.sent
        \/ new.pc = "sent" /\ new.clock = now /\ now < Deadline(c)
    BY <1>0, <1>5 DEF Fetch, Goto, TypeOK, Call, Control
  <2>5. now < Deadline(c) => now < q.captured + Window
    <3>1. Expiry[p] \in Nat /\ Window \in Nat /\ q.captured \in Nat
      BY <1>0, <2>1, ConstantsFact DEF Call
    <3>. QED BY <1>0, <3>1 DEF Deadline, Smallest
  <2>6. q.captured <= now
    BY <1>0 DEF Found
  <2>7. "dispatch_started" \in Counted \ {"reserved", "not_sent"}
    BY DEF Counted, InFlight
  <2>. QED BY <2>1, <2>2, <2>3, <2>4, <2>5, <2>6, <2>7 DEF ClaimOf, Owns, Holding, WakeSteps, Moves, Same
<1>6. CASE Prepare(c) \/ Answer(c) \/ Invalidate(c) \/ Break(c) \/ Drop(c)
  <2>1. UNCHANGED ops /\ Moves(new, q) /\ new.sent = q.sent
    <3>1. UNCHANGED ops
      BY <1>6 DEF Prepare, Answer, Invalidate, Break, Drop
    <3>2. Acts(c) /\ (new.sent = q.sent \/ ~Fetch(c))
      <4>1. Acts(c)
        BY <1>6 DEF Acts
      <4>2. Drop(c) => new.sent = q.sent
        BY EndFact DEF Drop, Still
      <4>3. Break(c) => new.sent = q.sent
        BY <1>0 DEF Break, TypeOK, Call
      <4>4. CASE Prepare(c) \/ Answer(c) \/ Invalidate(c)
        BY <4>1, <4>4 DEF Fetch, Prepare, Answer, Invalidate
      <4>. QED BY <1>6, <4>1, <4>2, <4>3, <4>4
    <3>. QED BY <3>1, <3>2, ActsMove DEF Moved
  <2>2. /\ new.pc # "send"
        /\ new.pc \in Holding => Owns(c)
        /\ new.pc \in Holding \cup {"reread"} => q.pc \in Holding \cup {"reread"}
    <3>1. CASE Prepare(c)
      <4>1. \/ End(c)
            \/ Owns(c) /\ q.pc = "reread" /\ (Goto(c, "mark") \/ Goto(c, "unsent"))
        BY <3>1 DEF Prepare
      <4>2. End(c) => new.pc = "done"
        BY EndFact
      <4>3. Goto(c, "mark") \/ Goto(c, "unsent") => new.pc \in {"mark", "unsent"}
        BY GotoFact DEF Steps, Admitted, WakeSteps
      <4>. QED BY <4>1, <4>2, <4>3 DEF Holding, WakeSteps
    <3>2. CASE Answer(c)
      <4>1. new.pc \in {"invalidate", "finish"} /\ q.pc = "sent"
        BY <1>0, <3>2 DEF Answer, TypeOK, Call
      <4>. QED BY <1>0, <4>1 DEF ClaimOf, Holding, WakeSteps
    <3>3. CASE Invalidate(c)
      <4>1. new.pc \in {"finish", "unknown"} /\ q.pc = "invalidate"
        BY <1>0, <3>3 DEF Invalidate, TypeOK, Call
      <4>. QED BY <1>0, <4>1 DEF ClaimOf, Holding, WakeSteps
    <3>4. CASE Break(c)
      <4>1. /\ new.pc \in {"unsent", "unknown"} /\ q.pc \in Holding \cup {"reread"}
            /\ q.pc = "reread" => Owns(c)
        BY <1>0, <3>4 DEF Break, TypeOK, Call, Holding, WakeSteps
      <4>. QED BY <1>0, <4>1 DEF ClaimOf
    <3>5. CASE Drop(c)
      BY <3>5, EndFact DEF Drop, Holding, WakeSteps
    <3>. QED BY <1>6, <3>1, <3>2, <3>3, <3>4, <3>5
  <2>3. new.pc \in Holding \cup {"reread"} => new.captured = q.captured
    BY <2>1 DEF Moves, Holding, WakeSteps
  <2>. QED BY <1>0, <2>1, <2>2, <2>3 DEF ClaimOf, Owns, Moves, Same
<1>7. CASE Finish(c)
  <2>1. q.pc \in {"finish", "unsent", "unknown"} /\ End(c) /\ p \in Purposes /\ o \in Ops
    BY <1>0, <1>7 DEF Finish, Control, WakeSteps
  <2>2. /\ new.pc = "done" /\ Still(new, q) /\ (q.sent => new.clock = q.clock)
    BY <2>1, EndFact
  <2>3. CASE ~q.sent
    BY <2>2, <2>3 DEF ClaimOf, Holding, WakeSteps, Still
  <2>4. CASE q.sent
    <3>1. /\ Owns(c) /\ ops[p][o].kind = "wake" /\ ops[p][o] \in Operation
          /\ ops[p][o].outcome \in Counted \ {"reserved", "not_sent"}
          /\ ops[p][o].accepted <= q.clock /\ q.clock < ops[p][o].accepted + Window
      BY <1>0, <2>1, <2>4 DEF ClaimOf, Owns, TypeOK
    <3>2. OutcomeOf(q) \in Counted \ {"reserved", "not_sent"}
      BY <1>0, <2>1, <2>4 DEF OutcomeOf, Answered, Counted, InFlight, Control
    <3>3. /\ ops'[p][o] # None /\ ops'[p][o].claim = c /\ ops'[p][o].kind = "wake"
          /\ ops'[p][o].accepted = ops[p][o].accepted
          /\ ops'[p][o].outcome \in Counted \ {"reserved", "not_sent"}
      <4>1. CASE ops' = ops
        BY <3>1, <4>1 DEF Owns
      <4>2. CASE ops' # ops
        <5>1. ~Mark(c)
          BY <2>1 DEF Mark
        <5>2. ops'[p][o] # None /\ ops'[p][o] = [ops[p][o] EXCEPT !.outcome = OutcomeOf(q)]
          BY <1>7, <4>2, <5>1, SettlesFact DEF Settles
        <5>. QED BY <3>1, <3>2, <5>2 DEF Operation, Owns
      <4>. QED BY <4>1, <4>2
    <3>. QED BY <2>2, <2>4, <3>1, <3>3 DEF ClaimOf, Owns, Holding, WakeSteps, Still, Same
  <2>. QED BY <2>3, <2>4
<1>. QED BY <1>1, <1>2, <1>3, <1>4, <1>5, <1>6, <1>7 DEF Acts

\* The rows and the calls that claimed them.
LEMMA RowsStep ==
  ASSUME TypeOK, Shape, Ledger, NEW c \in Calls, Arrive(c) \/ Acts(c)
  PROVE  \A p \in Purposes, o \in Ops : RowOf(p, o)'
<1> SUFFICES ASSUME NEW p \in Purposes, NEW o \in Ops, ops'[p][o] # None PROVE RowOf(p, o)'
  BY DEF RowOf
<1>0. /\ \A r \in Purposes : purposes[r] # None => purposes'[r] # None
      /\ \A d \in Calls : d # c => calls'[d] = calls[d]
      /\ RowOf(p, o) /\ Control(calls[c]) /\ TypeOK'
  BY ShapeStep, StepFact, ArriveFact, ActsMove DEF Moved, Ledger, Shape
<1>1. CASE ops'[p][o] = ops[p][o]
  <2>1. /\ purposes'[p] # None /\ calls[ops[p][o].claim].pc \notin Early
        /\ calls[ops[p][o].claim].purpose = p /\ calls[ops[p][o].claim].op = o
        /\ calls[ops[p][o].claim].kind = ops[p][o].kind
        /\ ops[p][o].outcome = "provider_accepted" =>
             calls[ops[p][o].claim].sent /\ calls[ops[p][o].claim].answer = "accepted"
    BY <1>0, <1>1 DEF RowOf
  <2>2. CASE ops[p][o].claim = c
    <3>1. Acts(c)
      BY <2>1, <2>2, ArriveFact DEF Early
    <3>2. Moves(calls'[c], calls[c]) /\ calls'[c].pc \notin Early
      BY <2>1, <2>2, <3>1, ActsMove, LateStays DEF Moved
    <3>. QED BY <1>1, <2>1, <2>2, <3>2, NoneAssumption DEF RowOf, Moves, Same
  <2>3. CASE ops[p][o].claim # c
    <3>1. ops[p][o].claim \in Calls
      BY <1>1 DEF TypeOK, Operation
    <3>. QED BY <1>0, <1>1, <2>1, <2>3, <3>1 DEF RowOf
  <2>. QED BY <2>2, <2>3
<1>2. CASE ops'[p][o] # ops[p][o]
  <2>1. p = calls[c].purpose /\ o = calls[c].op /\ OpsChange(c) /\ ops' # ops
    BY <1>2, StepFact DEF OpsChange
  <2>2. CASE Claims(c) /\ purposes[p] # None /\ IsClaim(c, ops'[p][o])
    <3>1. Moves(calls'[c], calls[c]) /\ calls'[c].pc \notin Early
      BY <2>2, ActsMove, LateStays DEF Moved, Acts, Claims
    <3>. QED BY <1>0, <2>1, <2>2, <3>1 DEF RowOf, IsClaim, Moves, Same
  <2>3. CASE Settles(c) /\ Owns(c) /\ \E outcome \in Counted :
               /\ ops'[p][o] = [ops[p][o] EXCEPT !.outcome = outcome]
               /\ outcome = IF Mark(c) THEN "dispatch_started" ELSE OutcomeOf(calls[c])
    <3>1. PICK outcome \in Counted :
            /\ ops'[p][o] = [ops[p][o] EXCEPT !.outcome = outcome]
            /\ outcome = IF Mark(c) THEN "dispatch_started" ELSE OutcomeOf(calls[c])
      BY <2>3
    <3>2. ops[p][o] \in Operation /\ ops[p][o].claim = c
      BY <2>1, <2>3 DEF Owns, TypeOK
    <3>3. ops'[p][o].claim = c /\ ops'[p][o].kind = ops[p][o].kind /\ ops'[p][o].outcome = outcome
      BY <3>1, <3>2 DEF Operation
    <3>4. calls[c].pc \notin Early /\ purposes[p] # None /\ calls[c].kind = ops[p][o].kind
      BY <1>0, <2>1, <3>2, NoneAssumption DEF RowOf
    <3>5. Moves(calls'[c], calls[c]) /\ calls'[c].pc \notin Early
      BY <2>3, <3>4, ActsMove, LateStays DEF Moved, Acts, Settles
    <3>6. outcome = "provider_accepted" => calls[c].sent /\ calls[c].answer = "accepted"
      <4>1. CASE Mark(c)
        BY <3>1, <4>1
      <4>2. CASE Finish(c) /\ ~Mark(c)
        BY <1>0, <3>1, <4>2 DEF Finish, OutcomeOf, Answered, Control
      <4>. QED BY <2>3, <4>1, <4>2 DEF Settles
    <3>. QED BY <1>0, <2>1, <3>3, <3>4, <3>5, <3>6, NoneAssumption DEF RowOf, Moves, Same
  <2>. QED BY <2>1, <2>2, <2>3 DEF OpsChange
<1>. QED BY <1>1, <1>2

LEMMA LedgerStep ==
  ASSUME TypeOK, Shape, Ledger, NEW c \in Calls, Arrive(c) \/ Acts(c)
  PROVE  Ledger'
BY OthersClaims, OwnClaim, RowsStep DEF Ledger

-----------------------------------------------------------------------------
\* A counted wake was counted before, unless it has just been claimed, in quiet.
LEMMA CountedFact ==
  ASSUME TypeOK, Shape, Ledger, NEW c \in Calls, Arrive(c) \/ Acts(c), NEW p \in Purposes, NEW o \in CountedWakes(p)'
  PROVE  \/ o \in CountedWakes(p) /\ ops'[p][o].accepted = ops[p][o].accepted
         \/ /\ p = calls[c].purpose /\ o = calls[c].op /\ ops' # ops
            /\ Quiet(p, calls[c].captured) /\ ops'[p][o].accepted = calls[c].captured
<1>1. o \in Ops /\ ops'[p][o] # None /\ ops'[p][o].kind = "wake" /\ ops'[p][o].outcome \in Counted
  BY DEF CountedWakes, OpRows
<1>2. CASE ops'[p][o] = ops[p][o]
  BY <1>1, <1>2 DEF CountedWakes, OpRows
<1>3. CASE ops'[p][o] # ops[p][o]
  <2>1. p = calls[c].purpose /\ o = calls[c].op /\ OpsChange(c) /\ ops' # ops
    BY <1>1, <1>3, StepFact DEF OpsChange
  <2>2. CASE Claims(c) /\ IsClaim(c, ops'[p][o])
    BY <1>1, <2>1, <2>2 DEF IsClaim
  <2>3. CASE Owns(c) /\ \E outcome \in Counted :
               /\ ops'[p][o] = [ops[p][o] EXCEPT !.outcome = outcome]
               /\ ops[p][o].outcome \in InFlight
    <3>1. ops[p][o] # None /\ ops[p][o] \in Operation
      BY <1>1, <2>1, <2>3 DEF Owns, TypeOK
    <3>2. ops'[p][o].kind = ops[p][o].kind /\ ops'[p][o].accepted = ops[p][o].accepted
      BY <2>3, <3>1 DEF Operation
    <3>. QED BY <1>1, <2>3, <3>1, <3>2 DEF CountedWakes, OpRows, Counted
  <2>. QED BY <2>1, <2>2, <2>3 DEF OpsChange
<1>. QED BY <1>2, <1>3

\* The counted wakes of a host stay a window apart.
LEMMA ApartStep ==
  ASSUME TypeOK, Shape, Ledger, Apart, NEW c \in Calls, Arrive(c) \/ Acts(c)
  PROVE  Apart'
<1> SUFFICES ASSUME NEW p \in Purposes, NEW r \in Purposes, HostOf[p] = HostOf[r],
                    NEW o \in CountedWakes(p)', NEW n \in CountedWakes(r)', <<p, o>> # <<r, n>>
             PROVE  \/ ops'[p][o].accepted - ops'[r][n].accepted >= Window
                    \/ ops'[r][n].accepted - ops'[p][o].accepted >= Window
  BY DEF Apart
<1>0. calls[c] \in Call /\ calls[c].captured \in Nat /\ Window \in Nat
  BY CallsTyped, ConstantsFact DEF Call
<1>1. \A x \in Purposes : \A y \in CountedWakes(x) : ops[x][y].accepted \in Nat
  BY DEF CountedWakes, OpRows, TypeOK, Operation
<1>2. CASE o \in CountedWakes(p) /\ ops'[p][o].accepted = ops[p][o].accepted
  <2>1. CASE n \in CountedWakes(r) /\ ops'[r][n].accepted = ops[r][n].accepted
    BY <1>2, <2>1 DEF Apart
  <2>2. CASE Quiet(r, calls[c].captured) /\ ops'[r][n].accepted = calls[c].captured
    <3>1. ops[p][o].accepted <= calls[c].captured - Window
      BY <1>2, <2>2 DEF Quiet
    <3>. QED BY <1>0, <1>1, <1>2, <2>2, <3>1
  <2>. QED BY <2>1, <2>2, CountedFact
<1>3. CASE p = calls[c].purpose /\ o = calls[c].op /\ Quiet(p, calls[c].captured) /\ ops'[p][o].accepted = calls[c].captured
  <2>1. n \in CountedWakes(r) /\ ops'[r][n].accepted = ops[r][n].accepted
    BY <1>3, CountedFact
  <2>2. ops[r][n].accepted <= calls[c].captured - Window
    BY <1>3, <2>1 DEF Quiet
  <2>. QED BY <1>0, <1>1, <1>3, <2>1, <2>2
<1>. QED BY <1>2, <1>3, CountedFact

-----------------------------------------------------------------------------
\* The answer of an issued purpose is given once.
LEMMA IssuedStep ==
  ASSUME TypeOK, Shape, Issued, NEW c \in Calls, Arrive(c) \/ Acts(c)
  PROVE  Issued'
<1>1. /\ \A p \in Purposes : purposes[p] # None => purposes'[p] # None
      /\ \A d \in Calls : d # c => calls'[d] = calls[d]
  BY ShapeStep, ArriveFact, ActsMove DEF Moved
<1>2. \A d \in Calls : calls[d].pc = "issued" => calls[d].purpose \in Purposes
  BY DEF Shape, Control
<1>3. CASE calls'[c].pc # "issued"
  BY <1>1, <1>2, <1>3 DEF Issued
<1>4. CASE calls'[c].pc = "issued"
  <2>1. Acts(c) /\ Moves(calls'[c], calls[c])
    BY <1>4, ArriveFact, ActsMove DEF Moved
  <2>2. Issue(c)
    <3>1. ~End(c)
      BY <1>4, EndFact
    <3>2. \A pc \in Steps : Goto(c, pc) => pc = "issued"
      BY <1>4, GotoFact
    <3>3. \A pc \in Steps : calls' = [calls EXCEPT ![c].pc = pc] => pc = "issued"
      BY <1>4, PcFact
    <3>4. {"withdraw", "register", "expire", "reserve", "reread", "mark", "unsent", "unknown", "send", "finish"}
            \subseteq Steps \ {"issued"}
      BY DEF Steps, Admitted, WakeSteps
    <3>5. ~Admit(c) /\ ~Withdraw(c) /\ ~Register(c) /\ ~Expire(c) /\ ~Reserve(c) /\ ~Prepare(c) /\ ~Mark(c)
          /\ ~Finish(c) /\ ~Drop(c)
      BY <3>1, <3>2, <3>4 DEF Admit, Withdraw, Register, Expire, Reserve, Prepare, Mark, Finish, Drop
    <3>6. ~Invalidate(c) /\ ~Break(c)
      BY <3>3, <3>4 DEF Invalidate, Break
    <3>7. Fetch(c) \/ Answer(c) => calls[c].pc \notin Early
      BY DEF Fetch, Answer, Early
    <3>8. ~Fetch(c) /\ ~Answer(c)
      <4>1. ASSUME Answer(c) PROVE FALSE
        BY <1>4, <4>1, CallsTyped DEF Answer, TypeOK, Call
      <4>2. ASSUME Fetch(c) PROVE FALSE
        BY <1>4, <4>2, CallsTyped DEF Fetch, Goto, TypeOK, Call
      <4>. QED BY <4>1, <4>2
    <3>. QED BY <2>1, <3>5, <3>6, <3>8 DEF Acts
  <2>3. calls[c].purpose \in Purposes /\ purposes[calls[c].purpose] = None
    <3>1. calls[c].pc = "issue" /\ Control(calls[c])
      BY <2>2 DEF Issue, Shape
    <3>2. ~End(c)
      BY <1>4, EndFact
    <3>. QED BY <2>2, <3>1, <3>2 DEF Issue, Control
  <2>4. purposes'[calls[c].purpose] # None
    <3>1. purposes' # purposes
      <4>1. purposes' = [purposes EXCEPT ![calls[c].purpose] =
                 [withdrawn |-> FALSE, generation |-> None, revision |-> 0, token |-> FALSE, claim |-> c]]
        BY <1>4, <2>2, <2>3, EndFact DEF Issue
      <4>2. [withdrawn |-> FALSE, generation |-> None, revision |-> 0, token |-> FALSE, claim |-> c] \in Purpose
        BY ConstantsFact DEF Purpose
      <4>. QED BY <2>3, <4>1, <4>2, NoneAssumption DEF TypeOK
    <3>. QED BY <3>1, StepFact DEF Rewrites
  <2>5. \A d \in Calls : d # c /\ calls'[d].pc = "issued" => calls[d].purpose # calls[c].purpose
    BY <1>1, <2>3 DEF Issued
  <2>. QED BY <1>1, <1>2, <1>4, <2>1, <2>4, <2>5 DEF Issued, Moves, Same
<1>. QED BY <1>3, <1>4

\* A token goes only for a cause.
LEMMA CauseStep ==
  ASSUME TypeOK, Shape, TokenForCause, NEW c \in Calls, Arrive(c) \/ Acts(c)
  PROVE  TokenForCause'
<1> SUFFICES ASSUME NEW p \in Purposes, purposes'[p] # None
             PROVE  /\ purposes'[p].withdrawn => ~purposes'[p].token
                    /\ ~purposes'[p].token /\ ~purposes'[p].withdrawn /\ purposes'[p].revision > 0 =>
                         \E d \in Calls : /\ calls'[d].purpose = p /\ calls'[d].answer = "gone"
                                          /\ calls'[d].generation = purposes'[p].generation
                                          /\ calls'[d].revision = purposes'[p].revision
  BY DEF TokenForCause
<1>1. \A d \in Calls : calls[d].answer = "gone" =>
        /\ calls'[d].answer = "gone" /\ calls'[d].purpose = calls[d].purpose
        /\ calls'[d].generation = calls[d].generation /\ calls'[d].revision = calls[d].revision
  <2>1. \A d \in Calls : d # c => calls'[d] = calls[d]
    BY ArriveFact, ActsMove DEF Moved
  <2>2. calls[c].answer = "gone" => Moves(calls'[c], calls[c])
    BY ArriveFact, ActsMove, CallsTyped, NoneAssumption DEF Moved, Control
  <2>. QED BY <2>1, <2>2, NoneAssumption DEF Moves, Same
<1>2. CASE purposes'[p] = purposes[p]
  BY <1>1, <1>2 DEF TokenForCause
<1>3. CASE purposes'[p] # purposes[p]
  <2>1. p = calls[c].purpose /\ Rewrites(c)
    BY <1>3, StepFact
  <2>2. CASE purposes'[p].withdrawn /\ ~purposes'[p].token
    BY <2>2
  <2>3. CASE ~purposes'[p].withdrawn /\ (purposes'[p].token \/ purposes'[p].revision = 0)
    BY <2>3
  <2>4. CASE Invalidate(c) /\ purposes[p] # None /\ IsSent(calls[c]) /\ ~purposes'[p].token
             /\ purposes'[p].revision = purposes[p].revision /\ purposes'[p].generation = purposes[p].generation
    <3>1. calls[c].answer = "gone"
      BY <2>4, CallsTyped DEF Invalidate, Control
    <3>. QED BY <1>1, <2>1, <2>4, <3>1 DEF IsSent
  <2>. QED BY <2>1, <2>2, <2>3, <2>4 DEF Rewrites
<1>. QED BY <1>2, <1>3

\* The registrations of a purpose are its revisions.
LEMMA ChainStep ==
  ASSUME TypeOK, Shape, Ledger, Chain, NEW c \in Calls, Arrive(c) \/ Acts(c)
  PROVE  Chain'
<1> SUFFICES ASSUME NEW p \in Purposes, purposes'[p] # None
             PROVE  /\ Cardinality(Registered(p)') = purposes'[p].revision
                    /\ {ops'[p][o].revision : o \in Registered(p)'} = 1 .. purposes'[p].revision
                    /\ \A o \in Registered(p)' : ops'[p][o].generation = purposes'[p].generation
  BY DEF Chain, Registered, OpRows
<1>0. /\ Registered(p) = {o \in Ops : ops[p][o] # None /\ ops[p][o].outcome = "registered"}
      /\ Registered(p)' = {o \in Ops : ops'[p][o] # None /\ ops'[p][o].outcome = "registered"}
  BY DEF Registered, OpRows
<1>1. IsFiniteSet(Registered(p))
  <2>1. Registered(p) \subseteq Ops
    BY <1>0
  <2>. QED BY <2>1, FiniteAssumption, FS_Subset
\* A row that is settled is a wake that was under way.
<1>2. ASSUME NEW o \in Ops, ops'[p][o] # ops[p][o]
      PROVE  /\ p = calls[c].purpose /\ o = calls[c].op
             /\ ~(ops[p][o] # None /\ ops[p][o].outcome = "registered")
             /\ ops'[p][o] # None /\ (ops'[p][o].outcome = "registered" => Register(c) /\ MayRotate(calls[c]) /\ ops[p][o] = None)
  <2>1. p = calls[c].purpose /\ o = calls[c].op /\ OpsChange(c) /\ ops' # ops
    BY <1>2, StepFact DEF OpsChange
  <2>2. CASE Claims(c) /\ ops[p][o] = None /\ IsClaim(c, ops'[p][o])
    BY <2>1, <2>2 DEF IsClaim
  <2>3. CASE Owns(c) /\ ops'[p][o] # None /\ \E outcome \in Counted :
               /\ ops'[p][o] = [ops[p][o] EXCEPT !.outcome = outcome]
               /\ ops[p][o].outcome \in InFlight
    <3>1. ops[p][o] \in Operation
      BY <2>1, <2>3 DEF Owns, TypeOK
    <3>2. ops'[p][o].outcome \in Counted
      BY <2>3, <3>1 DEF Operation
    <3>. QED BY <2>1, <2>3, <3>2 DEF Counted, InFlight
  <2>. QED BY <2>1, <2>2, <2>3 DEF OpsChange
<1>3. CASE purposes'[p] = purposes[p]
  <2>1. \A o \in Ops : ops'[p][o] = ops[p][o] \/ ops'[p][o].outcome # "registered"
    <3> SUFFICES ASSUME NEW o \in Ops, ops'[p][o] # ops[p][o], ops'[p][o].outcome = "registered" PROVE FALSE
      OBVIOUS
    <3>1. /\ p = calls[c].purpose /\ o = calls[c].op /\ Register(c) /\ MayRotate(calls[c]) /\ ops[p][o] = None
      BY <1>2
    <3>2. ops' # ops
      OBVIOUS
    <3>3. \E at \in Clocks(c) : MayClaim(calls[c], at) /\
             purposes' = [purposes EXCEPT ![p] = [@ EXCEPT !.generation = calls[c].generation, !.revision = calls[c].revision,
                                                           !.token = TRUE, !.claim = c]]
      BY <3>1, <3>2 DEF Register
    <3>4. purposes[p] \in Purpose /\ calls[c].revision \in 1 .. MaxRevision
      BY <1>3, <3>1, CallsTyped DEF TypeOK, Control, Register
    <3>5. purposes'[p].revision = calls[c].revision
      <4>1. purposes'[p] = [purposes[p] EXCEPT !.generation = calls[c].generation, !.revision = calls[c].revision,
                                               !.token = TRUE, !.claim = c]
        BY <3>3 DEF TypeOK
      <4>. QED BY <3>4, <4>1 DEF Purpose
    <3>6. calls[c].revision \in Nat /\ purposes[p].revision = calls[c].revision - 1
      BY <3>1, <3>4, ConstantsFact DEF MayRotate
    <3>. QED BY <1>3, <3>5, <3>6
  <2>2. Registered(p)' = Registered(p) /\ \A o \in Registered(p) : ops'[p][o] = ops[p][o]
    BY <1>0, <1>2, <2>1
  <2>. QED BY <1>3, <2>2 DEF Chain
<1>4. CASE purposes'[p] # purposes[p]
  <2>1. p = calls[c].purpose /\ Rewrites(c)
    BY <1>4, StepFact
  <2>2. CASE Issue(c) /\ purposes[p] = None /\ purposes'[p].revision = 0
    <3>1. ~Register(c)
      BY <2>2 DEF Issue, Register
    <3>2. Registered(p)' = {}
      BY <1>0, <1>2, <2>2, <3>1 DEF Ledger, RowOf
    <3>3. \A o \in Registered(p)' : FALSE
      BY <3>2
    <3>. QED BY <2>2, <3>2, FS_EmptySet
  <2>3. CASE /\ Withdraw(c) \/ Invalidate(c)
             /\ purposes[p] # None /\ purposes'[p].revision = purposes[p].revision
             /\ purposes'[p].generation = purposes[p].generation
    <3>1. ~Register(c)
      BY <2>3 DEF Withdraw, Invalidate, Register
    <3>2. Registered(p)' = Registered(p) /\ \A o \in Registered(p) : ops'[p][o] = ops[p][o]
      BY <1>0, <1>2, <3>1
    <3>. QED BY <2>3, <3>2 DEF Chain
  <2>4. CASE /\ Register(c) /\ purposes[p] # None /\ MayRotate(calls[c]) /\ ops[p][calls[c].op] = None
             /\ ops'[p][calls[c].op].outcome = "registered"
             /\ purposes'[p].revision = calls[c].revision /\ purposes'[p].generation = calls[c].generation
    <3> DEFINE n == calls[c].op
               rev == calls[c].revision
    <3>1. n \in Ops /\ rev \in Nat /\ purposes[p].revision = rev - 1 /\ rev > 0
      BY <2>1, <2>4, CallsTyped, ConstantsFact DEF Control, Register, MayRotate
    <3>2. ops' # ops
      <4>1. PICK at \in Clocks(c) : MayClaim(calls[c], at) /\ ops' = Claimed(c, at, Expiry[p], "registered")
        BY <1>4, <2>1, <2>4 DEF Register
      <4> DEFINE new == [kind |-> calls[c].kind, claim |-> c, generation |-> calls[c].generation, revision |-> rev,
                         accepted |-> at, expires |-> Expiry[p], outcome |-> "registered"]
      <4>2. ops'[p][n] = new
        BY <2>1, <3>1, <4>1 DEF Claimed, TypeOK
      <4>3. new \in Operation
        <5>1. at \in Nat /\ Expiry[p] \in Nat
          BY CallsTyped, ConstantsFact DEF Clocks, Call
        <5>. QED BY <2>4, <5>1, CallsTyped DEF Operation, Register, Control
      <4>. HIDE DEF new
      <4>. QED BY <2>4, <4>2, <4>3, NoneAssumption
    <3>3. /\ ops'[p][n] # None /\ ops'[p][n].revision = rev /\ ops'[p][n].generation = calls[c].generation
      BY <2>1, <2>4, <3>2, ClaimsFact DEF Claims, IsClaim
    <3>4. n \notin Registered(p) /\ Registered(p)' = Registered(p) \cup {n}
          /\ \A o \in Registered(p) : ops'[p][o] = ops[p][o]
      BY <1>0, <1>2, <2>4, <3>1, <3>3
    <3>5. /\ Cardinality(Registered(p)) = rev - 1
          /\ {ops[p][o].revision : o \in Registered(p)} = 1 .. (rev - 1)
          /\ \A o \in Registered(p) : ops[p][o].generation = purposes[p].generation
      BY <2>4, <3>1 DEF Chain
    <3>6. Cardinality(Registered(p)') = rev
      <4>1. Cardinality(Registered(p) \cup {n}) = Cardinality(Registered(p)) + 1
        BY <1>1, <3>4, FS_AddElement
      <4>. QED BY <3>1, <3>4, <3>5, <4>1
    <3>7. {ops'[p][o].revision : o \in Registered(p)'} = 1 .. rev
      <4>1. {ops'[p][o].revision : o \in Registered(p)'} = {ops[p][o].revision : o \in Registered(p)} \cup {rev}
        BY <3>3, <3>4
      <4>2. (1 .. (rev - 1)) \cup {rev} = 1 .. rev
        BY <3>1
      <4>. QED BY <3>5, <4>1, <4>2
    <3>8. ASSUME NEW o \in Registered(p)' PROVE ops'[p][o].generation = calls[c].generation
      <4>1. CASE o = n
        BY <3>3, <4>1
      <4>2. CASE o \in Registered(p)
        <5>1. rev - 1 # 0
          <6>1. Registered(p) # {}
            BY <4>2
          <6>2. Cardinality(Registered(p)) # 0
            BY <1>1, <6>1, FS_EmptySet
          <6>. QED BY <3>5, <6>2
        <5>2. purposes[p].generation = calls[c].generation
          BY <2>1, <2>4, <3>1, <5>1 DEF MayRotate
        <5>. QED BY <3>4, <3>5, <4>2, <5>2
      <4>. QED BY <3>4, <4>1, <4>2
    <3>. QED BY <2>4, <3>6, <3>7, <3>8
  <2>. QED BY <2>1, <2>2, <2>3, <2>4 DEF Rewrites
<1>. QED BY <1>3, <1>4

-----------------------------------------------------------------------------
LEMMA InitIInv == Init => IInv
<1> SUFFICES ASSUME Init PROVE IInv
  OBVIOUS
<1>1. Idle \in Call
  BY ConstantsFact DEF Idle, Call
<1>2. TypeOK
  BY <1>1, ConstantsFact DEF Init, TypeOK
<1>3. \A c \in Calls : calls[c] = Idle
  BY DEF Init
<1>4. Shape
  <2>1. Control(Idle)
    BY DEF Control, Idle, WakeSteps
  <2>2. Found(Idle)
    BY DEF Init, Found, Idle, Admitted, WakeSteps
  <2>. QED BY <1>3, <2>1, <2>2 DEF Shape
<1>5. /\ \A p \in Purposes : purposes[p] = None
      /\ \A p \in Purposes, o \in Ops : ops[p][o] = None
  BY DEF Init
<1>6. Ledger
  <2>1. \A c \in Calls : calls[c].pc = "idle" /\ ~calls[c].sent
    BY <1>3 DEF Idle
  <2>2. \A c \in Calls : ClaimOf(c)
    BY <2>1 DEF ClaimOf, Holding, WakeSteps
  <2>. QED BY <1>5, <2>2 DEF Ledger, RowOf
<1>7. Apart
  BY <1>5 DEF Apart, CountedWakes, OpRows
<1>8. \A p \in Purposes : ~(purposes[p] # None)
  BY <1>5
<1>9. Issued
  BY <1>3 DEF Issued, Idle
<1>10. Chain
  BY <1>8 DEF Chain
<1>11. TokenForCause
  BY <1>8 DEF TokenForCause
<1>. QED BY <1>2, <1>4, <1>6, <1>7, <1>9, <1>10, <1>11 DEF IInv

\* What the clock has no part in.
Unmoved == Apart /\ Chain /\ Issued /\ TokenForCause
LEMMA UnmovedFact ==
  ASSUME Unmoved, UNCHANGED <<purposes, ops, calls>>
  PROVE  Unmoved'
<1>1. Apart'
  BY DEF Unmoved, Apart, CountedWakes, OpRows
<1>2. Chain'
  BY DEF Unmoved, Chain, Registered, OpRows
<1>3. Issued' /\ TokenForCause'
  BY DEF Unmoved, Issued, TokenForCause
<1>. QED BY <1>1, <1>2, <1>3 DEF Unmoved

\* Time passes, and nothing is younger than it was.
LEMMA TickStep ==
  ASSUME IInv, Tick
  PROVE  IInv'
<1>1. UNCHANGED <<purposes, ops, calls>> /\ now' = now + 1 /\ now < MaxTime /\ now \in 0 .. MaxTime /\ MaxTime \in Nat
  BY ConstantsFact DEF IInv, TypeOK, Tick
<1>2. TypeOK'
  BY <1>1 DEF IInv, TypeOK
<1>3. Shape'
  <2>1. \A c \in Calls : calls[c].clock \in Nat /\ calls[c].captured \in Nat
    BY DEF IInv, TypeOK, Call
  <2>. QED BY <1>1, <2>1 DEF IInv, Shape, Found, Control
<1>4. Ledger'
  BY <1>1 DEF IInv, Ledger, ClaimOf, RowOf, Owns
<1>5. Unmoved'
  BY <1>1, UnmovedFact DEF IInv, Unmoved
<1>. QED BY <1>2, <1>3, <1>4, <1>5 DEF IInv, Unmoved

LEMMA NextIInv == IInv /\ [Next]_vars => IInv'
<1> SUFFICES ASSUME IInv, [Next]_vars PROVE IInv'
  OBVIOUS
<1>1. CASE UNCHANGED vars
  <2>1. TypeOK' /\ Shape' /\ Ledger'
    BY <1>1 DEF vars, IInv, TypeOK, Shape, Found, Control, Ledger, ClaimOf, RowOf, Owns
  <2>2. Unmoved'
    BY <1>1, UnmovedFact DEF vars, IInv, Unmoved
  <2>. QED BY <2>1, <2>2 DEF IInv, Unmoved
<1>2. CASE Tick
  BY <1>2, TickStep
<1>3. ASSUME NEW c \in Calls, Arrive(c) \/ Acts(c) PROVE IInv'
  <2>1. TypeOK' /\ Shape'
    BY <1>3, StepFact, ShapeStep DEF IInv
  <2>2. Ledger' /\ Apart' /\ Chain' /\ Issued' /\ TokenForCause'
    BY <1>3, LedgerStep, ApartStep, ChainStep, IssuedStep, CauseStep DEF IInv
  <2>. QED BY <2>1, <2>2 DEF IInv
<1>4. Next => Tick \/ \E c \in Calls : Arrive(c) \/ Acts(c)
  BY Zenon DEF Next, Acts
<1>. QED BY <1>1, <1>2, <1>3, <1>4

-----------------------------------------------------------------------------
\* The row of a wake names the one call that sent it.
LEMMA SentFact ==
  ASSUME IInv, NEW c \in Calls, calls[c].sent
  PROVE  LET row == ops[calls[c].purpose][calls[c].op]
         IN /\ calls[c].purpose \in Purposes /\ calls[c].op \in Ops
            /\ row # None /\ row \in Operation /\ row.claim = c /\ row.kind = "wake"
            /\ row.outcome \in Counted \ {"reserved", "not_sent"}
            /\ row.accepted <= calls[c].clock /\ calls[c].clock < row.accepted + Window
            /\ calls[c].op \in CountedWakes(calls[c].purpose)
<1>1. calls[c].purpose \in Purposes /\ calls[c].op \in Ops
  BY CallsTyped DEF IInv, Control
<1>2. ClaimOf(c)
  BY DEF IInv, Ledger
<1>. QED BY <1>1, <1>2 DEF ClaimOf, Owns, IInv, TypeOK, CountedWakes, OpRows

LEMMA IInvTruthful == IInv => Truthful
<1> SUFFICES ASSUME IInv PROVE Truthful
  OBVIOUS
<1>1. ASSUME NEW c \in Sent
      PROVE  /\ ops[calls[c].purpose][calls[c].op] # None
             /\ ops[calls[c].purpose][calls[c].op].outcome \in Counted \ {"reserved", "not_sent"}
             /\ SentFor(calls[c].purpose, calls[c].op) = {c}
  <2>1. c \in Calls /\ calls[c].sent
    BY DEF Sent
  <2>2. \A d \in SentFor(calls[c].purpose, calls[c].op) : d = c
    BY <2>1, SentFact DEF SentFor, Sent
  <2>3. c \in SentFor(calls[c].purpose, calls[c].op)
    BY DEF SentFor
  <2>. QED BY <2>1, <2>2, <2>3, SentFact
<1>2. ASSUME NEW p \in Purposes, NEW o \in Ops, ops[p][o] # None, ops[p][o].outcome = "provider_accepted"
      PROVE  \E c \in SentFor(p, o) : calls[c].answer = "accepted"
  <2>1. RowOf(p, o)
    BY DEF IInv, Ledger
  <2>2. ops[p][o].claim \in Calls
    BY <1>2 DEF IInv, TypeOK, Operation
  <2>3. ops[p][o].claim \in SentFor(p, o) /\ calls[ops[p][o].claim].answer = "accepted"
    BY <1>2, <2>1, <2>2 DEF RowOf, SentFor, Sent
  <2>. QED BY <2>3
<1>. QED BY <1>1, <1>2 DEF Truthful

LEMMA IInvSpacing == IInv => Spacing
<1> SUFFICES ASSUME IInv PROVE Spacing
  OBVIOUS
<1>1. ASSUME NEW a \in Sent, NEW b \in Sent, NEW c \in Sent, Cardinality({a, b, c}) = 3,
             \A x, y \in {a, b, c} : HostOf[calls[x].purpose] = HostOf[calls[y].purpose],
             calls[a].clock <= calls[b].clock, calls[b].clock <= calls[c].clock
      PROVE  calls[c].clock - calls[a].clock > Window
  <2> DEFINE At(x) == ops[calls[x].purpose][calls[x].op].accepted
  <2>1. a # b /\ b # c /\ a # c
    <3>1. \A x, y : Cardinality({x, y}) \in {1, 2}
      <4> SUFFICES ASSUME NEW x, NEW y PROVE Cardinality({x, y}) \in {1, 2}
        OBVIOUS
      <4>1. Cardinality({x}) = 1 /\ IsFiniteSet({x})
        BY FS_Singleton
      <4>2. Cardinality({x} \cup {y}) = IF y \in {x} THEN Cardinality({x}) ELSE Cardinality({x}) + 1
        BY <4>1, FS_AddElement
      <4>3. {x} \cup {y} = {x, y}
        OBVIOUS
      <4>. QED BY <4>1, <4>2, <4>3
    <3>2. /\ a = b => {a, b, c} = {a, c}
          /\ b = c => {a, b, c} = {a, b}
          /\ a = c => {a, b, c} = {a, b}
      <4>1. a = b => \A x : x \in {a, b, c} <=> x \in {a, c}
        OBVIOUS
      <4>2. b = c => \A x : x \in {a, b, c} <=> x \in {a, b}
        OBVIOUS
      <4>3. a = c => \A x : x \in {a, b, c} <=> x \in {a, b}
        OBVIOUS
      <4>. QED BY <4>1, <4>2, <4>3, Zenon
    <3>3. \A x, y : Cardinality({x, y}) # 3
      BY <3>1
    <3>. QED BY <1>1, <3>2, <3>3, Zenon
  <2>2. \A x \in {a, b, c} :
          /\ x \in Calls /\ calls[x].purpose \in Purposes /\ calls[x].op \in CountedWakes(calls[x].purpose)
          /\ ops[calls[x].purpose][calls[x].op].claim = x
          /\ At(x) \in Nat /\ calls[x].clock \in Nat /\ At(x) <= calls[x].clock /\ calls[x].clock < At(x) + Window
    <3>1. \A x \in {a, b, c} : x \in Calls /\ calls[x].sent
      BY DEF Sent
    <3>. QED BY <3>1, SentFact DEF IInv, TypeOK, Call, Operation
  <2>3. \A x, y \in {a, b, c} : x # y => At(x) - At(y) >= Window \/ At(y) - At(x) >= Window
    <3> SUFFICES ASSUME NEW x \in {a, b, c}, NEW y \in {a, b, c}, x # y
                 PROVE  At(x) - At(y) >= Window \/ At(y) - At(x) >= Window
      OBVIOUS
    <3>1. <<calls[x].purpose, calls[x].op>> # <<calls[y].purpose, calls[y].op>>
      BY <2>2
    <3>2. HostOf[calls[x].purpose] = HostOf[calls[y].purpose]
      BY <1>1
    <3>. QED BY <2>2, <3>1, <3>2 DEF IInv, Apart
  <2>4. Window \in Nat
    BY ConstantsFact
  <2>. HIDE DEF At
  <2>5. At(c) >= At(a) + Window + Window
    BY <1>1, <2>1, <2>2, <2>3, <2>4
  <2>. QED BY <2>1, <2>2, <2>4, <2>5
<1>2. Apart
  BY DEF IInv
<1>. QED BY <1>1, <1>2 DEF Spacing, Apart

LEMMA IInvOneLine == IInv => OneLine
<1> SUFFICES ASSUME IInv PROVE OneLine
  OBVIOUS
<1>1. ASSUME NEW p \in Purposes
      PROVE  Cardinality({c \in Calls : calls[c].pc = "issued" /\ calls[c].purpose = p}) <= 1
  <2> DEFINE S == {c \in Calls : calls[c].pc = "issued" /\ calls[c].purpose = p}
  <2>1. \A c, d \in S : c = d
    BY DEF IInv, Issued
  <2>. HIDE DEF S
  <2>2. S = {} \/ \E c : S = {c}
    BY <2>1
  <2>3. Cardinality({}) = 0 /\ \A c : Cardinality({c}) = 1
    BY FS_EmptySet, FS_Singleton
  <2>4. Cardinality(S) \in {0, 1}
    BY <2>2, <2>3
  <2>. QED BY <2>4 DEF S
<1>. QED BY <1>1 DEF IInv, OneLine, RevisionChain, Chain, Registered

LEMMA Invariant == Spec => []IInv
BY InitIInv, NextIInv, PTL DEF Spec

-----------------------------------------------------------------------------
\* The tables, the requests and the clock keep their types.
THEOREM TypeCorrect == Spec => []TypeOK
BY Invariant, PTL DEF IInv

\* A wake is sent at most once, and its row never denies what was sent nor says
\* "accepted" of what was not, whatever breaks the request off.
THEOREM WakesAreTruthful == Spec => []Truthful
BY Invariant, IInvTruthful, PTL

\* The wakes of a host are accepted a window apart, whichever purposes ask, and
\* no three of them are sent within one window.
THEOREM WakesAreSpaced == Spec => []Spacing
BY Invariant, IInvSpacing, PTL

\* The registrations of a purpose are its revisions, in one generation, its
\* credential is answered once, and its token goes only for a cause.
THEOREM TokenHasOneLine == Spec => []OneLine
BY Invariant, IInvOneLine, PTL
=============================================================================
