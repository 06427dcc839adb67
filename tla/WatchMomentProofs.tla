------------------------- MODULE WatchMomentProofs -------------------------
(***************************************************************************)
(* Proofs about WatchMoment: types and leases are inductive together, and  *)
(* a lease makes the provider see at most one request that counts.  On     *)
(* that invariant rest, in turn, what rows, requests and receipts say of   *)
(* each other, the count of the requests and with it the refinement of     *)
(* MomentDelivery, and the bounds of what is reserved.                     *)
(***************************************************************************)
EXTENDS WatchMoment, FiniteSetTheorems, TLAPS

USE CapacityAssumption, EventAssumption, BoundAssumption, NoRowAssumption

\* The inductive invariant.
IInv == TypeOK /\ LeaseInv

EnvOK == /\ reg \in [Recipients -> Registration]
         /\ now \in 0..MaxTime /\ regress \in 0..MaxRegress

Key(w) == OperationOf[inv[w].event]

\* What an invocation never changes of itself.
Same(i, j) == i.action = j.action /\ i.event = j.event /\ i.reg = j.reg

-----------------------------------------------------------------------------
\* Steps that leave the rows and the requests alone.

LEMMA PrivateStep ==
  ASSUME IInv, NEW w \in Workers, UNCHANGED <<ops, flight>>, EnvOK',
         inv' \in [Workers -> Invocation \cup {Idle}], LeaseHeld(w)',
         \A v \in Workers \ {w} : inv'[v] = inv[v]
  PROVE  IInv'
<1>1. TypeOK'
  BY DEF IInv, TypeOK, EnvOK
<1>2. RowsKeyed'
  BY DEF IInv, LeaseInv, RowsKeyed, Rows
<1>3. ASSUME NEW v \in Workers PROVE LeaseHeld(v)'
  <2>1. CASE v = w  BY <2>1
  <2>2. CASE v # w
    BY <2>2 DEF IInv, LeaseInv, LeaseHeld, Rows
  <2>. QED BY <2>1, <2>2
<1>. QED BY <1>1, <1>2, <1>3 DEF IInv, LeaseInv

\* A step of an invocation w that also writes the row k.
LEMMA RowStep ==
  ASSUME IInv, NEW w \in Workers, NEW k \in Operations, UNCHANGED flight, EnvOK',
         inv' \in [Workers -> Invocation \cup {Idle}], LeaseHeld(w)',
         \A v \in Workers \ {w} : inv'[v] = inv[v],
         ops' \in [Operations -> Operation \cup {NoRow}],
         \A j \in Operations \ {k} : ops'[j] = ops[j],
         ops'[k] # NoRow, OperationOf[ops'[k].event] = k,
         \A v \in Workers \ {w} : k \in Rows /\ ops[k].lease = v =>
           \/ ops[k].state \in {"reserved", "retryable"}
           \/ ops'[k].lease = v /\ ops'[k].state = ops[k].state
  PROVE  IInv'
<1>1. TypeOK'
  BY DEF IInv, TypeOK, EnvOK
<1>2. RowsKeyed'
  BY DEF IInv, LeaseInv, RowsKeyed, Rows
<1>3. ASSUME NEW v \in Workers PROVE LeaseHeld(v)'
  <2>1. CASE v = w  BY <2>1
  <2>2. CASE v # w
    <3>1. inv'[v] = inv[v] /\ flight'[v] = flight[v] /\ LeaseHeld(v)
      BY <2>2 DEF IInv, LeaseInv
    <3>2. CASE inv[v] = Idle
      BY <3>1, <3>2 DEF LeaseHeld
    <3>3. CASE inv[v] # Idle
      <4>1. inv[v] \in Invocation /\ Key(v) \in Operations
        BY <3>3 DEF IInv, TypeOK, Invocation, Key
      <4>2. Key(v) \in Rows => Key(v) \in Rows'
        BY <4>1 DEF Rows
      <4>3. CASE Key(v) # k
        <5>1. ops'[Key(v)] = ops[Key(v)] BY <4>1, <4>3
        <5>. QED BY <5>1, <4>2, <3>1, <3>3 DEF LeaseHeld, Key
      <4>4. CASE Key(v) = k
        BY <4>4, <4>2, <3>1, <3>3, <2>2 DEF LeaseHeld, Key, Unrepeatable
      <4>. QED BY <4>3, <4>4
    <3>. QED BY <3>2, <3>3
  <2>. QED BY <2>1, <2>2
<1>. QED BY <1>1, <1>2, <1>3 DEF IInv, LeaseInv

-----------------------------------------------------------------------------
\* What each way of going on does to the invocation, and to no other.

LEMMA AliveIsInvocation ==
  ASSUME TypeOK, NEW w \in Workers, inv[w].pc # "idle"
  PROVE  inv[w] \in Invocation /\ inv[w] # Idle /\ Key(w) \in Operations
BY DEF TypeOK, Invocation, Idle, Key

LEMMA InvocationNotIdle ==
  ASSUME NEW i \in Invocation
  PROVE  i # Idle
BY DEF Invocation, Idle

LEMMA GotoFact ==
  ASSUME TypeOK, NEW w \in Workers, inv[w] \in Invocation, NEW pc,
         [inv[w] EXCEPT !.pc = pc] \in Invocation, Goto(w, pc)
  PROVE  /\ inv' \in [Workers -> Invocation \cup {Idle}]
         /\ \A v \in Workers \ {w} : inv'[v] = inv[v]
         /\ inv'[w] \in Invocation /\ Same(inv'[w], inv[w])
         /\ inv'[w].pc = pc /\ inv'[w].row = inv[w].row
         /\ inv'[w].set = inv[w].set
<1> DEFINE r == [inv[w] EXCEPT !.pc = pc, !.at = now]
<1>1. inv' = [inv EXCEPT ![w] = r]
  BY DEF Goto
<1>2. r \in Invocation /\ Same(r, inv[w]) /\ r.pc = pc /\ r.row = inv[w].row
      /\ r.set = inv[w].set
  BY DEF TypeOK, Invocation, Same
<1>. HIDE DEF r
<1>. QED BY <1>1, <1>2 DEF TypeOK

Outs == States \cup {"none", "refused", "capacity"}

LEMMA LeaveFact ==
  ASSUME TypeOK, NEW w \in Workers, inv[w] \in Invocation,
         NEW pc \in {"done", "crashed"}, NEW out \in Outs, Leave(w, pc, out)
  PROVE  /\ inv' \in [Workers -> Invocation \cup {Idle}]
         /\ \A v \in Workers \ {w} : inv'[v] = inv[v]
         /\ inv'[w] \in Invocation /\ Same(inv'[w], inv[w]) /\ inv'[w].pc = pc
<1> DEFINE r == [inv[w] EXCEPT !.pc = pc, !.out = out, !.at = 0,
            !.row = NoRow, !.set = "unknown", !.next = 0, !.gone = FALSE,
            !.caught = FALSE]
<1>1. inv' = [inv EXCEPT ![w] = r]
  BY DEF Leave
<1>2. r \in Invocation
  <2>1. 0 \in 0..MaxTime /\ 0 \in Nat /\ "unknown" \in States
    BY DEF States
  <2>. QED BY <2>1 DEF Invocation, Outs
<1>3. Same(r, inv[w]) /\ r.pc = pc
  BY DEF Invocation, Same
<1>. HIDE DEF r
<1>. QED BY <1>1, <1>2, <1>3 DEF TypeOK

LEMMA ToUnknownFact ==
  ASSUME TypeOK, NEW w \in Workers, inv[w] \in Invocation, ToUnknown(w)
  PROVE  /\ inv' \in [Workers -> Invocation \cup {Idle}]
         /\ \A v \in Workers \ {w} : inv'[v] = inv[v]
         /\ inv'[w] \in Invocation /\ Same(inv'[w], inv[w])
         /\ inv'[w].pc = "finish" /\ inv'[w].set = "unknown"
         /\ inv'[w].row = inv[w].row
<1> DEFINE r == [inv[w] EXCEPT !.pc = "finish", !.set = "unknown", !.next = 0,
                               !.gone = FALSE, !.caught = TRUE]
<1>1. inv' = [inv EXCEPT ![w] = r]
  BY DEF ToUnknown
<1>2. r \in Invocation
  <2>1. "unknown" \in States /\ 0 \in Nat
    BY DEF States
  <2>. QED BY <2>1 DEF Invocation
<1>3. Same(r, inv[w]) /\ r.pc = "finish" /\ r.set = "unknown" /\ r.row = inv[w].row
  BY DEF Invocation, Same
<1>. HIDE DEF r
<1>. QED BY <1>1, <1>2, <1>3 DEF TypeOK

-----------------------------------------------------------------------------
\* The steps built from them.

LEMMA LeaveStep ==
  ASSUME IInv, NEW w \in Workers, inv[w] \in Invocation,
         NEW pc \in {"done", "crashed"}, NEW out \in Outs, Leave(w, pc, out),
         UNCHANGED <<ops, flight>>, EnvOK'
  PROVE  IInv'
<1>1. TypeOK /\ LeaseHeld(w) /\ inv[w] # Idle
  BY InvocationNotIdle DEF IInv, LeaseInv
<1>2. /\ inv' \in [Workers -> Invocation \cup {Idle}]
      /\ \A v \in Workers \ {w} : inv'[v] = inv[v]
      /\ inv'[w] \in Invocation /\ Same(inv'[w], inv[w]) /\ inv'[w].pc = pc
  BY <1>1, LeaveFact
<1>3. inv'[w] # Idle
  BY <1>2, InvocationNotIdle
<1>4. LeaseHeld(w)'
  BY <1>1, <1>2, <1>3 DEF LeaseHeld, Same, Rows
<1>. QED BY <1>2, <1>4, PrivateStep

LEMMA ToUnknownStep ==
  ASSUME IInv, NEW w \in Workers, inv[w] \in Invocation, InTry(w), ToUnknown(w),
         UNCHANGED <<ops, flight>>, EnvOK'
  PROVE  IInv'
<1>1. TypeOK /\ LeaseHeld(w) /\ inv[w] # Idle
  BY InvocationNotIdle DEF IInv, LeaseInv
<1>2. /\ inv' \in [Workers -> Invocation \cup {Idle}]
      /\ \A v \in Workers \ {w} : inv'[v] = inv[v]
      /\ inv'[w] \in Invocation /\ Same(inv'[w], inv[w])
      /\ inv'[w].pc = "finish" /\ inv'[w].set = "unknown"
      /\ inv'[w].row = inv[w].row
  BY <1>1, ToUnknownFact
<1>3. inv'[w] # Idle
  BY <1>2, InvocationNotIdle
<1>4. LeaseHeld(w)'
  BY <1>1, <1>2, <1>3 DEF LeaseHeld, Same, Rows, InTry, InProgress
<1>. QED BY <1>2, <1>4, PrivateStep

LEMMA ThrowStep ==
  ASSUME IInv, NEW w \in Workers, inv[w] \in Invocation, Throw(w),
         UNCHANGED <<ops, flight>>, EnvOK'
  PROVE  IInv'
<1>1. "refused" \in Outs BY DEF Outs
<1>. QED BY <1>1, LeaveStep, ToUnknownStep DEF Throw, Return

Pcs == {"current", "lookup", "reserve", "reread", "retry", "reget", "build",
        "mark", "check", "fetch", "await", "finish", "invalidate", "receipt",
        "cancel", "done", "crashed"}

\* What LeaseHeld asks of an invocation that goes on at pc.
Fits(w, pc) ==
  /\ flight[w] # "none" => pc \in {"await", "finish", "invalidate", "receipt"}
  /\ \/ pc \in {"retry", "reget", "build", "mark", "check", "fetch", "await",
                 "finish", "invalidate"}
     \/ pc = "receipt" /\ inv[w].action = "dispatch"
     => Key(w) \in Rows /\ inv[w].row \in Operation
  /\ pc = "cancel" => inv[w].action = "cancel"
  /\ pc \in {"check", "fetch", "await"} =>
       ops[Key(w)].lease = w /\ ops[Key(w)].state = "dispatching"

LEMMA GotoStep ==
  ASSUME IInv, NEW w \in Workers, inv[w] \in Invocation,
         NEW pc \in Pcs \ {"finish"}, Fits(w, pc), Goto(w, pc),
         UNCHANGED <<ops, flight>>, EnvOK'
  PROVE  IInv'
<1>1. TypeOK /\ LeaseHeld(w) /\ inv[w] # Idle
  BY InvocationNotIdle DEF IInv, LeaseInv
<1>2. [inv[w] EXCEPT !.pc = pc] \in Invocation
  BY DEF Invocation, Pcs
<1>3. /\ inv' \in [Workers -> Invocation \cup {Idle}]
      /\ \A v \in Workers \ {w} : inv'[v] = inv[v]
      /\ inv'[w] \in Invocation /\ Same(inv'[w], inv[w])
      /\ inv'[w].pc = pc /\ inv'[w].row = inv[w].row
  BY <1>1, <1>2, GotoFact
<1>4. inv'[w] # Idle
  BY <1>3, InvocationNotIdle
<1>5. LeaseHeld(w)'
  BY <1>1, <1>3, <1>4 DEF LeaseHeld, Fits, Key, Same, Rows
<1>. QED BY <1>3, <1>5, PrivateStep

LEMMA LookupFact ==
  ASSUME IInv, NEW e \in Events
  PROVE  /\ Lookup(e) \in Operation \cup {NoRow}
         /\ Lookup(e) = NoRow => ops[OperationOf[e]] = NoRow
         /\ Lookup(e) # NoRow /\ Lookup(e).event = e => OperationOf[e] \in Rows
<1>. DEFINE same == {k \in Rows : PublicationOf[ops[k].event] = PublicationOf[e]}
<1>1. OperationOf[e] \in Operations
  OBVIOUS
<1>2. CASE ops[OperationOf[e]] # NoRow
  BY <1>1, <1>2 DEF IInv, TypeOK, Lookup, Rows
<1>3. CASE ops[OperationOf[e]] = NoRow /\ same = {}
  BY <1>3 DEF Lookup
<1>4. CASE ops[OperationOf[e]] = NoRow /\ same # {}
  <2>1. PICK k \in Rows : Lookup(e) = ops[k]
    BY <1>4 DEF Lookup
  <2>. QED BY <2>1, <1>4 DEF IInv, TypeOK, LeaseInv, RowsKeyed, Rows
<1>. QED BY <1>2, <1>3, <1>4

\* dispatch with the row it has read.
LEMMA DecideStep ==
  ASSUME IInv, NEW w \in Workers, inv[w] \in Invocation, flight[w] = "none",
         NEW row \in Operation, NEW mayRetry \in BOOLEAN,
         row.event = inv[w].event => Key(w) \in Rows,
         Decide(w, row, mayRetry), UNCHANGED <<ops, flight>>, EnvOK'
  PROVE  IInv'
<1>. DEFINE become(pc) == inv' = [inv EXCEPT ![w].pc = pc, ![w].at = now, ![w].row = row]
<1>1. \/ Throw(w)
      \/ \E out \in Outs : Return(w, out)
      \/ \E pc \in {"retry", "build"} : become(pc) /\ row.event = inv[w].event
  BY DEF Decide, Own, Outs, States, Operation
<1>2. CASE \E pc \in {"retry", "build"} : become(pc) /\ row.event = inv[w].event
  <2>1. PICK pc \in {"retry", "build"} : become(pc) /\ row.event = inv[w].event
    BY <1>2
  <2>. DEFINE r == [inv[w] EXCEPT !.pc = pc, !.at = now, !.row = row]
  <2>2. inv' = [inv EXCEPT ![w] = r]
    BY <2>1
  <2>3. r \in Invocation /\ r.pc = pc /\ r.row = row /\ r.event = inv[w].event
    BY DEF IInv, TypeOK, Invocation
  <2>4. r # Idle
    BY <2>3, InvocationNotIdle
  <2>5. inv'[w] = r /\ inv' \in [Workers -> Invocation \cup {Idle}]
    BY <2>2, <2>3 DEF IInv, TypeOK
  <2>6. LeaseHeld(w)'
    BY <2>1, <2>3, <2>4, <2>5 DEF LeaseHeld, Key, Rows, Unrepeatable
  <2>. HIDE DEF r
  <2>. QED BY <2>2, <2>5, <2>6, PrivateStep DEF IInv, TypeOK
<1>. QED BY <1>1, <1>2, ThrowStep, LeaveStep DEF Return

-----------------------------------------------------------------------------
\* One lemma per action.

LEMMA AdmitStep ==
  ASSUME IInv, NEW w \in Workers, NEW e \in Events,
         NEW action \in {"dispatch", "cancel"}, Admit(w, e, action)
  PROVE  IInv'
<1>1. TypeOK /\ LeaseHeld(w) /\ inv[w] = Idle /\ flight[w] = "none"
  BY DEF IInv, LeaseInv, LeaseHeld, Admit
<1>2. PICK deadline \in Deadlines :
       inv' = [inv EXCEPT ![w] =
         [pc |-> IF action = "dispatch" THEN "current" ELSE "lookup",
          action |-> action, event |-> e, reg |-> reg[RecipientOf[e]],
          deadline |-> deadline, at |-> now, row |-> NoRow, set |-> "unknown",
          next |-> 0, gone |-> FALSE, caught |-> FALSE, out |-> "none"]]
  BY DEF Admit
<1>3. /\ inv'[w] \in Invocation /\ inv'[w].pc \in {"current", "lookup"}
      /\ inv' \in [Workers -> Invocation \cup {Idle}]
  BY <1>1, <1>2 DEF TypeOK, Invocation, States
<1>4. inv'[w] # Idle
  BY <1>3, InvocationNotIdle
<1>5. LeaseHeld(w)'
  BY <1>1, <1>3, <1>4 DEF LeaseHeld, Admit, Unrepeatable
<1>. QED BY <1>1, <1>2, <1>3, <1>5, PrivateStep DEF Admit, TypeOK, EnvOK

LEMMA CheckCurrentStep ==
  ASSUME IInv, NEW w \in Workers, CheckCurrent(w)
  PROVE  IInv'
<1>1. /\ inv[w] \in Invocation /\ inv[w] # Idle /\ Key(w) \in Operations
      /\ LeaseHeld(w) /\ TypeOK
  BY AliveIsInvocation DEF IInv, LeaseInv, CheckCurrent
<1>2. Fits(w, "lookup") /\ EnvOK'
  BY <1>1 DEF Fits, CheckCurrent, LeaseHeld, TypeOK, EnvOK
<1>. QED BY <1>1, <1>2, GotoStep, ThrowStep DEF CheckCurrent, Pcs

LEMMA LookupDispatchStep ==
  ASSUME IInv, NEW w \in Workers, LookupDispatch(w)
  PROVE  IInv'
<1>1. /\ inv[w] \in Invocation /\ inv[w] # Idle /\ Key(w) \in Operations
      /\ LeaseHeld(w) /\ TypeOK
  BY AliveIsInvocation DEF IInv, LeaseInv, LookupDispatch
<1>2. flight[w] = "none" /\ EnvOK' /\ Fits(w, "reserve")
  BY <1>1 DEF LookupDispatch, LeaseHeld, TypeOK, EnvOK, Fits
<1>3. CASE Lookup(inv[w].event) # NoRow
  <2>1. inv[w].event \in Events
    BY <1>1 DEF Invocation
  <2>2. Decide(w, Lookup(inv[w].event), TRUE)
    BY <1>3 DEF LookupDispatch
  <2>. QED BY <2>1, <2>2, <1>1, <1>2, <1>3, LookupFact, DecideStep DEF LookupDispatch, Key
<1>4. CASE Lookup(inv[w].event) = NoRow
  BY <1>1, <1>2, <1>4, GotoStep, ThrowStep, LeaveStep DEF LookupDispatch, Pcs, Return, Outs
<1>. QED BY <1>3, <1>4

LEMMA RereadDispatchStep ==
  ASSUME IInv, NEW w \in Workers, RereadDispatch(w)
  PROVE  IInv'
<1>1. /\ inv[w] \in Invocation /\ inv[w] # Idle /\ Key(w) \in Operations
      /\ LeaseHeld(w) /\ TypeOK
  BY AliveIsInvocation DEF IInv, LeaseInv, RereadDispatch
<1>2. flight[w] = "none" /\ EnvOK' /\ Fits(w, "reserve")
  BY <1>1 DEF RereadDispatch, LeaseHeld, TypeOK, EnvOK, Fits
<1>3. CASE Lookup(inv[w].event) # NoRow
  <2>1. inv[w].event \in Events
    BY <1>1 DEF Invocation
  <2>2. Decide(w, Lookup(inv[w].event), TRUE)
    BY <1>3 DEF RereadDispatch
  <2>. QED BY <2>1, <2>2, <1>1, <1>2, <1>3, LookupFact, DecideStep DEF RereadDispatch, Key
<1>4. CASE Lookup(inv[w].event) = NoRow
  BY <1>1, <1>2, <1>4, GotoStep, ThrowStep, LeaveStep DEF RereadDispatch, Pcs, Return, Outs
<1>. QED BY <1>3, <1>4

LEMMA LookupCancelStep ==
  ASSUME IInv, NEW w \in Workers, LookupCancel(w)
  PROVE  IInv'
<1>1. /\ inv[w] \in Invocation /\ inv[w] # Idle /\ Key(w) \in Operations
      /\ LeaseHeld(w) /\ TypeOK
  BY AliveIsInvocation DEF IInv, LeaseInv, LookupCancel
<1>2. Fits(w, "reserve") /\ Fits(w, "cancel") /\ EnvOK'
  BY <1>1 DEF Fits, LookupCancel, LeaseHeld, TypeOK, EnvOK
<1>. QED BY <1>1, <1>2, GotoStep, ThrowStep DEF LookupCancel, Pcs

LEMMA RereadCancelStep ==
  ASSUME IInv, NEW w \in Workers, RereadCancel(w)
  PROVE  IInv'
<1>1. /\ inv[w] \in Invocation /\ inv[w] # Idle /\ Key(w) \in Operations
      /\ LeaseHeld(w) /\ TypeOK
  BY AliveIsInvocation DEF IInv, LeaseInv, RereadCancel
<1>2. Fits(w, "reserve") /\ Fits(w, "cancel") /\ EnvOK'
  BY <1>1 DEF Fits, RereadCancel, LeaseHeld, TypeOK, EnvOK
<1>. QED BY <1>1, <1>2, GotoStep, ThrowStep DEF RereadCancel, Pcs

LEMMA RegetStep ==
  ASSUME IInv, NEW w \in Workers, Reget(w)
  PROVE  IInv'
<1>1. /\ inv[w] \in Invocation /\ inv[w] # Idle /\ Key(w) \in Operations
      /\ LeaseHeld(w) /\ TypeOK
  BY AliveIsInvocation DEF IInv, LeaseInv, Reget
<1>2. /\ flight[w] = "none" /\ EnvOK' /\ Key(w) \in Rows
      /\ ops[Key(w)] \in Operation
  BY <1>1 DEF Reget, LeaseHeld, TypeOK, EnvOK, Key, Rows
<1>. QED BY <1>1, <1>2, DecideStep DEF Reget, Key

LEMMA BuildNotificationStep ==
  ASSUME IInv, NEW w \in Workers, BuildNotification(w)
  PROVE  IInv'
<1>1. /\ inv[w] \in Invocation /\ inv[w] # Idle /\ Key(w) \in Operations
      /\ LeaseHeld(w) /\ TypeOK
  BY AliveIsInvocation DEF IInv, LeaseInv, BuildNotification
<1>2. Fits(w, "mark") /\ EnvOK'
  BY <1>1 DEF Fits, BuildNotification, LeaseHeld, TypeOK, EnvOK, Key
<1>. QED BY <1>1, <1>2, GotoStep, ThrowStep DEF BuildNotification, Pcs

LEMMA CanDispatchStep ==
  ASSUME IInv, NEW w \in Workers, CanDispatch(w)
  PROVE  IInv'
<1>1. /\ inv[w] \in Invocation /\ inv[w] # Idle /\ Key(w) \in Operations
      /\ LeaseHeld(w) /\ TypeOK
  BY AliveIsInvocation DEF IInv, LeaseInv, CanDispatch
<1>2. EnvOK'
  BY <1>1 DEF CanDispatch, TypeOK, EnvOK
<1>3. CASE inv' = [inv EXCEPT ![w].pc = "fetch"]
  <2>. DEFINE r == [inv[w] EXCEPT !.pc = "fetch"]
  <2>1. r \in Invocation /\ Same(r, inv[w]) /\ r.pc = "fetch" /\ r.row = inv[w].row
    BY <1>1 DEF Invocation, Same
  <2>2. inv'[w] = r /\ inv' \in [Workers -> Invocation \cup {Idle}]
    BY <1>1, <1>3, <2>1 DEF TypeOK
  <2>3. r # Idle
    BY <2>1, InvocationNotIdle
  <2>4. LeaseHeld(w)'
    BY <1>1, <2>1, <2>2, <2>3 DEF CanDispatch, LeaseHeld, Same, Rows
  <2>. QED BY <1>1, <1>2, <1>3, <2>2, <2>4, PrivateStep DEF CanDispatch, TypeOK
<1>. QED BY <1>1, <1>2, <1>3, ThrowStep DEF CanDispatch

LEMMA TokenUnreadableStep ==
  ASSUME IInv, NEW w \in Workers, TokenUnreadable(w)
  PROVE  IInv'
<1>1. /\ inv[w] \in Invocation /\ inv[w] # Idle /\ Key(w) \in Operations
      /\ LeaseHeld(w) /\ TypeOK
  BY AliveIsInvocation DEF IInv, LeaseInv, TokenUnreadable
<1>2. EnvOK'
  BY <1>1 DEF TokenUnreadable, TypeOK, EnvOK
<1>3. CASE ClockOk(w)
  <2>. DEFINE r == [inv[w] EXCEPT !.pc = "finish", !.at = now,
                      !.set = "unknown", !.next = now + inv[w].row.attempts]
  <2>1. inv' = [inv EXCEPT ![w] = r]
    BY <1>3 DEF TokenUnreadable
  <2>2. now \in 0..MaxTime /\ inv[w].row.attempts \in 1..3
    BY <1>1 DEF TokenUnreadable, LeaseHeld, Operation, TypeOK, MaxAttempts
  <2>3. now + inv[w].row.attempts \in Nat /\ "unknown" \in States
    BY <2>2 DEF States
  <2>4. r \in Invocation /\ Same(r, inv[w]) /\ r.pc = "finish"
        /\ r.set = "unknown" /\ r.row = inv[w].row
    BY <1>1, <2>2, <2>3 DEF Invocation, Same
  <2>5. inv'[w] = r /\ inv' \in [Workers -> Invocation \cup {Idle}] /\ r # Idle
    BY <1>1, <2>1, <2>4, InvocationNotIdle DEF TypeOK
  <2>6. LeaseHeld(w)'
    BY <1>1, <2>4, <2>5 DEF TokenUnreadable, LeaseHeld, Same, Rows, InProgress
  <2>. QED BY <1>1, <1>2, <2>1, <2>5, <2>6, PrivateStep DEF TokenUnreadable, TypeOK
<1>. QED BY <1>1, <1>2, <1>3, ThrowStep DEF TokenUnreadable

LEMMA SettleStep ==
  ASSUME IInv, NEW w \in Workers, Settle(w)
  PROVE  IInv'
<1>1. /\ inv[w] \in Invocation /\ inv[w] # Idle /\ Key(w) \in Operations
      /\ LeaseHeld(w) /\ TypeOK
  BY AliveIsInvocation DEF IInv, LeaseInv, Settle
<1>2. EnvOK'
  BY <1>1 DEF Settle, TypeOK, EnvOK
<1>3. CASE ClockOk(w)
  <2>1. PICK retryAfter \in RetryAfters :
         LET delay == Max2(inv[w].row.attempts, retryAfter)
             again == /\ flight[w] = "busy" /\ inv[w].row.attempts < MaxAttempts
                      /\ now + delay < Min2(inv[w].row.expires, inv[w].deadline)
         IN inv' = [inv EXCEPT
                ![w].pc = "finish", ![w].at = now,
                ![w].set = IF flight[w] = "accepted" THEN "provider_accepted"
                           ELSE IF again THEN "retryable"
                           ELSE "provider_rejected",
                ![w].next = now + delay,
                ![w].gone = flight[w] = "gone"]
    BY <1>3 DEF Settle
  <2>2. PICK n \in Nat, gone \in BOOLEAN, set \in {"provider_accepted", "retryable", "provider_rejected"} :
         /\ set = "retryable" => flight[w] = "busy"
         /\ inv' = [inv EXCEPT ![w] = [inv[w] EXCEPT !.pc = "finish", !.at = now,
                      !.set = set, !.next = n, !.gone = gone]]
    <3>0. inv[w].row \in Operation /\ now \in 0..MaxTime
      BY <1>1 DEF Settle, LeaseHeld, TypeOK
    <3>1. now \in Nat /\ inv[w].row.attempts \in Nat /\ retryAfter \in Nat
      <4>1. now \in Nat BY <3>0
      <4>2. inv[w].row.attempts \in Nat BY <3>0 DEF Operation, MaxAttempts
      <4>3. retryAfter \in Nat OBVIOUS
      <4>. QED BY <4>1, <4>2, <4>3
    <3>. DEFINE delay == Max2(inv[w].row.attempts, retryAfter)
    <3>. DEFINE again == /\ flight[w] = "busy" /\ inv[w].row.attempts < MaxAttempts
                         /\ now + delay < Min2(inv[w].row.expires, inv[w].deadline)
    <3>. DEFINE set == IF flight[w] = "accepted" THEN "provider_accepted"
                       ELSE IF again THEN "retryable" ELSE "provider_rejected"
    <3>2. now + delay \in Nat
      BY <3>1 DEF Max2
    <3>3. set \in {"provider_accepted", "retryable", "provider_rejected"}
          /\ (set = "retryable" => flight[w] = "busy")
      OBVIOUS
    <3>4. inv' = [inv EXCEPT ![w] = [inv[w] EXCEPT !.pc = "finish", !.at = now,
                    !.set = set, !.next = now + delay, !.gone = flight[w] = "gone"]]
      BY <2>1
    <3>. HIDE DEF set, delay
    <3>5. (flight[w] = "gone") \in BOOLEAN
      OBVIOUS
    <3>. QED BY <3>2, <3>3, <3>4, <3>5
  <2>. DEFINE r == [inv[w] EXCEPT !.pc = "finish", !.at = now,
                      !.set = set, !.next = n, !.gone = gone]
  <2>3. r \in Invocation
    <3>1. now \in 0..MaxTime /\ set \in States
      BY <1>1 DEF TypeOK, States
    <3>. QED BY <1>1, <3>1 DEF Invocation
  <2>4. /\ Same(r, inv[w]) /\ r.pc = "finish" /\ r.set = set
        /\ r.row = inv[w].row
    BY <1>1 DEF Invocation, Same
  <2>7. inv' = [inv EXCEPT ![w] = r]
    BY <2>2
  <2>. HIDE DEF r
  <2>5. /\ inv'[w] = r /\ r # Idle
        /\ inv' \in [Workers -> Invocation \cup {Idle}]
        /\ \A v \in Workers \ {w} : inv'[v] = inv[v]
    BY <1>1, <2>7, <2>3, InvocationNotIdle DEF TypeOK
  <2>6. LeaseHeld(w)'
    <3>1. inv[w].pc = "await" /\ UNCHANGED <<ops, flight>>
      BY DEF Settle
    <3>2. set \notin InProgress /\ (set = "retryable" => flight[w] = "busy")
      BY <2>2 DEF InProgress
    <3>. QED BY <1>1, <2>4, <2>5, <3>1, <3>2 DEF LeaseHeld, Same, Rows
  <2>. QED BY <1>1, <1>2, <2>5, <2>6, PrivateStep DEF Settle
<1>. QED BY <1>1, <1>2, <1>3, ThrowStep DEF Settle

LEMMA ProviderTimeoutStep ==
  ASSUME IInv, NEW w \in Workers, ProviderTimeout(w)
  PROVE  IInv'
<1>1. /\ inv[w] \in Invocation /\ inv[w] # Idle /\ Key(w) \in Operations
      /\ LeaseHeld(w) /\ TypeOK
  BY AliveIsInvocation DEF IInv, LeaseInv, ProviderTimeout
<1>. QED BY <1>1, ThrowStep DEF ProviderTimeout, TypeOK, EnvOK

LEMMA InvalidateStep ==
  ASSUME IInv, NEW w \in Workers, Invalidate(w)
  PROVE  IInv'
<1>1. /\ inv[w] \in Invocation /\ inv[w] # Idle /\ Key(w) \in Operations
      /\ LeaseHeld(w) /\ TypeOK
  BY AliveIsInvocation DEF IInv, LeaseInv, Invalidate
<1>2. EnvOK'
  BY <1>1 DEF Invalidate, TypeOK, EnvOK, Registration
<1>3. Fits(w, "receipt")
  BY <1>1 DEF Fits, Invalidate, LeaseHeld, Key
<1>. QED BY <1>1, <1>2, <1>3, GotoStep, ThrowStep DEF Invalidate, Pcs

LEMMA ReceiptStep ==
  ASSUME IInv, NEW w \in Workers, Receipt(w)
  PROVE  IInv'
<1>1. /\ inv[w] \in Invocation /\ inv[w] # Idle /\ Key(w) \in Operations
      /\ LeaseHeld(w) /\ TypeOK
  BY AliveIsInvocation DEF IInv, LeaseInv, Receipt
<1>2. EnvOK'
  BY <1>1 DEF Receipt, TypeOK, EnvOK
<1>3. CASE Throw(w)
  BY <1>1, <1>2, <1>3, ThrowStep DEF Receipt
<1>4. CASE \E out \in Outs : Return(w, out)
  BY <1>1, <1>2, <1>4, LeaveStep DEF Receipt, Return
<1>5. ops[Key(w)] = NoRow \/ ops[Key(w)].state \in Outs
  BY <1>1 DEF TypeOK, Operation, Outs
<1>. QED BY <1>3, <1>4, <1>5 DEF Receipt, Outs, States, Key

LEMMA AbandonStep ==
  ASSUME IInv, NEW w \in Workers, Abandon(w) \/ Crash(w)
  PROVE  IInv'
<1>1. inv[w] \in Invocation /\ TypeOK
  BY AliveIsInvocation DEF IInv, Abandon, Crash, Alive
<1>. QED BY <1>1, ThrowStep, LeaveStep DEF Abandon, Crash, Outs, TypeOK, EnvOK

LEMMA PcFact ==
  ASSUME TypeOK, NEW w \in Workers, inv[w] \in Invocation, NEW pc \in Pcs,
         inv' = [inv EXCEPT ![w].pc = pc]
  PROVE  /\ inv' \in [Workers -> Invocation \cup {Idle}]
         /\ \A v \in Workers \ {w} : inv'[v] = inv[v]
         /\ inv'[w] \in Invocation /\ Same(inv'[w], inv[w])
         /\ inv'[w].pc = pc /\ inv'[w].row = inv[w].row
<1>. DEFINE r == [inv[w] EXCEPT !.pc = pc]
<1>1. r \in Invocation /\ Same(r, inv[w]) /\ r.pc = pc /\ r.row = inv[w].row
  BY DEF Invocation, Same, Pcs
<1>. QED BY <1>1 DEF TypeOK

LEMMA NewRowFact ==
  ASSUME NEW w \in Workers, inv[w] \in Invocation, NEW state \in States,
         NEW created \in Nat, NEW expires \in Nat
  PROVE  /\ NewRow(w, state, created, expires) \in Operation
         /\ NewRow(w, state, created, expires).event = inv[w].event
BY DEF NewRow, Operation, Invocation, Registration, MaxAttempts

LEMMA ReserveStep ==
  ASSUME IInv, NEW w \in Workers, Reserve(w)
  PROVE  IInv'
<1>1. /\ inv[w] \in Invocation /\ inv[w] # Idle /\ Key(w) \in Operations
      /\ LeaseHeld(w) /\ TypeOK
  BY AliveIsInvocation DEF IInv, LeaseInv, Reserve
<1>2. EnvOK' /\ flight[w] = "none"
  BY <1>1 DEF Reserve, TypeOK, EnvOK, LeaseHeld
<1>3. /\ inv' \in [Workers -> Invocation \cup {Idle}]
      /\ \A v \in Workers \ {w} : inv'[v] = inv[v]
      /\ inv'[w] \in Invocation /\ inv'[w].pc = "reread" /\ Same(inv'[w], inv[w])
  BY <1>1, PcFact DEF Reserve, Pcs
<1>4. LeaseHeld(w)'
  <2>1. inv'[w] # Idle
    BY <1>3, InvocationNotIdle
  <2>. QED BY <2>1, <1>1, <1>2, <1>3 DEF Reserve, LeaseHeld, Unrepeatable
<1>5. CASE UNCHANGED ops
  BY <1>2, <1>3, <1>4, <1>5, PrivateStep DEF Reserve
<1>6. CASE ops' # ops
  <2>. DEFINE e == inv[w].event
  <2>1. PICK row \in Operation : /\ row.event = e /\ Lookup(e) = NoRow
                                /\ ops' = [ops EXCEPT ![OperationOf[e]] = row]
    <3>. DEFINE sent == NewRow(w, "reserved", inv[w].at, Min2(Expiry[e], inv[w].deadline))
                withdrawn == NewRow(w, "cancelled", 0, Expiry[e])
    <3>0. /\ inv[w].at \in 0..MaxTime /\ e \in Events /\ inv[w].deadline \in Deadlines
      BY <1>1 DEF Invocation
    <3>1. /\ inv[w].at \in Nat
          /\ Expiry[e] \in Nat
          /\ inv[w].deadline \in Nat
      <4>1. inv[w].at \in Nat BY <3>0
      <4>2. Expiry[e] \in Nat BY <3>0
      <4>3. inv[w].deadline \in Nat BY <3>0
      <4>. QED BY <4>1, <4>2, <4>3
    <3>4. "reserved" \in States /\ "cancelled" \in States
      BY DEF States
    <3>2. Min2(Expiry[e], inv[w].deadline) \in Nat
      BY <3>1 DEF Min2
    <3>3. sent \in Operation /\ sent.event = e /\ withdrawn \in Operation /\ withdrawn.event = e
      BY <1>1, <3>1, <3>2, <3>4, NewRowFact
    <3>5. \/ ops' = [ops EXCEPT ![OperationOf[e]] = sent] /\ Lookup(e) = NoRow
          \/ ops' = [ops EXCEPT ![OperationOf[e]] = withdrawn] /\ Lookup(e) = NoRow
      BY <1>6 DEF Reserve, MayReserve
    <3>. HIDE DEF sent, withdrawn
    <3>. QED BY <3>3, <3>5
  <2>2. e \in Events /\ OperationOf[e] \in Operations
    BY <1>1 DEF Key, Invocation
  <2>3. ops[OperationOf[e]] = NoRow
    BY <2>1, <2>2, LookupFact
  <2>4. /\ ops' \in [Operations -> Operation \cup {NoRow}]
        /\ \A j \in Operations \ {OperationOf[e]} : ops'[j] = ops[j]
        /\ ops'[OperationOf[e]] = row
    BY <1>1, <2>1, <2>2 DEF TypeOK
  <2>5. UNCHANGED flight
    BY DEF Reserve
  <2>6. ops'[OperationOf[e]] # NoRow /\ OperationOf[ops'[OperationOf[e]].event] = OperationOf[e]
    BY <2>1, <2>4
  <2>. QED BY <1>2, <1>3, <1>4, <2>2, <2>3, <2>4, <2>5, <2>6, RowStep DEF Rows
<1>. QED BY <1>5, <1>6

\* Writing some fields of a row keeps it a row of the same event.
LEMMA SetStateFact ==
  ASSUME TypeOK, RowsKeyed, NEW k \in Rows, NEW row \in Operation,
         row.event = ops[k].event, ops' = [ops EXCEPT ![k] = row]
  PROVE  /\ ops' \in [Operations -> Operation \cup {NoRow}]
         /\ \A j \in Operations \ {k} : ops'[j] = ops[j]
         /\ ops'[k] = row /\ ops'[k] # NoRow /\ OperationOf[ops'[k].event] = k
         /\ Rows' = Rows
<1>1. k \in Operations /\ row # NoRow /\ OperationOf[row.event] = k
  BY DEF RowsKeyed, Rows
<1>2. /\ ops' \in [Operations -> Operation \cup {NoRow}] /\ ops'[k] = row
      /\ \A j \in Operations \ {k} : ops'[j] = ops[j]
  BY <1>1 DEF TypeOK
<1>3. Rows' = Rows
  BY <1>1, <1>2 DEF Rows
<1>. QED BY <1>1, <1>2, <1>3

LEMMA RetryStep ==
  ASSUME IInv, NEW w \in Workers, Retry(w)
  PROVE  IInv'
<1>0. inv[w].pc = "retry" /\ UNCHANGED <<reg, now, regress, flight>>
  BY DEF Retry
<1>1. /\ inv[w] \in Invocation /\ inv[w] # Idle /\ Key(w) \in Operations
      /\ LeaseHeld(w) /\ TypeOK /\ RowsKeyed
  BY <1>0, AliveIsInvocation DEF IInv, LeaseInv
<1>2. EnvOK' /\ flight[w] = "none"
  BY <1>0, <1>1 DEF TypeOK, EnvOK, LeaseHeld
<1>. DEFINE k == Key(w)
<1>3. k \in Rows /\ ops[k] \in Operation /\ inv[w].row \in Operation
  BY <1>0, <1>1 DEF LeaseHeld, Key, Rows, TypeOK
<1>4. CASE UNCHANGED ops /\ Return(w, inv[w].row.state)
  BY <1>0, <1>1, <1>2, <1>3, <1>4, LeaveStep DEF Return, Outs, Operation
<1>5. CASE /\ ops[k].state = "retryable" /\ ops[k].attempts < MaxAttempts
           /\ ops' = [ops EXCEPT ![k].state = "reserved", ![k].lease = w,
                                 ![k].attempts = @ + 1]
           /\ Goto(w, "reget") \/ Throw(w)
  <2>. DEFINE row == [ops[k] EXCEPT !.state = "reserved", !.lease = w,
                                    !.attempts = ops[k].attempts + 1]
  <2>0. ops[k].attempts + 1 \in 1..MaxAttempts /\ "reserved" \in States
    BY <1>3, <1>5 DEF Operation, States, MaxAttempts
  <2>1. row \in Operation /\ row.event = ops[k].event
    BY <1>3, <2>0 DEF Operation
  <2>2. ops' = [ops EXCEPT ![k] = row]
    BY <1>5
  <2>3. /\ ops' \in [Operations -> Operation \cup {NoRow}]
        /\ \A j \in Operations \ {k} : ops'[j] = ops[j]
        /\ ops'[k] # NoRow /\ OperationOf[ops'[k].event] = k
        /\ Rows' = Rows
    <3>. HIDE DEF row, k
    <3>. QED BY <1>1, <1>3, <2>1, <2>2, SetStateFact
  <2>. HIDE DEF row
  <2>4. ~ InTry(w) /\ "refused" \in Outs
    BY <1>0 DEF InTry, Outs
  <2>5. Goto(w, "reget") \/ Leave(w, "done", "refused")
    BY <1>5, <2>4 DEF Throw, Return
  <2>6. [inv[w] EXCEPT !.pc = "reget"] \in Invocation
    BY <1>1 DEF Invocation
  <2>7. /\ inv' \in [Workers -> Invocation \cup {Idle}]
        /\ \A v \in Workers \ {w} : inv'[v] = inv[v]
        /\ inv'[w] \in Invocation /\ Same(inv'[w], inv[w])
        /\ \/ inv'[w].pc = "reget" /\ inv'[w].row = inv[w].row
           \/ inv'[w].pc = "done"
    BY <1>1, <2>4, <2>5, <2>6, GotoFact, LeaveFact
  <2>8. inv'[w] # Idle
    BY <2>7, InvocationNotIdle
  <2>9. LeaseHeld(w)' /\ k \in Operations
    BY <1>0, <1>1, <1>2, <1>3, <2>3, <2>7, <2>8 DEF LeaseHeld, Key, Same, Unrepeatable
  <2>. HIDE DEF row, k
  <2>. QED BY <1>0, <1>1, <1>2, <1>5, <2>3, <2>7, <2>9, RowStep
<1>. QED BY <1>4, <1>5 DEF Retry, Key

\* What Throw does, whichever way it goes.
LEMMA ThrowFact ==
  ASSUME TypeOK, NEW w \in Workers, inv[w] \in Invocation, Throw(w)
  PROVE  /\ inv' \in [Workers -> Invocation \cup {Idle}]
         /\ \A v \in Workers \ {w} : inv'[v] = inv[v]
         /\ inv'[w] \in Invocation /\ Same(inv'[w], inv[w])
         /\ \/ inv'[w].pc = "done"
            \/ /\ InTry(w) /\ inv'[w].pc = "finish" /\ inv'[w].set = "unknown"
               /\ inv'[w].row = inv[w].row
<1>1. "refused" \in Outs BY DEF Outs
<1>. QED BY <1>1, ToUnknownFact, LeaveFact DEF Throw, Return

LEMMA MarkStep ==
  ASSUME IInv, NEW w \in Workers, Mark(w)
  PROVE  IInv'
<1>1. /\ inv[w] \in Invocation /\ inv[w] # Idle /\ Key(w) \in Operations
      /\ LeaseHeld(w) /\ TypeOK
  BY AliveIsInvocation DEF IInv, LeaseInv, Mark
<1>2. EnvOK' /\ flight[w] = "none"
  BY <1>1 DEF Mark, TypeOK, EnvOK, LeaseHeld
<1>. DEFINE k == Key(w)
<1>3. k \in Rows /\ ops[k] \in Operation /\ inv[w].row \in Operation /\ RowsKeyed
  BY <1>1 DEF Mark, LeaseHeld, Key, Rows, TypeOK, IInv, LeaseInv
<1>4. CASE UNCHANGED ops /\ Return(w, "unknown")
  BY <1>1, <1>2, <1>4, LeaveStep DEF Mark, Return, Outs, States
<1>5. CASE /\ ops[k].lease = w /\ ops[k].state = "reserved"
           /\ ops' = [ops EXCEPT ![k].state = "dispatching"]
           /\ Goto(w, "check") \/ Throw(w)
  <2>. DEFINE row == [ops[k] EXCEPT !.state = "dispatching"]
  <2>1. /\ row \in Operation /\ row.event = ops[k].event
        /\ row.state = "dispatching" /\ row.lease = w
    BY <1>3, <1>5 DEF Operation, States
  <2>2. ops' = [ops EXCEPT ![k] = row]
    BY <1>5
  <2>3. /\ ops' \in [Operations -> Operation \cup {NoRow}]
        /\ \A j \in Operations \ {k} : ops'[j] = ops[j]
        /\ ops'[k] # NoRow /\ OperationOf[ops'[k].event] = k
        /\ Rows' = Rows /\ ops'[k] = row
    <3>. HIDE DEF row
    <3>. QED BY <1>1, <1>3, <2>1, <2>2, SetStateFact
  <2>4. [inv[w] EXCEPT !.pc = "check"] \in Invocation
    BY <1>1 DEF Invocation
  <2>5. /\ inv' \in [Workers -> Invocation \cup {Idle}]
        /\ \A v \in Workers \ {w} : inv'[v] = inv[v]
        /\ inv'[w] \in Invocation /\ Same(inv'[w], inv[w])
        /\ \/ inv'[w].pc = "check" /\ inv'[w].row = inv[w].row
           \/ inv'[w].pc = "done"
           \/ /\ inv'[w].pc = "finish" /\ inv'[w].set = "unknown"
              /\ inv'[w].row = inv[w].row
    BY <1>1, <1>5, <2>4, GotoFact, ThrowFact
  <2>6. inv'[w] # Idle
    BY <2>5, InvocationNotIdle
  <2>. HIDE DEF row
  <2>7. LeaseHeld(w)'
    BY <1>1, <1>2, <1>3, <2>1, <2>3, <2>5, <2>6
       DEF Mark, LeaseHeld, Key, Same, Unrepeatable, InProgress
  <2>. QED BY <1>1, <1>2, <1>5, <2>3, <2>5, <2>7, RowStep DEF Mark
<1>. QED BY <1>4, <1>5 DEF Mark, Key

\* store.finish, committed or not, whatever the invocation does next.
LEMMA FinishingStep ==
  ASSUME IInv, NEW w \in Workers, inv[w] \in Invocation, inv[w].pc = "finish",
         Finishing(w) \/ UNCHANGED ops, UNCHANGED <<flight, reg, now, regress>>,
         inv' \in [Workers -> Invocation \cup {Idle}],
         \A v \in Workers \ {w} : inv'[v] = inv[v],
         inv'[w] \in Invocation, Same(inv'[w], inv[w]),
         \/ inv'[w].pc = "done"
         \/ inv'[w].pc \in {"invalidate", "receipt"} /\ inv'[w].row = inv[w].row
         \/ /\ inv'[w].pc = "finish" /\ inv'[w].set = "unknown"
            /\ inv'[w].row = inv[w].row
  PROVE  IInv'
<1>1. /\ inv[w] # Idle /\ Key(w) \in Operations /\ LeaseHeld(w) /\ TypeOK
      /\ inv'[w] # Idle
  BY AliveIsInvocation, InvocationNotIdle DEF IInv, LeaseInv
<1>2. EnvOK'
  BY <1>1 DEF TypeOK, EnvOK
<1>. DEFINE k == Key(w)
<1>3. k \in Rows /\ ops[k] \in Operation /\ inv[w].row \in Operation /\ RowsKeyed
  BY <1>1 DEF LeaseHeld, Key, Rows, TypeOK, IInv, LeaseInv
<1>4. CASE UNCHANGED ops
  <2>1. LeaseHeld(w)'
    BY <1>1, <1>3, <1>4 DEF LeaseHeld, Key, Same, Rows, InProgress
  <2>. QED BY <1>2, <1>4, <2>1, PrivateStep
<1>5. CASE /\ ops[k].lease = w
           /\ ops' = [ops EXCEPT ![k].state = inv[w].set, ![k].next = inv[w].next]
  <2>. DEFINE row == [ops[k] EXCEPT !.state = inv[w].set, !.next = inv[w].next]
  <2>0. inv[w].set \in States /\ inv[w].next \in Nat
    BY DEF Invocation
  <2>1. /\ row \in Operation /\ row.event = ops[k].event
        /\ row.state = inv[w].set /\ row.lease = w
    BY <1>3, <1>5, <2>0 DEF Operation
  <2>2. ops' = [ops EXCEPT ![k] = row]
    BY <1>5
  <2>. HIDE DEF row
  <2>3. /\ ops' \in [Operations -> Operation \cup {NoRow}]
        /\ \A j \in Operations \ {k} : ops'[j] = ops[j]
        /\ ops'[k] # NoRow /\ OperationOf[ops'[k].event] = k
        /\ Rows' = Rows /\ ops'[k] = row
    BY <1>1, <1>3, <2>1, <2>2, SetStateFact
  <2>4. LeaseHeld(w)'
    BY <1>1, <1>3, <2>1, <2>3 DEF LeaseHeld, Key, Same, Unrepeatable, InProgress
  <2>. QED BY <1>1, <1>2, <1>5, <2>3, <2>4, RowStep
<1>. QED BY <1>4, <1>5 DEF Finishing, Key

LEMMA FinishStep ==
  ASSUME IInv, NEW w \in Workers, Finish(w) \/ FinishFails(w)
  PROVE  IInv'
<1>1. /\ inv[w] \in Invocation /\ inv[w] # Idle /\ Key(w) \in Operations
      /\ LeaseHeld(w) /\ TypeOK
  BY AliveIsInvocation DEF IInv, LeaseInv, Finish, FinishFails
<1>. DEFINE pc == IF inv[w].gone THEN "invalidate" ELSE "receipt"
<1>2. "unknown" \in Outs /\ [inv[w] EXCEPT !.pc = pc] \in Invocation
  BY <1>1 DEF Invocation, Outs, States
<1>3. Goto(w, pc) \/ Throw(w) \/ Leave(w, "done", "unknown")
  BY DEF Finish, FinishFails, Return
<1>4. /\ inv' \in [Workers -> Invocation \cup {Idle}]
      /\ \A v \in Workers \ {w} : inv'[v] = inv[v]
      /\ inv'[w] \in Invocation /\ Same(inv'[w], inv[w])
      /\ \/ inv'[w].pc = "done"
         \/ inv'[w].pc = pc /\ inv'[w].row = inv[w].row
         \/ /\ inv'[w].pc = "finish" /\ inv'[w].set = "unknown"
            /\ inv'[w].row = inv[w].row
  BY <1>1, <1>2, <1>3, GotoFact, ThrowFact, LeaveFact
<1>. QED BY <1>1, <1>4, FinishingStep DEF Finish, FinishFails

LEMMA CancelStep ==
  ASSUME IInv, NEW w \in Workers, Cancel(w)
  PROVE  IInv'
<1>1. /\ inv[w] \in Invocation /\ inv[w] # Idle /\ Key(w) \in Operations
      /\ LeaseHeld(w) /\ TypeOK
  BY AliveIsInvocation DEF IInv, LeaseInv, Cancel
<1>2. EnvOK' /\ flight[w] = "none"
  BY <1>1 DEF Cancel, TypeOK, EnvOK, LeaseHeld
<1>. DEFINE k == Key(w)
<1>3. ~ InTry(w) /\ [inv[w] EXCEPT !.pc = "receipt"] \in Invocation
  BY <1>1 DEF Cancel, InTry, Invocation
<1>4. /\ inv' \in [Workers -> Invocation \cup {Idle}]
      /\ \A v \in Workers \ {w} : inv'[v] = inv[v]
      /\ inv'[w] \in Invocation /\ Same(inv'[w], inv[w])
      /\ inv'[w].pc \in {"receipt", "done"}
  BY <1>1, <1>3, GotoFact, ThrowFact DEF Cancel
<1>5. inv'[w] # Idle /\ inv[w].action = "cancel"
  BY <1>1, <1>4, InvocationNotIdle DEF Cancel, LeaseHeld
<1>6. LeaseHeld(w)'
  BY <1>1, <1>2, <1>4, <1>5 DEF Cancel, LeaseHeld, Same, Unrepeatable
<1>7. CASE UNCHANGED ops
  BY <1>2, <1>4, <1>6, <1>7, PrivateStep DEF Cancel
<1>8. CASE /\ k \in Rows /\ ops[k].state \in {"reserved", "retryable"}
           /\ ops' = [ops EXCEPT ![k].state = "cancelled"]
  <2>. DEFINE row == [ops[k] EXCEPT !.state = "cancelled"]
  <2>1. row \in Operation /\ row.event = ops[k].event
    BY <1>1, <1>8 DEF Operation, States, TypeOK, Rows
  <2>2. ops' = [ops EXCEPT ![k] = row]
    BY <1>8
  <2>. HIDE DEF row
  <2>3. /\ ops' \in [Operations -> Operation \cup {NoRow}]
        /\ \A j \in Operations \ {k} : ops'[j] = ops[j]
        /\ ops'[k] # NoRow /\ OperationOf[ops'[k].event] = k
    BY <1>1, <1>8, <2>1, <2>2, SetStateFact DEF IInv, LeaseInv
  <2>. QED BY <1>1, <1>2, <1>4, <1>6, <1>8, <2>3, RowStep DEF Cancel
<1>. QED BY <1>1, <1>7, <1>8 DEF Cancel, Key, Rows

LEMMA FetchStep ==
  ASSUME IInv, NEW w \in Workers, Fetch(w)
  PROVE  IInv'
<1>1. /\ inv[w] \in Invocation /\ inv[w] # Idle /\ Key(w) \in Operations
      /\ LeaseHeld(w) /\ TypeOK
  BY AliveIsInvocation DEF IInv, LeaseInv, Fetch
<1>2. EnvOK' /\ flight[w] = "none"
  BY <1>1 DEF Fetch, TypeOK, EnvOK, LeaseHeld
<1>3. CASE UNCHANGED flight /\ Throw(w)
  BY <1>1, <1>2, <1>3, ThrowStep DEF Fetch
<1>4. CASE Goto(w, "await") /\ flight' = [flight EXCEPT ![w] = "sent"]
  <2>1. [inv[w] EXCEPT !.pc = "await"] \in Invocation
    BY <1>1 DEF Invocation
  <2>2. /\ inv' \in [Workers -> Invocation \cup {Idle}]
        /\ \A v \in Workers \ {w} : inv'[v] = inv[v]
        /\ inv'[w] \in Invocation /\ Same(inv'[w], inv[w])
        /\ inv'[w].pc = "await" /\ inv'[w].row = inv[w].row
    BY <1>1, <1>4, <2>1, GotoFact
  <2>3. inv'[w] # Idle
    BY <2>2, InvocationNotIdle
  <2>4. TypeOK'
    BY <1>1, <1>4, <2>2 DEF TypeOK, Fetch
  <2>5. LeaseHeld(w)'
    BY <1>1, <2>2, <2>3 DEF Fetch, LeaseHeld, Same, Rows, Unrepeatable
  <2>6. ASSUME NEW v \in Workers, v # w PROVE LeaseHeld(v)'
    <3>1. inv'[v] = inv[v] /\ flight'[v] = flight[v] /\ LeaseHeld(v) /\ ops' = ops
      BY <1>1, <1>4, <2>2, <2>6 DEF TypeOK, Fetch, IInv, LeaseInv
    <3>. QED BY <3>1 DEF LeaseHeld, Rows
  <2>7. RowsKeyed'
    BY DEF IInv, LeaseInv, RowsKeyed, Rows, Fetch
  <2>. QED BY <2>4, <2>5, <2>6, <2>7 DEF IInv, LeaseInv
<1>. QED BY <1>3, <1>4 DEF Fetch

LEMMA ProviderAnswerStep ==
  ASSUME IInv, NEW w \in Workers, ProviderAnswer(w)
  PROVE  IInv'
<1>1. PICK a \in Answers : flight' = [flight EXCEPT ![w] = a]
  BY DEF ProviderAnswer
<1>2. TypeOK'
  BY <1>1 DEF IInv, TypeOK, ProviderAnswer
<1>3. RowsKeyed'
  BY DEF IInv, LeaseInv, RowsKeyed, Rows, ProviderAnswer
<1>4. ASSUME NEW v \in Workers PROVE LeaseHeld(v)'
  <2>1. LeaseHeld(v) /\ ops' = ops /\ inv' = inv
    BY DEF IInv, LeaseInv, ProviderAnswer
  <2>2. CASE v = w
    <3>1. flight[w] = "sent" /\ flight'[w] \in Answers
      BY <1>1 DEF ProviderAnswer, IInv, TypeOK
    <3>2. inv[w] # Idle
      BY <2>1, <2>2, <3>1 DEF LeaseHeld
    <3>3. inv[w].pc # "finish" \/ inv[w].set # "retryable"
      BY <2>1, <2>2, <3>1, <3>2 DEF LeaseHeld
    <3>. QED BY <2>1, <2>2, <3>1, <3>2, <3>3 DEF LeaseHeld, Rows, Unrepeatable, Answers
  <2>3. CASE v # w
    <3>1. flight'[v] = flight[v]
      BY <1>1, <2>3 DEF IInv, TypeOK
    <3>. QED BY <2>1, <3>1 DEF LeaseHeld, Rows
  <2>. QED BY <2>2, <2>3
<1>. QED BY <1>2, <1>3, <1>4 DEF IInv, LeaseInv

\* The clock and the registration are no part of what a lease protects.
LEMMA EnvironmentStep ==
  ASSUME IInv, UNCHANGED <<ops, inv, flight>>, EnvOK'
  PROVE  IInv'
<1>1. TypeOK'
  BY DEF IInv, TypeOK, EnvOK
<1>2. RowsKeyed' /\ \A w \in Workers : LeaseHeld(w)'
  BY DEF IInv, LeaseInv, RowsKeyed, LeaseHeld, Rows
<1>. QED BY <1>1, <1>2 DEF IInv, LeaseInv

LEMMA EnvironmentOK ==
  ASSUME IInv, Environment \/ UNCHANGED vars
  PROVE  EnvOK' /\ UNCHANGED <<ops, inv, flight>>
<1>0. EnvOK
  BY DEF IInv, TypeOK, EnvOK
<1>1. CASE Tick \/ ClockStepsBack
  BY <1>0, <1>1 DEF EnvOK, Tick, ClockStepsBack
<1>2. ASSUME NEW d \in Recipients, Reregister(d) \/ OptOut(d)
      PROVE  EnvOK' /\ UNCHANGED <<ops, inv, flight>>
  <2>1. CASE Reregister(d)
    <3>1. PICK token \in reg[d].token .. Min2(reg[d].token + 1, MaxToken) :
            reg' = [reg EXCEPT ![d] = [token |-> token, active |-> TRUE]]
      BY <2>1 DEF Reregister
    <3>2. reg[d].token \in 0..MaxToken
      BY <1>0 DEF EnvOK, Registration
    <3>3. token \in 0..MaxToken
      BY <3>1, <3>2 DEF Min2
    <3>. QED BY <1>0, <2>1, <3>1, <3>3 DEF EnvOK, Registration, Reregister
  <2>2. CASE OptOut(d)
    BY <1>0, <2>2 DEF EnvOK, OptOut, Registration
  <2>. QED BY <1>2, <2>1, <2>2
<1>3. CASE UNCHANGED vars
  BY <1>0, <1>3 DEF EnvOK, vars
<1>. QED BY <1>1, <1>2, <1>3 DEF Environment

LEMMA StepKeepsIInv ==
  ASSUME IInv, [Next]_vars
  PROVE  IInv'
<1>1. ASSUME NEW w \in Workers, Store(w)
      PROVE  IInv'
  BY <1>1, CheckCurrentStep, LookupDispatchStep, LookupCancelStep, ReserveStep,
     RereadDispatchStep, RereadCancelStep, RetryStep, RegetStep,
     BuildNotificationStep, MarkStep, CanDispatchStep, FetchStep, SettleStep,
     FinishStep, InvalidateStep, CancelStep, ReceiptStep DEF Store
<1>2. ASSUME NEW w \in Workers, NEW e \in Events,
             NEW action \in {"dispatch", "cancel"}, Admit(w, e, action)
      PROVE  IInv'
  BY <1>2, AdmitStep
<1>3. ASSUME NEW w \in Workers,
             \/ ProviderAnswer(w) \/ ProviderTimeout(w) \/ TokenUnreadable(w)
             \/ FinishFails(w) \/ Abandon(w) \/ Crash(w)
      PROVE  IInv'
  BY <1>3, ProviderAnswerStep, ProviderTimeoutStep, TokenUnreadableStep,
     FinishStep, AbandonStep
<1>4. CASE Environment \/ UNCHANGED vars
  BY <1>4, EnvironmentOK, EnvironmentStep
<1>. QED BY <1>1, <1>2, <1>3, <1>4 DEF Next

LEMMA InitHasIInv ==
  ASSUME Init
  PROVE  IInv
<1>1. TypeOK
  BY DEF Init, TypeOK, Registration
<1>2. RowsKeyed /\ \A w \in Workers : LeaseHeld(w)
  BY DEF Init, RowsKeyed, Rows, LeaseHeld
<1>. QED BY <1>1, <1>2 DEF IInv, LeaseInv

LEMMA InductiveInvariant == Spec => []IInv
<1>. QED BY InitHasIInv, StepKeepsIInv, PTL DEF Spec

-----------------------------------------------------------------------------
\* In every reachable state of every instance the tables, the clock and the
\* locals of the invocations have their types.
THEOREM TypeCorrect == Spec => []TypeOK
<1>1. IInv => TypeOK
  BY DEF IInv
<1>. QED BY <1>1, InductiveInvariant, PTL

\* Only the lease holder moves a row from its mark to its answer, and a row for
\* which an unrepeatable request was made is never opened to another attempt.
THEOREM LeaseProtects == Spec => []LeaseInv
<1>1. IInv => LeaseInv
  BY DEF IInv
<1>. QED BY <1>1, InductiveInvariant, PTL

\* However many invocations dispatch, retry, cancel, crash and time out, the
\* provider accepts at most one request of an operation.
THEOREM DeliveredAtMostOnce == Spec => []AtMostOnce
<1>1. IInv => AtMostOnce
  BY DEF IInv, LeaseInv, LeaseHeld, AtMostOnce, Senders, Unrepeatable
<1>. QED BY <1>1, InductiveInvariant, PTL

-----------------------------------------------------------------------------
\* What the rows, the requests and the receipts say of each other.

Holding(i) ==
  \/ i.pc \in {"retry", "reget", "build", "mark", "check", "fetch", "await",
              "finish", "invalidate"}
  \/ i.pc = "receipt" /\ i.action = "dispatch"

Final == {"provider_accepted", "provider_rejected", "cancelled"}

\* What an invocation relies on: the row it works on is of its event and of its
\* token, its answer is the one the provider gave, and a receipt that says how
\* the operation ended is the state of the row.
Account(w) ==
  LET i == inv[w]
      row == ops[OperationOf[i.event]]
  IN  i # Idle =>
      /\ Holding(i) \/ flight[w] # "none" =>
           i.action = "dispatch" /\ row # NoRow /\ Own(w, row)
      /\ flight[w] \in {"sent", "accepted"} =>
           row.state \notin {"cancelled", "provider_rejected"}
      /\ i.pc = "finish" =>
           /\ i.set = "provider_accepted" => flight[w] = "accepted"
           /\ i.set = "provider_rejected" => flight[w] \in Answers \ {"accepted"}
           /\ i.set # "cancelled"
      /\ i.pc = "retry" => i.row.state = "retryable"
      /\ i.pc = "done" /\ i.out \in Final => row # NoRow /\ row.state = i.out

\* A row says accepted only of an accepted request.
RowTrue(k) ==
  k \in Rows /\ ops[k].state = "provider_accepted" =>
    \E v \in Senders(k) : flight[v] = "accepted"

Accounts == (\A w \in Workers : Account(w)) /\ (\A k \in Operations : RowTrue(k))

AInv == IInv /\ Accounts

-----------------------------------------------------------------------------
\* The kinds of step.

\* The invocation w goes on, and no other.
Moves(w) ==
  /\ inv[w] \in Invocation /\ inv'[w] \in Invocation
  /\ Same(inv'[w], inv[w])
  /\ \A v \in Workers \ {w} : inv'[v] = inv[v]

Quiet(w) ==
  /\ UNCHANGED <<ops, flight>>
  /\ \A v \in Workers \ {w} : inv'[v] = inv[v]
  /\ \/ Moves(w)
     \/ inv[w] = Idle /\ flight[w] = "none" /\ inv'[w] \in Invocation
  /\ Account(w)'

Writes(w, row) ==
  /\ Moves(w) /\ UNCHANGED flight
  /\ ops' = [ops EXCEPT ![Key(w)] = row]
  /\ Account(w)'

Inserts(w, row) ==
  /\ Writes(w, row) /\ ops[Key(w)] = NoRow /\ flight[w] = "none"
  /\ MayReserve(inv[w].event, row.created, inv[w].action = "cancel")
  /\ row.event = inv[w].event /\ row.lease = w /\ row.attempts = 1
  /\ row.state = IF inv[w].action = "cancel" THEN "cancelled" ELSE "reserved"

\* What an UPDATE leaves of a row.
Kept(row, old) ==
  row.event = old.event /\ row.binding = old.binding /\ row.created = old.created

Updates(w, row) ==
  LET old == ops[Key(w)] IN
  /\ Writes(w, row) /\ Key(w) \in Rows /\ Kept(row, old)
  /\ \/ /\ old.state = "retryable" /\ row.state = "reserved"
        /\ row.lease = w /\ inv[w].action = "dispatch"
        /\ row.attempts = old.attempts + 1
     \/ /\ row.lease = old.lease /\ row.attempts = old.attempts
        /\ \/ old.lease = w /\ old.state = "reserved" /\ row.state = "dispatching"
           \/ /\ old.lease = w /\ old.state \in InProgress /\ inv[w].pc = "finish"
              /\ row.state = inv[w].set
           \/ old.state \in {"reserved", "retryable"} /\ row.state = "cancelled"

Sends(w) ==
  /\ Moves(w) /\ UNCHANGED ops /\ inv[w].pc = "fetch" /\ flight[w] = "none"
  /\ flight' = [flight EXCEPT ![w] = "sent"]
  /\ Account(w)'

Answered(w) ==
  /\ UNCHANGED <<ops, inv>> /\ flight[w] = "sent"
  /\ \E a \in Answers : flight' = [flight EXCEPT ![w] = a]

Turn(w) ==
  \/ Quiet(w) \/ Sends(w) \/ Answered(w)
  \/ \E row \in Operation : Inserts(w, row) \/ Updates(w, row)

Still == UNCHANGED <<ops, inv, flight>>

-----------------------------------------------------------------------------
\* Each action is a step of one of the kinds.

LEMMA Acting ==
  ASSUME AInv, NEW w \in Workers, inv[w].pc # "idle"
  PROVE  /\ inv[w] \in Invocation /\ inv[w] # Idle /\ Key(w) \in Operations
         /\ LeaseHeld(w) /\ TypeOK /\ RowsKeyed /\ Account(w) /\ inv[w].event \in Events
<1>1. TypeOK /\ LeaseHeld(w) /\ RowsKeyed /\ Account(w)
  BY DEF AInv, IInv, LeaseInv, Accounts
<1>2. inv[w] \in Invocation /\ inv[w] # Idle /\ Key(w) \in Operations
  BY <1>1, AliveIsInvocation
<1>. QED BY <1>1, <1>2 DEF Invocation

\* The row a lookup finds for an event that owns it is the row of its operation.
LEMMA OwnedIsFiled ==
  ASSUME IInv, NEW e \in Events, Lookup(e) # NoRow, Lookup(e).event = e
  PROVE  Lookup(e) = ops[OperationOf[e]]
<1>1. OperationOf[e] \in Rows
  BY LookupFact
<1>. QED BY <1>1 DEF Lookup, Rows

LEMMA LeaveOut ==
  ASSUME TypeOK, NEW w \in Workers, inv[w] \in Invocation,
         NEW pc \in {"done", "crashed"}, NEW out \in Outs, Leave(w, pc, out)
  PROVE  Moves(w) /\ inv'[w].pc = pc /\ inv'[w].out = out
<1> DEFINE r == [inv[w] EXCEPT !.pc = pc, !.out = out, !.at = 0,
            !.row = NoRow, !.set = "unknown", !.next = 0, !.gone = FALSE,
            !.caught = FALSE]
<1>1. inv' = [inv EXCEPT ![w] = r]
  BY DEF Leave
<1>2. r.out = out
  BY DEF Invocation
<1>. HIDE DEF r
<1>3. inv'[w].out = out
  BY <1>1, <1>2 DEF TypeOK
<1>. QED BY <1>3, LeaveFact DEF Moves

\* An invocation that returns gives up what it relied on but its receipt.
LEMMA LeaveQuiet ==
  ASSUME AInv, NEW w \in Workers, inv[w].pc # "idle",
         NEW pc \in {"done", "crashed"}, NEW out \in Outs, Leave(w, pc, out),
         out \in Final => ops[Key(w)] # NoRow /\ ops[Key(w)].state = out,
         UNCHANGED <<ops, flight>>
  PROVE  Quiet(w)
<1>1. inv[w] \in Invocation /\ TypeOK /\ Account(w) /\ inv[w] # Idle
  BY Acting
<1>2. Moves(w) /\ inv'[w].pc = pc /\ inv'[w].out = out
  BY <1>1, LeaveOut
<1>3. Account(w)'
  BY <1>1, <1>2 DEF Account, Moves, Same, Holding, Own, Key
<1>. QED BY <1>2, <1>3 DEF Quiet, Moves

LEMMA ThrowQuiet ==
  ASSUME AInv, NEW w \in Workers, inv[w].pc # "idle", Throw(w),
         UNCHANGED <<ops, flight>>
  PROVE  Quiet(w)
<1>1. inv[w] \in Invocation /\ TypeOK /\ Account(w) /\ inv[w] # Idle
  BY Acting
<1>2. CASE ~ InTry(w)
  <2>1. "refused" \in Outs \ Final BY DEF Outs, Final, States
  <2>. QED BY <1>2, <2>1, LeaveQuiet DEF Throw, Return
<1>3. CASE InTry(w)
  <2>1. /\ inv'[w] \in Invocation /\ Same(inv'[w], inv[w])
        /\ \A v \in Workers \ {w} : inv'[v] = inv[v]
        /\ inv'[w].pc = "finish" /\ inv'[w].set = "unknown"
    BY <1>1, <1>3, ToUnknownFact DEF Throw
  <2>2. Holding(inv[w])
    BY <1>3 DEF InTry, Holding
  <2>3. Account(w)'
    BY <1>1, <2>1, <2>2 DEF Account, Same, Holding, Own
  <2>. QED BY <1>1, <2>1, <2>3 DEF Quiet, Moves
<1>. QED BY <1>2, <1>3

LEMMA GotoQuiet ==
  ASSUME AInv, NEW w \in Workers, inv[w].pc # "idle",
         NEW pc \in Pcs \ {"finish", "retry", "done"}, Goto(w, pc),
         Holding([inv[w] EXCEPT !.pc = pc]) => Holding(inv[w]),
         UNCHANGED <<ops, flight>>
  PROVE  Quiet(w)
<1>1. inv[w] \in Invocation /\ TypeOK /\ Account(w) /\ inv[w] # Idle
  BY Acting
<1>2. [inv[w] EXCEPT !.pc = pc] \in Invocation
  BY <1>1 DEF Invocation, Pcs
<1>3. /\ \A v \in Workers \ {w} : inv'[v] = inv[v]
      /\ inv'[w] \in Invocation /\ Same(inv'[w], inv[w])
      /\ inv'[w].pc = pc
  BY <1>1, <1>2, GotoFact
<1>4. Holding(inv'[w]) => Holding(inv[w])
  <2>. DEFINE r == [inv[w] EXCEPT !.pc = pc]
  <2>1. r.pc = pc /\ r.action = inv[w].action
    BY <1>1 DEF Invocation
  <2>2. Holding(r) => Holding(inv[w])
    OBVIOUS
  <2>. HIDE DEF r
  <2>. QED BY <1>3, <2>1, <2>2 DEF Holding, Same
<1>5. Account(w)'
  BY <1>1, <1>3, <1>4 DEF Account, Same, Own
<1>. QED BY <1>1, <1>3, <1>5 DEF Quiet, Moves

LEMMA DecideQuiet ==
  ASSUME AInv, NEW w \in Workers, inv[w].pc # "idle", inv[w].action = "dispatch",
         NEW row \in Operation, NEW mayRetry \in BOOLEAN,
         row.event = inv[w].event => row = ops[Key(w)],
         Decide(w, row, mayRetry), UNCHANGED <<ops, flight>>
  PROVE  Quiet(w)
<1>1. inv[w] \in Invocation /\ TypeOK /\ Account(w) /\ inv[w] # Idle
  BY Acting
<1>. DEFINE become(pc) == inv' = [inv EXCEPT ![w].pc = pc, ![w].at = now, ![w].row = row]
<1>2. \/ Throw(w)
      \/ \E out \in Outs : /\ Return(w, out)
                           /\ out \in Final => row.state = out /\ Own(w, row)
      \/ \E pc \in {"retry", "build"} : /\ become(pc) /\ Own(w, row)
                                        /\ pc = "retry" => row.state = "retryable"
  <2>1. row.state \in States
    BY DEF Operation
  <2>. QED BY <2>1 DEF Decide, Outs, States, Final
<1>3. Own(w, row) => row = ops[Key(w)] /\ ops[Key(w)] # NoRow
  BY DEF Own
<1>4. CASE \E pc \in {"retry", "build"} : /\ become(pc) /\ Own(w, row)
                                          /\ pc = "retry" => row.state = "retryable"
  <2>1. PICK pc \in {"retry", "build"} : /\ become(pc) /\ Own(w, row)
                                         /\ pc = "retry" => row.state = "retryable"
    BY <1>4
  <2>. DEFINE r == [inv[w] EXCEPT !.pc = pc, !.at = now, !.row = row]
  <2>2. inv' = [inv EXCEPT ![w] = r]
    BY <2>1
  <2>3. r \in Invocation /\ r.pc = pc /\ r.row = row /\ Same(r, inv[w])
    BY <1>1 DEF TypeOK, Invocation, Same
  <2>. HIDE DEF r
  <2>4. /\ inv'[w] = r /\ \A v \in Workers \ {w} : inv'[v] = inv[v]
    BY <2>2, <2>3, <1>1 DEF TypeOK
  <2>5. Account(w)'
    BY <1>1, <1>3, <2>1, <2>3, <2>4 DEF Account, Same, Own, Key
  <2>. QED BY <1>1, <2>3, <2>4, <2>5 DEF Quiet, Moves
<1>5. CASE \E out \in Outs : /\ Return(w, out)
                             /\ out \in Final => row.state = out /\ Own(w, row)
  BY <1>3, <1>5, LeaveQuiet DEF Return
<1>. QED BY <1>2, <1>4, <1>5, ThrowQuiet

LEMMA AdmitTurn ==
  ASSUME AInv, NEW w \in Workers, NEW e \in Events,
         NEW action \in {"dispatch", "cancel"}, Admit(w, e, action)
  PROVE  Quiet(w)
<1>1. TypeOK /\ LeaseHeld(w) /\ inv[w] = Idle /\ flight[w] = "none"
  BY DEF AInv, IInv, LeaseInv, LeaseHeld, Admit
<1>2. PICK deadline \in Deadlines :
       inv' = [inv EXCEPT ![w] =
         [pc |-> IF action = "dispatch" THEN "current" ELSE "lookup",
          action |-> action, event |-> e, reg |-> reg[RecipientOf[e]],
          deadline |-> deadline, at |-> now, row |-> NoRow, set |-> "unknown",
          next |-> 0, gone |-> FALSE, caught |-> FALSE, out |-> "none"]]
  BY DEF Admit
<1>3. inv'[w] \in Invocation /\ inv'[w].pc \in {"current", "lookup"}
  BY <1>1, <1>2 DEF TypeOK, Invocation, States
<1>4. Account(w)'
  BY <1>1, <1>3 DEF Account, Admit, Holding
<1>5. \A v \in Workers \ {w} : inv'[v] = inv[v]
  BY <1>1, <1>2 DEF TypeOK
<1>. QED BY <1>1, <1>3, <1>4, <1>5 DEF Quiet, Admit

LEMMA LookupTurn ==
  ASSUME AInv, NEW w \in Workers,
         \/ CheckCurrent(w) \/ LookupDispatch(w) \/ LookupCancel(w)
         \/ RereadDispatch(w) \/ RereadCancel(w) \/ Reget(w)
  PROVE  Quiet(w)
<1>0. inv[w].pc \in {"current", "lookup", "reread", "reget"} /\ UNCHANGED <<ops, flight>>
  BY DEF CheckCurrent, LookupDispatch, LookupCancel, RereadDispatch, RereadCancel, Reget
<1>1. /\ inv[w] \in Invocation /\ inv[w] # Idle /\ Key(w) \in Operations
      /\ LeaseHeld(w) /\ TypeOK /\ Account(w) /\ inv[w].event \in Events
  BY <1>0, Acting
<1>2. CASE Throw(w)
  BY <1>0, <1>2, ThrowQuiet
<1>3. CASE \E pc \in {"lookup", "reserve", "cancel"} : Goto(w, pc)
  <2>1. PICK pc \in {"lookup", "reserve", "cancel"} : Goto(w, pc)
    BY <1>3
  <2>. DEFINE r == [inv[w] EXCEPT !.pc = pc]
  <2>2. r.pc = pc
    BY <1>1 DEF Invocation
  <2>. HIDE DEF r
  <2>3. ~ Holding(r)
    BY <2>2 DEF Holding
  <2>. QED BY <1>0, <2>1, <2>3, GotoQuiet DEF Pcs, r
<1>4. CASE Return(w, "capacity")
  BY <1>0, <1>4, LeaveQuiet DEF Return, Outs, Final
<1>. DEFINE e == inv[w].event
<1>5. CASE /\ LookupDispatch(w) \/ RereadDispatch(w)
           /\ Lookup(e) # NoRow /\ Decide(w, Lookup(e), TRUE)
  <2>1. Lookup(e) \in Operation /\ (Lookup(e).event = e => Lookup(e) = ops[Key(w)])
    BY <1>1, <1>5, LookupFact, OwnedIsFiled DEF AInv, Key
  <2>2. inv[w].action = "dispatch"
    BY <1>5 DEF LookupDispatch, RereadDispatch
  <2>. HIDE DEF e
  <2>. QED BY <1>0, <1>5, <2>1, <2>2, DecideQuiet DEF e
<1>6. CASE Reget(w)
  <2>1. ops[Key(w)] \in Operation /\ inv[w].action = "dispatch"
    BY <1>1, <1>6 DEF Reget, LeaseHeld, TypeOK, Key, Rows, Account, Holding
  <2>. QED BY <1>0, <1>6, <2>1, DecideQuiet DEF Reget, Key
<1>. QED BY <1>2, <1>3, <1>4, <1>5, <1>6
         DEF CheckCurrent, LookupDispatch, LookupCancel, RereadDispatch, RereadCancel

LEMMA WorkTurn ==
  ASSUME AInv, NEW w \in Workers,
         \/ BuildNotification(w) \/ CanDispatch(w) \/ ProviderTimeout(w)
         \/ Invalidate(w) \/ Abandon(w) \/ Crash(w)
  PROVE  Quiet(w)
<1>0. inv[w].pc # "idle" /\ UNCHANGED <<ops, flight>>
  BY DEF BuildNotification, CanDispatch, ProviderTimeout, Invalidate, Abandon, Crash, Alive
<1>1. /\ inv[w] \in Invocation /\ inv[w] # Idle /\ TypeOK /\ Account(w)
  BY <1>0, Acting
<1>2. CASE Throw(w)
  BY <1>0, <1>2, ThrowQuiet
<1>3. CASE Leave(w, "crashed", "none")
  BY <1>0, <1>3, LeaveQuiet DEF Outs, Final
<1>4. CASE \E pc \in {"mark", "receipt"} : Goto(w, pc) /\ Holding(inv[w])
  <2>1. PICK pc \in {"mark", "receipt"} : Goto(w, pc) /\ Holding(inv[w])
    BY <1>4
  <2>. QED BY <1>0, <2>1, GotoQuiet DEF Pcs
<1>5. CASE CanDispatch(w) /\ inv' = [inv EXCEPT ![w].pc = "fetch"]
  <2>. DEFINE r == [inv[w] EXCEPT !.pc = "fetch"]
  <2>1. r \in Invocation /\ Same(r, inv[w]) /\ r.pc = "fetch"
    BY <1>1 DEF Invocation, Same
  <2>2. inv' = [inv EXCEPT ![w] = r]
    BY <1>5
  <2>. HIDE DEF r
  <2>3. inv'[w] = r /\ \A v \in Workers \ {w} : inv'[v] = inv[v]
    BY <1>1, <2>1, <2>2 DEF TypeOK
  <2>4. Account(w)'
    BY <1>0, <1>1, <1>5, <2>1, <2>3 DEF Account, Same, Own, Holding, CanDispatch
  <2>. QED BY <1>0, <1>1, <2>1, <2>3, <2>4 DEF Quiet, Moves
<1>. QED BY <1>2, <1>3, <1>4, <1>5
         DEF BuildNotification, CanDispatch, ProviderTimeout, Invalidate, Abandon, Crash, Holding

LEMMA ReceiptTurn ==
  ASSUME AInv, NEW w \in Workers, Receipt(w)
  PROVE  Quiet(w)
<1>0. inv[w].pc # "idle" /\ UNCHANGED <<ops, flight>>
  BY DEF Receipt
<1>1. inv[w] \in Invocation /\ Key(w) \in Operations /\ TypeOK
  BY <1>0, Acting
<1>2. CASE Throw(w)
  BY <1>0, <1>2, ThrowQuiet
<1>. DEFINE row == ops[Key(w)]
<1>3. CASE Return(w, "none") \/ Return(w, "unknown")
  BY <1>0, <1>3, LeaveQuiet DEF Return, Outs, Final, States
<1>4. CASE row # NoRow /\ Return(w, row.state)
  <2>1. row.state \in Outs
    BY <1>1, <1>4 DEF TypeOK, Operation, Outs
  <2>. QED BY <1>0, <1>4, <2>1, LeaveQuiet DEF Return
<1>. QED BY <1>2, <1>3, <1>4 DEF Receipt, Key

\* Going on at finish with an answer.
LEMMA FinishQuiet ==
  ASSUME AInv, NEW w \in Workers, inv[w].pc \in {"check", "await"},
         NEW r \in Invocation, inv' = [inv EXCEPT ![w] = r], Same(r, inv[w]),
         r.pc = "finish", r.set \in {"unknown", "retryable", "provider_accepted", "provider_rejected"},
         r.set = "provider_accepted" => flight[w] = "accepted",
         r.set = "provider_rejected" => flight[w] \in Answers \ {"accepted"},
         UNCHANGED <<ops, flight>>
  PROVE  Quiet(w)
<1>1. inv[w] \in Invocation /\ TypeOK /\ Account(w) /\ inv[w] # Idle
  BY Acting
<1>2. inv'[w] = r /\ \A v \in Workers \ {w} : inv'[v] = inv[v]
  BY <1>1 DEF TypeOK
<1>3. Account(w)'
  BY <1>1, <1>2 DEF Account, Same, Own, Holding
<1>. QED BY <1>1, <1>2, <1>3 DEF Quiet, Moves

LEMMA SettleTurn ==
  ASSUME AInv, NEW w \in Workers, Settle(w) \/ TokenUnreadable(w)
  PROVE  Quiet(w)
<1>0. inv[w].pc \in {"check", "await"} /\ UNCHANGED <<ops, flight>>
  BY DEF Settle, TokenUnreadable
<1>1. /\ inv[w] \in Invocation /\ TypeOK /\ LeaseHeld(w) /\ inv[w] # Idle
  BY <1>0, Acting
<1>2. CASE Throw(w)
  BY <1>0, <1>2, ThrowQuiet
<1>3. \A n : n \in RetryAfters => n \in Nat
  OBVIOUS
<1>4. inv[w].row \in Operation /\ inv[w].row.attempts \in 1..3 /\ now \in Nat
  BY <1>0, <1>1 DEF LeaseHeld, TypeOK, Operation, MaxAttempts
<1>5. CASE Settle(w) /\ ClockOk(w)
  <2>. DEFINE finished(n, set, gone) ==
         [inv[w] EXCEPT !.pc = "finish", !.at = now, !.set = set, !.next = n, !.gone = gone]
  <2>1. PICK retryAfter \in RetryAfters :
         LET delay == Max2(inv[w].row.attempts, retryAfter)
             again == /\ flight[w] = "busy" /\ inv[w].row.attempts < MaxAttempts
                      /\ now + delay < Min2(inv[w].row.expires, inv[w].deadline)
         IN inv' = [inv EXCEPT
                ![w].pc = "finish", ![w].at = now,
                ![w].set = IF flight[w] = "accepted" THEN "provider_accepted"
                           ELSE IF again THEN "retryable"
                           ELSE "provider_rejected",
                ![w].next = now + delay,
                ![w].gone = flight[w] = "gone"]
    BY <1>5 DEF Settle
  <2>. DEFINE delay == Max2(inv[w].row.attempts, retryAfter)
  <2>. DEFINE again == /\ flight[w] = "busy" /\ inv[w].row.attempts < MaxAttempts
                       /\ now + delay < Min2(inv[w].row.expires, inv[w].deadline)
  <2>. DEFINE set == IF flight[w] = "accepted" THEN "provider_accepted"
                     ELSE IF again THEN "retryable" ELSE "provider_rejected"
  <2>. DEFINE r == finished(now + delay, set, flight[w] = "gone")
  <2>2. inv' = [inv EXCEPT ![w] = r]
    BY <2>1
  <2>3. now + delay \in Nat
    BY <1>3, <1>4 DEF Max2
  <2>4. /\ set \in {"retryable", "provider_accepted", "provider_rejected"}
        /\ set = "provider_accepted" => flight[w] = "accepted"
        /\ set = "provider_rejected" => flight[w] \in Answers \ {"accepted"}
    BY <1>5 DEF Settle
  <2>. HIDE DEF set, delay
  <2>5. r \in Invocation
    <3>1. now \in 0..MaxTime /\ set \in States /\ (flight[w] = "gone") \in BOOLEAN
      BY <1>1, <2>4 DEF TypeOK, States
    <3>. QED BY <1>1, <2>3, <3>1 DEF Invocation
  <2>6. Same(r, inv[w]) /\ r.pc = "finish" /\ r.set = set
    BY <1>1 DEF Invocation, Same
  <2>. HIDE DEF r
  <2>. QED BY <1>0, <2>2, <2>4, <2>5, <2>6, FinishQuiet
<1>6. CASE TokenUnreadable(w) /\ ClockOk(w)
  <2>. DEFINE r == [inv[w] EXCEPT !.pc = "finish", !.at = now, !.set = "unknown",
                                  !.next = now + inv[w].row.attempts]
  <2>1. inv' = [inv EXCEPT ![w] = r]
    BY <1>6 DEF TokenUnreadable
  <2>2. now + inv[w].row.attempts \in Nat /\ "unknown" \in States
    BY <1>4 DEF States
  <2>3. r \in Invocation /\ Same(r, inv[w]) /\ r.pc = "finish" /\ r.set = "unknown"
    BY <1>1, <2>2 DEF Invocation, Same, TypeOK
  <2>. HIDE DEF r
  <2>. QED BY <1>0, <2>1, <2>3, FinishQuiet
<1>. QED BY <1>2, <1>5, <1>6 DEF Settle, TokenUnreadable

LEMMA ReserveTurn ==
  ASSUME AInv, NEW w \in Workers, Reserve(w)
  PROVE  Turn(w)
<1>0. inv[w].pc = "reserve" /\ UNCHANGED flight /\ inv' = [inv EXCEPT ![w].pc = "reread"]
  BY DEF Reserve
<1>1. /\ inv[w] \in Invocation /\ inv[w] # Idle /\ Key(w) \in Operations /\ TypeOK
      /\ LeaseHeld(w) /\ inv[w].event \in Events
  BY <1>0, Acting
<1>2. flight[w] = "none"
  BY <1>0, <1>1 DEF LeaseHeld
<1>3. /\ inv'[w] \in Invocation /\ Same(inv'[w], inv[w]) /\ inv'[w].pc = "reread"
      /\ \A v \in Workers \ {w} : inv'[v] = inv[v]
  BY <1>0, <1>1, PcFact DEF Pcs
<1>4. Account(w)' /\ Moves(w)
  BY <1>0, <1>1, <1>2, <1>3 DEF Account, Holding, Moves
<1>5. CASE UNCHANGED ops
  BY <1>0, <1>4, <1>5 DEF Turn, Quiet, Moves
<1>6. CASE ops' # ops
  <2>. DEFINE e == inv[w].event
              cancelling == inv[w].action = "cancel"
              row == IF cancelling THEN NewRow(w, "cancelled", 0, Expiry[e])
                     ELSE NewRow(w, "reserved", inv[w].at, Min2(Expiry[e], inv[w].deadline))
  <2>1. MayReserve(e, row.created, cancelling) /\ ops' = [ops EXCEPT ![Key(w)] = row]
    BY <1>6 DEF Reserve, Key
  <2>2. row \in Operation /\ row.event = e
    <3>1. /\ inv[w].at \in Nat /\ Expiry[e] \in Nat /\ inv[w].deadline \in Nat
          /\ "reserved" \in States /\ "cancelled" \in States
      <4>1. inv[w].at \in 0..MaxTime /\ inv[w].deadline \in Deadlines
        BY <1>1 DEF Invocation
      <4>2. inv[w].at \in Nat BY <4>1
      <4>3. inv[w].deadline \in Nat BY <4>1
      <4>4. Expiry[e] \in Nat BY <1>1
      <4>. QED BY <4>2, <4>3, <4>4 DEF States
    <3>2. Min2(Expiry[e], inv[w].deadline) \in Nat
      BY <3>1 DEF Min2
    <3>. QED BY <1>1, <3>1, <3>2, NewRowFact
  <2>3. /\ row.lease = w /\ row.attempts = 1
        /\ row.state = IF cancelling THEN "cancelled" ELSE "reserved"
    BY DEF NewRow
  <2>4. ops[Key(w)] = NoRow
    BY <1>1, <2>1, LookupFact DEF AInv, MayReserve, Key
  <2>. HIDE DEF row
  <2>. QED BY <1>0, <1>2, <1>4, <2>1, <2>2, <2>3, <2>4 DEF Turn, Inserts, Writes
<1>. QED BY <1>5, <1>6

\* Goto and Throw together, for the steps that also write a row.
LEMMA MovesOn ==
  ASSUME AInv, NEW w \in Workers, inv[w].pc # "idle",
         NEW pc \in Pcs, Goto(w, pc) \/ Throw(w)
  PROVE  /\ Moves(w)
         /\ \/ inv'[w].pc = pc
            \/ inv'[w].pc = "done" /\ inv'[w].out = "refused"
            \/ inv'[w].pc = "finish" /\ inv'[w].set = "unknown" /\ InTry(w)
<1>1. inv[w] \in Invocation /\ TypeOK
  BY Acting
<1>2. CASE Goto(w, pc)
  <2>1. [inv[w] EXCEPT !.pc = pc] \in Invocation
    BY <1>1 DEF Invocation, Pcs
  <2>. QED BY <1>1, <1>2, <2>1, GotoFact DEF Moves
<1>3. CASE Throw(w) /\ InTry(w)
  BY <1>1, <1>3, ToUnknownFact DEF Throw, Moves
<1>4. CASE Throw(w) /\ ~ InTry(w)
  <2>1. "refused" \in Outs BY DEF Outs
  <2>. QED BY <1>1, <1>4, <2>1, LeaveOut DEF Throw, Return
<1>. QED BY <1>2, <1>3, <1>4

\* An UPDATE of a row and what the invocation knows of it.
LEMMA UpdateFact ==
  ASSUME AInv, NEW w \in Workers, Key(w) \in Rows, NEW row \in Operation,
         Kept(row, ops[Key(w)]), ops' = [ops EXCEPT ![Key(w)] = row], Moves(w)
  PROVE  /\ ops'[OperationOf[inv'[w].event]] = row /\ row # NoRow
         /\ Own(w, ops[Key(w)]) =>
             row.event = inv'[w].event /\ row.binding = inv'[w].reg.token
BY DEF AInv, IInv, TypeOK, Rows, Moves, Same, Kept, Own, Key

LEMMA RetryTurn ==
  ASSUME AInv, NEW w \in Workers, Retry(w)
  PROVE  Turn(w)
<1>0. inv[w].pc = "retry" /\ UNCHANGED flight
  BY DEF Retry
<1>1. /\ inv[w] \in Invocation /\ inv[w] # Idle /\ Key(w) \in Operations /\ TypeOK
      /\ LeaseHeld(w) /\ Account(w)
  BY <1>0, Acting
<1>. DEFINE k == Key(w)
<1>2. /\ flight[w] = "none" /\ ops[k] # NoRow /\ k \in Rows /\ Own(w, ops[k])
      /\ inv[w].action = "dispatch" /\ ops[k] \in Operation
  BY <1>0, <1>1 DEF LeaseHeld, Account, Holding, Key, Rows, TypeOK
<1>3. CASE UNCHANGED ops /\ Return(w, inv[w].row.state)
  <2>1. inv[w].row.state \in Outs \ Final
    BY <1>0, <1>1 DEF Account, Outs, Final, States
  <2>. QED BY <1>0, <1>3, <2>1, LeaveQuiet DEF Return, Turn
<1>4. CASE /\ ops[k].state = "retryable" /\ ops[k].attempts < MaxAttempts
           /\ ops' = [ops EXCEPT ![k].state = "reserved", ![k].lease = w,
                                 ![k].attempts = @ + 1]
           /\ Goto(w, "reget") \/ Throw(w)
  <2>. DEFINE row == [ops[k] EXCEPT !.state = "reserved", !.lease = w,
                                    !.attempts = @ + 1]
  <2>1. /\ row \in Operation /\ Kept(row, ops[k]) /\ row.state = "reserved"
        /\ row.lease = w /\ row.attempts = ops[k].attempts + 1
    <3>1. ops[k].attempts + 1 \in 1..MaxAttempts /\ "reserved" \in States
      BY <1>2, <1>4 DEF Operation, MaxAttempts, States
    <3>. QED BY <1>2, <3>1 DEF Operation, Kept
  <2>2. ops' = [ops EXCEPT ![k] = row]
    BY <1>4
  <2>. HIDE DEF row
  <2>3. /\ Moves(w)
        /\ \/ inv'[w].pc = "reget"
           \/ inv'[w].pc = "done" /\ inv'[w].out = "refused"
    BY <1>0, <1>4, MovesOn DEF Pcs, InTry
  <2>4. /\ ops'[OperationOf[inv'[w].event]] = row /\ row # NoRow
        /\ row.event = inv'[w].event /\ row.binding = inv'[w].reg.token
    BY <1>2, <2>1, <2>2, <2>3, UpdateFact
  <2>5. Account(w)'
    BY <1>0, <1>2, <2>1, <2>3, <2>4 DEF Account, Holding, Own, Moves, Same, Final
  <2>. QED BY <1>0, <1>2, <1>4, <2>1, <2>2, <2>3, <2>5 DEF Turn, Updates, Writes
<1>. QED BY <1>3, <1>4 DEF Retry, Key

LEMMA MarkTurn ==
  ASSUME AInv, NEW w \in Workers, Mark(w)
  PROVE  Turn(w)
<1>0. inv[w].pc = "mark" /\ UNCHANGED flight
  BY DEF Mark
<1>1. /\ inv[w] \in Invocation /\ inv[w] # Idle /\ Key(w) \in Operations /\ TypeOK
      /\ LeaseHeld(w) /\ Account(w)
  BY <1>0, Acting
<1>. DEFINE k == Key(w)
<1>2. /\ flight[w] = "none" /\ ops[k] # NoRow /\ k \in Rows /\ Own(w, ops[k])
      /\ inv[w].action = "dispatch" /\ ops[k] \in Operation
  BY <1>0, <1>1 DEF LeaseHeld, Account, Holding, Key, Rows, TypeOK
<1>3. CASE UNCHANGED ops /\ Return(w, "unknown")
  <2>1. "unknown" \in Outs \ Final
    BY DEF Outs, Final, States
  <2>. QED BY <1>0, <1>3, <2>1, LeaveQuiet DEF Return, Turn
<1>4. CASE /\ ops[k].lease = w /\ ops[k].state = "reserved"
           /\ ops' = [ops EXCEPT ![k].state = "dispatching"]
           /\ Goto(w, "check") \/ Throw(w)
  <2>. DEFINE row == [ops[k] EXCEPT !.state = "dispatching"]
  <2>1. /\ row \in Operation /\ Kept(row, ops[k]) /\ row.state = "dispatching"
        /\ row.lease = ops[k].lease /\ row.attempts = ops[k].attempts
    BY <1>2 DEF Operation, Kept, States
  <2>2. ops' = [ops EXCEPT ![k] = row]
    BY <1>4
  <2>. HIDE DEF row
  <2>3. /\ Moves(w)
        /\ \/ inv'[w].pc = "check"
           \/ inv'[w].pc = "done" /\ inv'[w].out = "refused"
           \/ inv'[w].pc = "finish" /\ inv'[w].set = "unknown"
    BY <1>0, <1>4, MovesOn DEF Pcs
  <2>4. /\ ops'[OperationOf[inv'[w].event]] = row /\ row # NoRow
        /\ row.event = inv'[w].event /\ row.binding = inv'[w].reg.token
    BY <1>2, <2>1, <2>2, <2>3, UpdateFact
  <2>5. Account(w)'
    BY <1>0, <1>2, <2>1, <2>3, <2>4 DEF Account, Holding, Own, Moves, Same, Final
  <2>. QED BY <1>0, <1>2, <1>4, <2>1, <2>2, <2>3, <2>5 DEF Turn, Updates, Writes
<1>. QED BY <1>3, <1>4 DEF Mark, Key

LEMMA CancelTurn ==
  ASSUME AInv, NEW w \in Workers, Cancel(w)
  PROVE  Turn(w)
<1>0. inv[w].pc = "cancel" /\ UNCHANGED flight
  BY DEF Cancel
<1>1. /\ inv[w] \in Invocation /\ inv[w] # Idle /\ Key(w) \in Operations /\ TypeOK
      /\ LeaseHeld(w)
  BY <1>0, Acting
<1>. DEFINE k == Key(w)
<1>2. flight[w] = "none" /\ inv[w].action = "cancel"
  BY <1>0, <1>1 DEF LeaseHeld
<1>3. /\ Moves(w) /\ ~ InTry(w)
      /\ \/ inv'[w].pc = "receipt"
         \/ inv'[w].pc = "done" /\ inv'[w].out = "refused"
  BY <1>0, MovesOn DEF Cancel, Pcs, InTry
<1>4. Account(w)'
  BY <1>0, <1>2, <1>3 DEF Account, Holding, Moves, Same, Final
<1>5. CASE UNCHANGED ops
  BY <1>0, <1>3, <1>4, <1>5 DEF Turn, Quiet, Moves
<1>6. CASE /\ k \in Rows /\ ops[k].state \in {"reserved", "retryable"}
           /\ ops' = [ops EXCEPT ![k].state = "cancelled"]
  <2>. DEFINE row == [ops[k] EXCEPT !.state = "cancelled"]
  <2>1. /\ row \in Operation /\ Kept(row, ops[k]) /\ row.state = "cancelled"
        /\ row.lease = ops[k].lease /\ row.attempts = ops[k].attempts
    BY <1>1, <1>6 DEF Operation, Kept, States, TypeOK, Rows
  <2>2. ops' = [ops EXCEPT ![k] = row]
    BY <1>6
  <2>. HIDE DEF row
  <2>. QED BY <1>0, <1>3, <1>4, <1>6, <2>1, <2>2 DEF Turn, Updates, Writes
<1>. QED BY <1>1, <1>5, <1>6 DEF Cancel, Key, Rows

LEMMA FinishTurn ==
  ASSUME AInv, NEW w \in Workers, Finish(w) \/ FinishFails(w)
  PROVE  Turn(w)
<1>0. inv[w].pc = "finish" /\ UNCHANGED flight
  BY DEF Finish, FinishFails
<1>1. /\ inv[w] \in Invocation /\ inv[w] # Idle /\ Key(w) \in Operations /\ TypeOK
      /\ LeaseHeld(w) /\ Account(w)
  BY <1>0, Acting
<1>. DEFINE k == Key(w)
            next == IF inv[w].gone THEN "invalidate" ELSE "receipt"
<1>2. /\ ops[k] # NoRow /\ k \in Rows /\ Own(w, ops[k]) /\ Holding(inv[w])
      /\ inv[w].action = "dispatch" /\ ops[k] \in Operation
  BY <1>0, <1>1 DEF LeaseHeld, Account, Holding, Key, Rows, TypeOK
<1>3. Goto(w, next) \/ Throw(w) \/ Leave(w, "done", "unknown")
  BY DEF Finish, FinishFails, Return
<1>4. "unknown" \in Outs \ Final
  BY DEF Outs, Final, States
<1>5. CASE UNCHANGED ops
  <2>1. CASE Goto(w, next)
    BY <1>0, <1>2, <1>5, <2>1, GotoQuiet DEF Pcs, Turn
  <2>2. CASE Throw(w)
    BY <1>0, <1>5, <2>2, ThrowQuiet DEF Turn
  <2>3. CASE Leave(w, "done", "unknown")
    BY <1>0, <1>4, <1>5, <2>3, LeaveQuiet DEF Turn
  <2>. QED BY <1>3, <2>1, <2>2, <2>3
<1>6. CASE /\ ops[k].lease = w /\ ops[k].state \in InProgress
           /\ ops' = [ops EXCEPT ![k].state = inv[w].set, ![k].next = inv[w].next]
  <2>. DEFINE row == [ops[k] EXCEPT !.state = inv[w].set, !.next = inv[w].next]
  <2>1. /\ row \in Operation /\ Kept(row, ops[k]) /\ row.state = inv[w].set
        /\ row.lease = ops[k].lease /\ row.attempts = ops[k].attempts
    <3>1. inv[w].set \in States /\ inv[w].next \in Nat
      BY <1>1 DEF Invocation
    <3>. QED BY <1>2, <3>1 DEF Operation, Kept
  <2>2. ops' = [ops EXCEPT ![k] = row]
    BY <1>6
  <2>. HIDE DEF row
  <2>3. /\ Moves(w)
        /\ \/ inv'[w].pc \in {"invalidate", "receipt"}
           \/ inv'[w].pc = "done" /\ inv'[w].out \in {"refused", "unknown"}
           \/ inv'[w].pc = "finish" /\ inv'[w].set = "unknown"
    <3>1. CASE Goto(w, next) \/ Throw(w)
      BY <1>0, <3>1, MovesOn DEF Pcs
    <3>2. CASE Leave(w, "done", "unknown")
      BY <1>1, <1>4, <3>2, LeaveOut
    <3>. QED BY <1>3, <3>1, <3>2
  <2>4. /\ ops'[OperationOf[inv'[w].event]] = row /\ row # NoRow
        /\ row.event = inv'[w].event /\ row.binding = inv'[w].reg.token
    BY <1>2, <2>1, <2>2, <2>3, UpdateFact
  <2>5. Account(w)'
    <3>1. flight'[w] \in {"sent", "accepted"} => row.state \notin {"cancelled", "provider_rejected"}
      BY <1>0, <1>1, <2>1 DEF Account, Answers
    <3>. QED BY <1>0, <1>2, <2>3, <2>4, <3>1 DEF Account, Holding, Own, Moves, Same, Final
  <2>. QED BY <1>0, <1>2, <1>6, <2>1, <2>2, <2>3, <2>5 DEF Turn, Updates, Writes
<1>. QED BY <1>5, <1>6 DEF Finish, FinishFails, Finishing, Key

LEMMA FetchTurn ==
  ASSUME AInv, NEW w \in Workers, Fetch(w)
  PROVE  Turn(w)
<1>0. inv[w].pc = "fetch" /\ UNCHANGED ops
  BY DEF Fetch
<1>1. /\ inv[w] \in Invocation /\ inv[w] # Idle /\ Key(w) \in Operations /\ TypeOK
      /\ LeaseHeld(w) /\ Account(w)
  BY <1>0, Acting
<1>2. CASE Throw(w) /\ UNCHANGED flight
  BY <1>0, <1>2, ThrowQuiet DEF Turn
<1>3. CASE Goto(w, "await") /\ flight' = [flight EXCEPT ![w] = "sent"]
  <2>1. [inv[w] EXCEPT !.pc = "await"] \in Invocation
    BY <1>1 DEF Invocation
  <2>2. Moves(w) /\ inv'[w].pc = "await"
    BY <1>1, <1>3, <2>1, GotoFact DEF Moves
  <2>3. /\ flight[w] = "none" /\ inv[w].action = "dispatch"
        /\ ops[Key(w)] # NoRow /\ Own(w, ops[Key(w)]) /\ ops[Key(w)].state = "dispatching"
    BY <1>0, <1>1 DEF LeaseHeld, Account, Holding, Key
  <2>4. Account(w)'
    BY <1>0, <2>2, <2>3 DEF Account, Holding, Own, Moves, Same, Key
  <2>. QED BY <1>0, <1>3, <2>2, <2>3, <2>4 DEF Turn, Sends
<1>. QED BY <1>2, <1>3 DEF Fetch

LEMMA StepIsTurn ==
  ASSUME AInv, [Next]_vars
  PROVE  Still \/ \E w \in Workers : Turn(w)
<1>1. ASSUME NEW w \in Workers, Store(w)
      PROVE  Turn(w)
  <2>1. CASE \/ CheckCurrent(w) \/ LookupDispatch(w) \/ LookupCancel(w)
             \/ RereadDispatch(w) \/ RereadCancel(w) \/ Reget(w)
    BY <2>1, LookupTurn DEF Turn
  <2>2. CASE BuildNotification(w) \/ CanDispatch(w) \/ Invalidate(w)
    BY <2>2, WorkTurn DEF Turn
  <2>3. CASE Receipt(w) \/ Settle(w)
    BY <2>3, ReceiptTurn, SettleTurn DEF Turn
  <2>4. CASE Reserve(w) \/ Retry(w) \/ Mark(w) \/ Fetch(w) \/ Finish(w) \/ Cancel(w)
    BY <2>4, ReserveTurn, RetryTurn, MarkTurn, FetchTurn, FinishTurn, CancelTurn
  <2>. QED BY <1>1, <2>1, <2>2, <2>3, <2>4 DEF Store
<1>2. ASSUME NEW w \in Workers, NEW e \in Events,
             NEW action \in {"dispatch", "cancel"}, Admit(w, e, action)
      PROVE  Turn(w)
  BY <1>2, AdmitTurn DEF Turn
<1>3. ASSUME NEW w \in Workers,
             \/ ProviderAnswer(w) \/ ProviderTimeout(w) \/ TokenUnreadable(w)
             \/ FinishFails(w) \/ Abandon(w) \/ Crash(w)
      PROVE  Turn(w)
  <2>1. CASE ProviderAnswer(w)
    BY <2>1 DEF ProviderAnswer, Turn, Answered
  <2>2. CASE ProviderTimeout(w) \/ Abandon(w) \/ Crash(w)
    BY <2>2, WorkTurn DEF Turn
  <2>3. CASE TokenUnreadable(w)
    BY <2>3, SettleTurn DEF Turn
  <2>. QED BY <1>3, <2>1, <2>2, <2>3, FinishTurn
<1>4. CASE Environment \/ UNCHANGED vars
  BY <1>4, EnvironmentOK DEF AInv, Still
<1>. QED BY <1>1, <1>2, <1>3, <1>4 DEF Next

-----------------------------------------------------------------------------
\* What every step keeps.

\* Once filed, a row keeps its event, its token and its reservation time.
RowsKept ==
  \A k \in Rows : k \in Rows' /\ Kept(ops'[k], ops[k])

\* Of an invocation that has made a request nothing changes but what the
\* provider answers it.
FlightsKept ==
  \A v \in Workers : inv[v] # Idle =>
    /\ inv'[v] # Idle /\ Same(inv'[v], inv[v])
    /\ flight[v] # "none" => flight'[v] # "none"
    /\ flight[v] = "accepted" => flight'[v] = "accepted"

LEMMA TurnKeeps ==
  ASSUME AInv, Still \/ \E w \in Workers : Turn(w)
  PROVE  RowsKept /\ FlightsKept
<1>1. TypeOK
  BY DEF AInv, IInv
<1>2. CASE Still
  BY <1>1, <1>2 DEF Still, RowsKept, FlightsKept, Rows, Kept, Same
<1>3. ASSUME NEW w \in Workers, Turn(w)
      PROVE  RowsKept /\ FlightsKept
  <2>1. RowsKept
    <3>1. CASE UNCHANGED ops
      BY <3>1 DEF RowsKept, Rows, Kept
    <3>2. ASSUME NEW row \in Operation, Inserts(w, row) \/ Updates(w, row)
          PROVE  RowsKept
      <4>1. /\ inv[w] \in Invocation /\ ops' = [ops EXCEPT ![Key(w)] = row]
            /\ ops[Key(w)] = NoRow \/ Kept(row, ops[Key(w)])
        BY <3>2 DEF Inserts, Updates, Writes, Moves
      <4>. QED BY <1>1, <4>1 DEF RowsKept, Rows, Kept, TypeOK
    <3>. QED BY <1>3, <3>1, <3>2 DEF Turn, Quiet, Sends, Answered
  <2>2. FlightsKept
    <3>1. CASE Quiet(w)
      BY <3>1, InvocationNotIdle DEF Quiet, Moves, FlightsKept, Same
    <3>2. CASE Answered(w) 
      BY <1>1, <3>2 DEF Answered, FlightsKept, TypeOK, Same, Answers
    <3>3. CASE Sends(w)
      BY <1>1, <3>3, InvocationNotIdle DEF Sends, Moves, FlightsKept, TypeOK, Same
    <3>4. CASE \E row \in Operation : Inserts(w, row) \/ Updates(w, row)
      BY <3>4, InvocationNotIdle DEF Inserts, Updates, Writes, Moves, FlightsKept, Same
    <3>. QED BY <1>3, <3>1, <3>2, <3>3, <3>4 DEF Turn
  <2>. QED BY <2>1, <2>2
<1>. QED BY <1>2, <1>3

LEMMA TurnKeepsAccounts ==
  ASSUME AInv, NEW w \in Workers, Turn(w), TypeOK'
  PROVE  Accounts'
<1>1. /\ TypeOK /\ RowsKeyed /\ (\A v \in Workers : Account(v) /\ LeaseHeld(v))
      /\ \A k \in Operations : RowTrue(k)
  BY DEF AInv, IInv, LeaseInv, Accounts
<1>2. RowsKept /\ FlightsKept
  BY TurnKeeps
<1>3. ASSUME NEW v \in Workers, v # w PROVE Account(v)'
  <2>1. inv'[v] = inv[v] /\ flight'[v] = flight[v]
    <3>1. CASE Quiet(w)  BY <1>3, <3>1 DEF Quiet, Moves
    <3>2. CASE Answered(w)  BY <1>1, <1>3, <3>2 DEF Answered, TypeOK
    <3>3. CASE Sends(w)  BY <1>1, <1>3, <3>3 DEF Sends, Moves, TypeOK
    <3>4. CASE \E row \in Operation : Inserts(w, row) \/ Updates(w, row)
      BY <1>3, <3>4 DEF Inserts, Updates, Writes, Moves
    <3>. QED BY <3>1, <3>2, <3>3, <3>4 DEF Turn
  <2>2. CASE inv[v] = Idle
    BY <2>1, <2>2 DEF Account
  <2>3. CASE inv[v] # Idle
    <3>1. inv[v] \in Invocation /\ Key(v) \in Operations
      BY <1>1, <2>3 DEF Key, TypeOK, Invocation
    <3>. PICK k \in Operations : k = Key(v)
      BY <3>1
    <3>2. ops[k] # NoRow => ops'[k] # NoRow /\ Kept(ops'[k], ops[k])
      BY <1>2 DEF RowsKept, Rows
    <3>3. \/ ops'[k] = ops[k]
          \/ ops[k] = NoRow
          \/ ops[k].state \in {"reserved", "retryable"}
          \/ ops[k].lease = w /\ ops[k].state \in InProgress
      <4>1. CASE UNCHANGED ops  BY <4>1
      <4>2. ASSUME NEW row \in Operation, Inserts(w, row) \/ Updates(w, row)
            PROVE  \/ ops'[k] = ops[k]
                   \/ ops[k] = NoRow
                   \/ ops[k].state \in {"reserved", "retryable"}
                   \/ ops[k].lease = w /\ ops[k].state \in InProgress
        <5>1. ops' = [ops EXCEPT ![Key(w)] = row]
          BY <4>2 DEF Inserts, Updates, Writes
        <5>2. \/ ops[Key(w)] = NoRow
              \/ ops[Key(w)].state \in {"reserved", "retryable"}
              \/ ops[Key(w)].lease = w /\ ops[Key(w)].state \in InProgress
          BY <4>2 DEF Inserts, Updates, InProgress
        <5>. QED BY <1>1, <5>1, <5>2 DEF TypeOK
      <4>. QED BY <1>3, <4>1, <4>2 DEF Turn, Quiet, Sends, Answered
    <3>4. Account(v) /\ LeaseHeld(v)
      BY <1>1
    <3>5. flight[v] \in {"sent", "accepted"} => ops'[k] = ops[k]
      BY <1>3, <2>3, <3>3, <3>4 DEF LeaseHeld, Account, Key, Unrepeatable, Rows
    <3>6. inv[v].pc = "done" /\ inv[v].out \in Final => ops'[k] = ops[k]
      BY <2>3, <3>3, <3>4 DEF Account, Key, Final, InProgress
    <3>7. Holding(inv[v]) \/ flight[v] # "none" =>
             ops'[k] # NoRow /\ ops'[k].event = inv[v].event
             /\ ops'[k].binding = inv[v].reg.token /\ inv[v].action = "dispatch"
      BY <2>3, <3>2, <3>4 DEF Account, Own, Kept, Key
    <3>. QED BY <2>1, <2>3, <3>4, <3>5, <3>6, <3>7 DEF Account, Own, Key
  <2>. QED BY <2>2, <2>3
<1>4. Account(w)'
  <2>1. CASE Answered(w)
    <3>1. PICK a \in Answers : flight' = [flight EXCEPT ![w] = a]
      BY <2>1 DEF Answered
    <3>2. flight[w] = "sent" /\ flight'[w] = a /\ inv' = inv /\ ops' = ops
      BY <1>1, <2>1, <3>1 DEF Answered, TypeOK
    <3>3. LeaseHeld(w) /\ Account(w)
      BY <1>1
    <3>4. inv[w] # Idle => inv[w].pc # "finish" \/ inv[w].set \notin {"provider_accepted", "provider_rejected"}
      BY <3>2, <3>3 DEF Account, Answers
    <3>. QED BY <3>2, <3>3, <3>4 DEF Account, Own, Answers
  <2>. QED BY <2>1 DEF Turn, Quiet, Sends, Inserts, Updates, Writes
<1>5. ASSUME NEW k \in Operations PROVE RowTrue(k)'
  <2>1. \A v \in Senders(k) : v \in Senders(k)' /\ (flight[v] = "accepted" => flight'[v] = "accepted")
    <3>1. ASSUME NEW v \in Senders(k) PROVE v \in Workers /\ inv[v] # Idle
      BY <1>1 DEF LeaseHeld, Senders
    <3>. QED BY <1>2, <3>1 DEF FlightsKept, Senders, Same
  <2>2. ops'[k] = ops[k] => RowTrue(k)'
    BY <1>1, <2>1 DEF RowTrue, Rows
  <2>3. CASE UNCHANGED ops
    BY <2>2, <2>3
  <2>4. ASSUME NEW row \in Operation, Inserts(w, row) \/ Updates(w, row)
        PROVE  RowTrue(k)'
    <3>1. ops' = [ops EXCEPT ![Key(w)] = row] /\ inv[w] \in Invocation
      BY <2>4 DEF Inserts, Updates, Writes, Moves
    <3>2. CASE k # Key(w)
      BY <1>1, <2>2, <3>1, <3>2 DEF TypeOK
    <3>3. CASE k = Key(w) /\ row.state # "provider_accepted"
      BY <1>1, <3>1, <3>3 DEF TypeOK, RowTrue
    <3>4. CASE k = Key(w) /\ row.state = "provider_accepted"
      <4>1. inv[w].pc = "finish" /\ inv[w].set = "provider_accepted"
        BY <2>4, <3>4 DEF Inserts, Updates
      <4>2. flight[w] = "accepted" /\ inv[w] # Idle
        BY <1>1, <3>1, <4>1, InvocationNotIdle DEF Account
      <4>3. w \in Senders(k) /\ flight'[w] = "accepted"
        BY <1>2, <3>4, <4>2 DEF Senders, Key, FlightsKept
      <4>. QED BY <2>1, <4>3 DEF RowTrue
    <3>. QED BY <3>2, <3>3, <3>4
  <2>. QED BY <2>3, <2>4 DEF Turn, Quiet, Sends, Answered
<1>. QED BY <1>3, <1>4, <1>5 DEF Accounts

LEMMA StepKeepsAInv ==
  ASSUME AInv, [Next]_vars
  PROVE  AInv'
<1>1. IInv' /\ TypeOK'
  BY StepKeepsIInv DEF AInv, IInv
<1>2. CASE Still
  <2>1. \A w \in Workers : Account(w)'
    BY <1>2 DEF Still, AInv, Accounts, Account, Own
  <2>2. \A k \in Operations : RowTrue(k)'
    BY <1>2 DEF Still, AInv, Accounts, RowTrue, Rows, Senders
  <2>. QED BY <1>1, <2>1, <2>2 DEF AInv, Accounts
<1>3. CASE \E w \in Workers : Turn(w)
  BY <1>1, <1>3, TurnKeepsAccounts DEF AInv
<1>. QED BY <1>2, <1>3, StepIsTurn

LEMMA InitHasAInv ==
  ASSUME Init
  PROVE  AInv
<1>1. Accounts
  BY DEF Init, Accounts, Account, RowTrue, Rows
<1>. QED BY <1>1, InitHasIInv DEF AInv

LEMMA AccountsInductive == Spec => []AInv
<1>. QED BY InitHasAInv, StepKeepsAInv, PTL DEF Spec

\* All the requests made for one operation, by whatever invocations, carry one
\* event to one token, whenever the Watch registered again and whatever other
\* event raced for the operation (service.ts:98-100).
THEOREM TokensKept == Spec => []TokenKept
<1>1. AInv => TokenNeverSwitches
  <2>. SUFFICES ASSUME AInv, NEW k \in Operations, NEW v \in Senders(k), NEW w \in Senders(k)
                PROVE  inv[v].event = inv[w].event /\ inv[v].reg.token = inv[w].reg.token
    BY DEF TokenNeverSwitches
  <2>1. ASSUME NEW u \in Senders(k)
        PROVE  ops[k].event = inv[u].event /\ ops[k].binding = inv[u].reg.token
    <3>1. u \in Workers /\ Account(u) /\ LeaseHeld(u) /\ flight[u] # "none"
      BY DEF Senders, AInv, Accounts, IInv, LeaseInv
    <3>. QED BY <3>1 DEF Senders, LeaseHeld, Account, Own
  <2>. QED BY <2>1
<1>2. AInv => TokenKept
  BY <1>1 DEF AInv, IInv, TokenKept
<1>. QED BY <1>2, AccountsInductive, PTL

\* A receipt says "provider_accepted" only of what the provider accepted, and
\* "cancelled" or "provider_rejected" only of what it never will, long after the
\* invocation that returned it is gone.
THEOREM ReceiptsTruthful == Spec => []ReceiptTruthful
<1>1. AInv => ReceiptTruthful
  <2>. SUFFICES ASSUME AInv, NEW w \in Workers, inv[w].pc = "done"
                PROVE  LET k == OperationOf[inv[w].event] IN
                       /\ inv[w].out = "provider_accepted" =>
                            \E v \in Senders(k) : flight[v] = "accepted"
                       /\ inv[w].out \in {"cancelled", "provider_rejected"} =>
                            \A v \in Senders(k) : flight[v] \notin {"sent", "accepted"}
    BY DEF ReceiptTruthful
  <2>1. inv[w] # Idle /\ Key(w) \in Operations /\ Account(w)
    BY Acting
  <2>2. inv[w].out = "provider_accepted" => \E v \in Senders(Key(w)) : flight[v] = "accepted"
    BY <2>1 DEF AInv, Accounts, Account, Final, RowTrue, Rows, Key
  <2>3. ASSUME inv[w].out \in {"cancelled", "provider_rejected"}, NEW v \in Senders(Key(w))
        PROVE  flight[v] \notin {"sent", "accepted"}
    <3>1. v \in Workers /\ Account(v) /\ LeaseHeld(v)
      BY DEF Senders, AInv, Accounts, IInv, LeaseInv
    <3>. QED BY <2>1, <2>3, <3>1 DEF Account, LeaseHeld, Senders, Final, Key
  <2>. QED BY <2>2, <2>3 DEF Key
<1>. QED BY <1>1, AccountsInductive, PTL

-----------------------------------------------------------------------------
\* How many requests an operation has had.

\* The requests of an operation and the lease that may make the next one are
\* no more than the attempts its row has counted.
Counted(k) ==
  LET holders == Senders(k) \cup {ops[k].lease} IN
  k \in Rows => IsFiniteSet(holders) /\ Cardinality(holders) <= ops[k].attempts

CInv == AInv /\ \A k \in Operations : Counted(k)

LEMMA SendersMove ==
  ASSUME AInv, NEW w \in Workers, Turn(w), NEW k \in Operations
  PROVE  Senders(k)' = IF Sends(w) /\ k = Key(w) THEN Senders(k) \cup {w} ELSE Senders(k)
<1>1. TypeOK /\ \A v \in Workers : LeaseHeld(v)
  BY DEF AInv, IInv, LeaseInv
<1>2. FlightsKept
  BY TurnKeeps
<1>3. ASSUME NEW v \in Workers
      PROVE  v \in Senders(k)' <=> v \in Senders(k) \/ (Sends(w) /\ k = Key(w) /\ v = w)
  <2>1. CASE inv[v] = Idle
    <3>1. flight[v] = "none"
      BY <1>1, <2>1 DEF LeaseHeld
    <3>2. ~ (Sends(w) /\ v = w)
      BY <2>1, InvocationNotIdle DEF Sends, Moves
    <3>3. flight'[v] = "none"
      <4>1. CASE Quiet(w) \/ \E row \in Operation : Inserts(w, row) \/ Updates(w, row)
        BY <3>1, <4>1 DEF Quiet, Inserts, Updates, Writes
      <4>2. CASE Answered(w)
        BY <1>1, <3>1, <4>2 DEF Answered, TypeOK
      <4>3. CASE Sends(w)
        BY <1>1, <3>1, <3>2, <4>3 DEF Sends, TypeOK
      <4>. QED BY <4>1, <4>2, <4>3 DEF Turn
    <3>. QED BY <3>1, <3>2, <3>3 DEF Senders
  <2>2. CASE inv[v] # Idle
    <3>1. inv'[v].event = inv[v].event
      BY <1>2, <2>2 DEF FlightsKept, Same
    <3>2. flight'[v] # "none" <=> flight[v] # "none" \/ (Sends(w) /\ v = w)
      <4>1. CASE Quiet(w) \/ \E row \in Operation : Inserts(w, row) \/ Updates(w, row)
        <5>1. flight' = flight
          BY <4>1 DEF Quiet, Inserts, Updates, Writes
        <5>2. Sends(w) => flight'[w] = "sent" /\ flight[w] = "none"
          BY <1>1 DEF Sends, TypeOK
        <5>. QED BY <5>1, <5>2
      <4>2. CASE Answered(w)
        <5>1. flight[w] = "sent" /\ ~ Sends(w)
          BY <4>2 DEF Answered, Sends
        <5>. QED BY <1>1, <4>2, <5>1 DEF Answered, TypeOK, Answers
      <4>3. CASE Sends(w)
        BY <1>1, <4>3 DEF Sends, TypeOK
      <4>. QED BY <4>1, <4>2, <4>3 DEF Turn
    <3>. QED BY <3>1, <3>2 DEF Senders, Key
  <2>. QED BY <2>1, <2>2
<1>4. Senders(k)' \subseteq Workers /\ Senders(k) \subseteq Workers
  BY DEF Senders
<1>. QED BY <1>3, <1>4

LEMMA TurnKeepsCounted ==
  ASSUME CInv, NEW w \in Workers, Turn(w), NEW k \in Operations
  PROVE  Counted(k)'
<1>0. /\ AInv /\ TypeOK /\ (\A v \in Workers : LeaseHeld(v) /\ Account(v)) /\ Counted(k)
      /\ RowsKept
  BY TurnKeeps DEF CInv, AInv, IInv, LeaseInv, Accounts
<1>. DEFINE holders == Senders(k) \cup {ops[k].lease}
<1>1. Senders(k)' = IF Sends(w) /\ k = Key(w) THEN Senders(k) \cup {w} ELSE Senders(k)
  BY <1>0, SendersMove
<1>2. CASE UNCHANGED ops
  <2>1. CASE Sends(w) /\ k = Key(w)
    <3>1. ops[k].lease = w
      BY <1>0, <2>1, InvocationNotIdle DEF Sends, Moves, LeaseHeld, Key
    <3>2. Senders(k)' \cup {ops'[k].lease} = holders
      BY <1>1, <1>2, <2>1, <3>1
    <3>. QED BY <1>0, <1>2, <3>2 DEF Counted, Rows
  <2>2. CASE ~ (Sends(w) /\ k = Key(w))
    <3>1. Senders(k)' = Senders(k)
      BY <1>1, <2>2
    <3>. QED BY <1>0, <1>2, <3>1 DEF Counted, Rows
  <2>. QED BY <2>1, <2>2
<1>3. ASSUME NEW row \in Operation, Inserts(w, row) \/ Updates(w, row)
      PROVE  Counted(k)'
  <2>1. /\ ops' = [ops EXCEPT ![Key(w)] = row] /\ flight' = flight
        /\ inv[w] \in Invocation
    BY <1>3 DEF Inserts, Updates, Writes, Moves
  <2>2. Senders(k)' = Senders(k)
    <3>1. Sends(w) => flight'[w] = "sent" /\ flight[w] = "none"
      BY <1>0 DEF Sends, TypeOK
    <3>. QED BY <1>1, <2>1, <3>1
  <2>3. CASE k # Key(w)
    <3>1. ops'[k] = ops[k]
      BY <1>0, <2>1, <2>3 DEF TypeOK
    <3>. QED BY <1>0, <2>2, <3>1 DEF Counted, Rows
  <2>4. CASE k = Key(w)
    <3>1. ops'[k] = row /\ row.attempts \in Nat
      BY <1>0, <2>1, <2>4 DEF TypeOK, Operation, MaxAttempts
    <3>2. CASE Inserts(w, row)
      <4>1. ops[k] = NoRow /\ row.lease = w /\ row.attempts = 1
        BY <2>4, <3>2 DEF Inserts
      <4>2. Senders(k) = {}
        <5>1. ASSUME NEW v \in Senders(k) PROVE FALSE
          <6>1. v \in Workers /\ flight[v] # "none" /\ OperationOf[inv[v].event] = k
            BY DEF Senders
          <6>. QED BY <1>0, <4>1, <6>1 DEF LeaseHeld, Account
        <5>. QED BY <5>1
      <4>3. Senders(k)' \cup {ops'[k].lease} = {w}
        BY <2>2, <3>1, <4>1, <4>2
      <4>4. IsFiniteSet({w}) /\ Cardinality({w}) = 1
        BY FS_Singleton
      <4>. QED BY <3>1, <4>1, <4>3, <4>4 DEF Counted
    <3>3. CASE Updates(w, row)
      <4>1. /\ k \in Rows
            /\ \/ row.lease = ops[k].lease /\ row.attempts = ops[k].attempts
               \/ row.lease = w /\ row.attempts = ops[k].attempts + 1
        BY <2>4, <3>3 DEF Updates
      <4>2. IsFiniteSet(holders) /\ Cardinality(holders) <= ops[k].attempts
        BY <1>0, <4>1 DEF Counted
      <4>3. CASE row.lease = ops[k].lease /\ row.attempts = ops[k].attempts
        <5>1. Senders(k)' \cup {ops'[k].lease} = holders
          BY <2>2, <3>1, <4>3
        <5>. QED BY <3>1, <4>2, <4>3, <5>1 DEF Counted
      <4>4. CASE row.lease = w /\ row.attempts = ops[k].attempts + 1
        <5>. DEFINE more == Senders(k) \cup {w}
        <5>1. Senders(k)' \cup {ops'[k].lease} = more
          BY <2>2, <3>1, <4>4
        <5>2. /\ IsFiniteSet(holders \cup {w})
              /\ Cardinality(holders \cup {w}) \in {Cardinality(holders), Cardinality(holders) + 1}
          BY <4>2, FS_AddElement
        <5>3. more \subseteq holders \cup {w}
          OBVIOUS
        <5>4. IsFiniteSet(more) /\ Cardinality(more) <= Cardinality(holders \cup {w})
          BY <5>2, <5>3, FS_Subset
        <5>5. Cardinality(holders) \in Nat /\ Cardinality(more) \in Nat /\ ops[k].attempts \in Nat
          BY <1>0, <4>1, <4>2, <5>4, FS_CardinalityType DEF TypeOK, Rows, Operation, MaxAttempts
        <5>6. Cardinality(more) <= ops[k].attempts + 1
          BY <4>2, <5>2, <5>4, <5>5
        <5>. HIDE DEF more
        <5>. QED BY <3>1, <4>4, <5>1, <5>4, <5>6 DEF Counted
      <4>. QED BY <4>1, <4>3, <4>4
    <3>. QED BY <1>3, <3>2, <3>3
  <2>. QED BY <2>3, <2>4
<1>. QED BY <1>2, <1>3 DEF Turn, Quiet, Sends, Answered

LEMMA CountedInductive == Spec => []CInv
<1>1. Init => CInv
  <2>1. ASSUME Init PROVE \A k \in Operations : Counted(k)
    BY <2>1 DEF Init, Counted, Rows
  <2>. QED BY <2>1, InitHasAInv DEF CInv
<1>2. CInv /\ [Next]_vars => CInv'
  <2>. SUFFICES ASSUME CInv, [Next]_vars PROVE CInv'
    OBVIOUS
  <2>1. AInv
    BY DEF CInv
  <2>2. AInv'
    BY <2>1, StepKeepsAInv
  <2>3. CASE Still
    BY <2>2, <2>3 DEF Still, CInv, Counted, Rows, Senders
  <2>4. CASE \E w \in Workers : Turn(w)
    BY <2>2, <2>4, TurnKeepsCounted DEF CInv
  <2>. QED BY <2>1, <2>3, <2>4, StepIsTurn
<1>. QED BY <1>1, <1>2, PTL DEF Spec

-----------------------------------------------------------------------------
\* The steps of MomentDelivery.

Tries == [k \in Operations |-> Cardinality(Senders(k))]
Outcomes == [k \in Operations |-> Outcome(k)]

\* A request that must not be repeated is the only one that counts.
LEMMA OutcomeFacts ==
  ASSUME AInv, NEW k \in Operations
  PROVE  /\ \A v \in Senders(k) : flight[v] \in {"sent"} \cup Answers
         /\ \A v, w \in Senders(k) : flight[v] \in Unrepeatable /\ flight[w] \in Unrepeatable
              => v = w
         /\ \A v \in Senders(k) : flight[v] \in Unrepeatable =>
              /\ k \in Rows /\ ops[k].lease = v
              /\ ops[k].state \notin {"reserved", "retryable"}
         /\ k \notin Rows => Senders(k) = {}
<1>1. ASSUME NEW v \in Senders(k)
      PROVE  /\ flight[v] \in {"sent"} \cup Answers /\ k \in Rows
             /\ flight[v] \in Unrepeatable =>
                  /\ ops[k].lease = v /\ ops[k].state \notin {"reserved", "retryable"}
  <2>1. /\ v \in Workers /\ flight[v] # "none" /\ OperationOf[inv[v].event] = k
        /\ LeaseHeld(v) /\ Account(v) /\ TypeOK
    BY DEF Senders, AInv, Accounts, IInv, LeaseInv
  <2>. QED BY <2>1 DEF TypeOK, LeaseHeld, Account, Rows
<1>. QED BY <1>1

\* Nothing an outcome is made of has changed.
LEMMA OutcomeFrame ==
  ASSUME NEW k \in Operations, Senders(k)' = Senders(k),
         \A v \in Senders(k) : flight'[v] = flight[v],
         (ops'[k] # NoRow /\ ops'[k].state = "cancelled")
           <=> (ops[k] # NoRow /\ ops[k].state = "cancelled")
  PROVE  Outcome(k)' = Outcome(k)
<1>1. \A a : (\E v \in Senders(k)' : flight'[v] = a) <=> (\E v \in Senders(k) : flight[v] = a)
  OBVIOUS
<1>. QED BY <1>1 DEF Outcome

\* Steps that make no request and get no answer can only withdraw an open event.
LEMMA RowsRefine ==
  ASSUME AInv, NEW w \in Workers, Turn(w), UNCHANGED flight
  PROVE  /\ \A k \in Operations : Senders(k)' = Senders(k)
         /\ \A k \in Operations : k # Key(w) => Outcome(k)' = Outcome(k)
         /\ \A k \in Operations :
              Outcome(k)' = Outcome(k) \/ (Outcome(k) = "open" /\ Outcome(k)' = "closed")
<1>0. TypeOK /\ (\A v \in Workers : Account(v)) /\ RowsKept
  BY TurnKeeps DEF AInv, IInv, Accounts
<1>1. ASSUME NEW k \in Operations PROVE Senders(k)' = Senders(k)
  <2>1. ~ Sends(w)
    BY <1>0 DEF Sends, TypeOK
  <2>. QED BY <2>1, SendersMove
<1>2. CASE UNCHANGED ops
  BY <1>1, <1>2, OutcomeFrame
<1>3. ASSUME NEW row \in Operation, Inserts(w, row) \/ Updates(w, row)
      PROVE  /\ \A k \in Operations : k # Key(w) => Outcome(k)' = Outcome(k)
             /\ \A k \in Operations :
              Outcome(k)' = Outcome(k) \/ (Outcome(k) = "open" /\ Outcome(k)' = "closed")
  <2>1. ops' = [ops EXCEPT ![Key(w)] = row] /\ inv[w] \in Invocation
    BY <1>3 DEF Inserts, Updates, Writes, Moves
  <2>2. ASSUME NEW k \in Operations, k # Key(w) PROVE Outcome(k)' = Outcome(k)
    <3>1. ops'[k] = ops[k]
      BY <1>0, <2>1, <2>2 DEF TypeOK
    <3>. QED BY <1>1, <3>1, OutcomeFrame
  <2>3. ASSUME NEW k \in Operations, k = Key(w)
        PROVE  \/ Outcome(k)' = Outcome(k)
               \/ Outcome(k) = "open" /\ Outcome(k)' = "closed"
    <3>1. ops'[k] = row /\ row # NoRow
      BY <1>0, <2>1, <2>3 DEF TypeOK
    <3>2. ops[k] # NoRow /\ ops[k].state = "cancelled" => row.state = "cancelled"
      BY <1>3, <2>3 DEF Inserts, Updates, InProgress
    <3>3. CASE row.state # "cancelled" \/ (ops[k] # NoRow /\ ops[k].state = "cancelled")
      <4>1. Outcome(k)' = Outcome(k)
        BY <1>1, <3>1, <3>2, <3>3, OutcomeFrame
      <4>. QED BY <4>1
    <3>4. CASE row.state = "cancelled" /\ ~ (ops[k] # NoRow /\ ops[k].state = "cancelled")
      <4>1. k \notin Rows \/ ops[k].state \in {"reserved", "retryable"}
        <5>1. inv[w].pc = "finish" => inv[w].set # "cancelled"
          BY <1>0, <2>1, InvocationNotIdle DEF Account
        <5>. QED BY <1>3, <2>3, <3>4, <5>1 DEF Inserts, Updates, Rows
      <4>2. \A v \in Senders(k) : flight[v] = "busy"
        BY <4>1, OutcomeFacts DEF Unrepeatable, Answers
      <4>3. Outcome(k) = "open"
        BY <3>4, <4>2 DEF Outcome
      <4>4. Outcome(k)' = "closed"
        BY <1>1, <3>1, <3>4, <4>2 DEF Outcome
      <4>. QED BY <4>3, <4>4
    <3>. QED BY <3>3, <3>4
  <2>. QED BY <2>2, <2>3
<1>4. ~ Sends(w) /\ ~ Answered(w)
  BY <1>0 DEF Sends, Answered, TypeOK, Answers
<1>. QED BY <1>1, <1>2, <1>3, <1>4 DEF Turn, Quiet

LEMMA SendRefines ==
  ASSUME CInv, NEW w \in Workers, Sends(w), NEW k \in Operations, k = Key(w)
  PROVE  /\ \A j \in Operations \ {k} :
              Senders(j)' = Senders(j) /\ Outcome(j)' = Outcome(j)
         /\ Outcome(k) = "open" /\ Outcome(k)' = "trying"
         /\ Cardinality(Senders(k)) < MaxAttempts
         /\ Cardinality(Senders(k))' = Cardinality(Senders(k)) + 1
<1>0. AInv /\ TypeOK /\ Turn(w) /\ inv[w] # Idle /\ LeaseHeld(w) /\ Key(w) \in Operations
  BY Acting DEF CInv, Turn, Sends
<1>1. /\ flight'[w] = "sent" /\ flight[w] = "none"
      /\ \A v \in Workers \ {w} : flight'[v] = flight[v]
      /\ ops' = ops
  BY <1>0 DEF Sends, TypeOK
<1>2. Senders(k)' = Senders(k) \cup {w} /\ w \notin Senders(k)
  BY <1>0, <1>1, SendersMove DEF Senders
<1>3. ASSUME NEW j \in Operations \ {k} PROVE Senders(j)' = Senders(j) /\ Outcome(j)' = Outcome(j)
  <2>1. Senders(j)' = Senders(j)
    BY <1>0, SendersMove
  <2>2. \A v \in Senders(j) : v \in Workers \ {w}
    BY <1>1 DEF Senders
  <2>. QED BY <1>1, <2>1, <2>2, OutcomeFrame
<1>4. k \in Rows /\ ops[k].lease = w /\ ops[k].state = "dispatching"
  BY <1>0 DEF LeaseHeld, Sends, Key, Rows
<1>5. \A v \in Senders(k) : flight[v] = "busy"
  BY <1>0, <1>2, <1>4, OutcomeFacts DEF Unrepeatable, Answers
<1>6. Outcome(k) = "open" /\ Outcome(k)' = "trying"
  BY <1>1, <1>2, <1>4, <1>5 DEF Outcome
<1>7. /\ IsFiniteSet(Senders(k) \cup {w})
      /\ Cardinality(Senders(k) \cup {w}) <= ops[k].attempts /\ ops[k].attempts \in 1..MaxAttempts
  BY <1>0, <1>4 DEF CInv, Counted, TypeOK, Rows, Operation
<1>8. IsFiniteSet(Senders(k))
  BY <1>7, FS_Subset
<1>9. Cardinality(Senders(k) \cup {w}) = Cardinality(Senders(k)) + 1
      /\ Cardinality(Senders(k)) \in Nat
  BY <1>2, <1>8, FS_AddElement, FS_CardinalityType
<1>10. Cardinality(Senders(k)) < MaxAttempts
  BY <1>7, <1>9 DEF MaxAttempts
<1>11. Cardinality(Senders(k))' = Cardinality(Senders(k)) + 1
  BY <1>2, <1>9
<1>. QED BY <1>0, <1>3, <1>6, <1>10, <1>11

LEMMA AnswerRefines ==
  ASSUME AInv, NEW w \in Workers, Answered(w), NEW k \in Operations, k = Key(w)
  PROVE  /\ \A j \in Operations : Senders(j)' = Senders(j)
         /\ \A j \in Operations \ {k} : Outcome(j)' = Outcome(j)
         /\ Outcome(k) = "trying"
         /\ Outcome(k)' \in {"delivered", "closed", "open"}
<1>0. TypeOK /\ Turn(w) /\ LeaseHeld(w) /\ flight[w] = "sent"
  BY DEF AInv, IInv, LeaseInv, Turn, Answered
<1>2. \A j \in Operations : Senders(j)' = Senders(j)
  BY <1>0, SendersMove DEF Sends
<1>3. PICK a \in Answers : flight' = [flight EXCEPT ![w] = a]
  BY DEF Answered
<1>4. /\ flight'[w] = a /\ ops' = ops
      /\ \A v \in Workers \ {w} : flight'[v] = flight[v]
  BY <1>0, <1>3 DEF TypeOK, Answered
<1>5. ASSUME NEW j \in Operations \ {k} PROVE Outcome(j)' = Outcome(j)
  <2>1. \A v \in Senders(j) : v \in Workers \ {w}
    BY DEF Senders, Key
  <2>. QED BY <1>2, <1>4, <2>1, OutcomeFrame
<1>6. w \in Senders(k)
  BY <1>0 DEF Senders, Key
<1>7. \A v \in Senders(k) \ {w} : v \in Workers /\ flight[v] = "busy"
  BY <1>0, <1>6, OutcomeFacts DEF Unrepeatable, Answers, Senders
<1>8. Outcome(k) = "trying"
  BY <1>0, <1>6 DEF Outcome
<1>9. Outcome(k)' \in {"delivered", "closed", "open"}
  <2>1. \A v \in Senders(k)' : flight'[v] # "sent"
    BY <1>2, <1>4, <1>7 DEF Answers
  <2>. QED BY <2>1 DEF Outcome
<1>. QED BY <1>2, <1>5, <1>8, <1>9

\* In particular: at most three requests for one operation, one at a time, and
\* none after it was accepted, refused or cancelled.
THEOREM TransportDelivers == Spec => DeliveryImplemented
<1>1. Init => Delivery!Init
  <2>. SUFFICES ASSUME Init PROVE Delivery!Init
    OBVIOUS
  <2>1. ASSUME NEW k \in Operations PROVE Cardinality(Senders(k)) = 0 /\ Outcome(k) = "open"
    <3>1. Senders(k) = {}
      BY DEF Init, Senders
    <3>2. Cardinality(Senders(k)) = 0
      BY <3>1, FS_EmptySet
    <3>. QED BY <3>1, <3>2 DEF Init, Outcome
  <2>. QED BY <2>1 DEF Delivery!Init
<1>2. CInv /\ [Next]_vars => [Delivery!Next]_<<Tries, Outcomes>>
  <2>. SUFFICES ASSUME CInv, [Next]_vars PROVE [Delivery!Next]_<<Tries, Outcomes>>
    OBVIOUS
  <2>0. AInv /\ TypeOK
    BY DEF CInv, AInv, IInv
  <2>1. CASE Still
    <3>1. \A k \in Operations : Senders(k)' = Senders(k) /\ Outcome(k)' = Outcome(k)
      BY <2>1 DEF Still, Senders, Outcome
    <3>. QED BY <3>1 DEF Tries, Outcomes
  <2>2. ASSUME NEW w \in Workers, Turn(w) PROVE [Delivery!Next]_<<Tries, Outcomes>>
    <3>1. CASE UNCHANGED flight
      <4>1. Tries' = Tries
        BY <2>0, <2>2, <3>1, RowsRefine DEF Tries
      <4>2. CASE \A k \in Operations : Outcome(k)' = Outcome(k)
        BY <4>1, <4>2 DEF Outcomes
      <4>3. CASE \E k \in Operations : Outcome(k)' # Outcome(k)
        <5>1. PICK k \in Operations : Outcome(k)' # Outcome(k)
          BY <4>3
        <5>2. /\ Outcome(k) = "open" /\ Outcome(k)' = "closed"
              /\ \A j \in Operations \ {k} : Outcome(j)' = Outcome(j)
          BY <2>0, <2>2, <3>1, <5>1, RowsRefine
        <5>3. Outcomes[k] = "open" /\ Outcomes' = [Outcomes EXCEPT ![k] = "closed"]
          BY <5>2 DEF Outcomes
        <5>4. Delivery!Close(k)
          BY <4>1, <5>3 DEF Delivery!Close, Tries, Outcomes
        <5>. QED BY <5>4 DEF Delivery!Next
      <4>. QED BY <4>2, <4>3
    <3>2. CASE Sends(w)
      <4>. PICK k \in Operations : k = Key(w)
        BY <2>0, <3>2, Acting DEF Sends
      <4>1. /\ \A j \in Operations \ {k} : Senders(j)' = Senders(j) /\ Outcome(j)' = Outcome(j)
            /\ Outcome(k) = "open" /\ Outcome(k)' = "trying"
            /\ Cardinality(Senders(k)) < MaxAttempts
            /\ Cardinality(Senders(k))' = Cardinality(Senders(k)) + 1
        BY <3>2, SendRefines
      <4>2. /\ Tries[k] < MaxAttempts /\ Tries' = [Tries EXCEPT ![k] = @ + 1]
            /\ Outcomes[k] = "open" /\ Outcomes' = [Outcomes EXCEPT ![k] = "trying"]
        BY <4>1 DEF Tries, Outcomes
      <4>3. Delivery!Try(k)
        BY <4>2 DEF Delivery!Try, Tries, Outcomes
      <4>. QED BY <4>3 DEF Delivery!Next
    <3>3. CASE Answered(w)
      <4>. PICK k \in Operations : k = Key(w)
        <5>1. LeaseHeld(w) /\ flight[w] = "sent"
          BY <3>3 DEF Answered, AInv, CInv, IInv, LeaseInv
        <5>. QED BY <2>0, <5>1 DEF LeaseHeld, TypeOK, Invocation, Key
      <4>1. /\ \A j \in Operations : Senders(j)' = Senders(j)
            /\ \A j \in Operations \ {k} : Outcome(j)' = Outcome(j)
            /\ Outcome(k) = "trying"
        BY <2>0, <3>3, AnswerRefines
      <4>2. PICK o \in {"delivered", "closed", "open"} : Outcome(k)' = o
        BY <2>0, <3>3, AnswerRefines
      <4>3. /\ Tries' = Tries /\ Outcomes[k] = "trying"
            /\ Outcomes' = [Outcomes EXCEPT ![k] = o]
        BY <4>1, <4>2 DEF Tries, Outcomes
      <4>4. Delivery!Answer(k)
        BY <4>3 DEF Delivery!Answer, Tries, Outcomes
      <4>. QED BY <4>4 DEF Delivery!Next
    <3>. QED BY <2>2, <3>1, <3>2, <3>3 DEF Turn, Quiet, Inserts, Updates, Writes
  <2>. QED BY <2>0, <2>1, <2>2, StepIsTurn
<1>. QED BY <1>1, <1>2, CountedInductive, PTL
     DEF Spec, DeliveryImplemented, Delivery!Spec, Tries, Outcomes

-----------------------------------------------------------------------------
\* What is reserved.

\* The lease of a row is an invocation that was admitted; a cancellation's row
\* is a cancelled one, so no retry takes it over.
LeaseKind(k) ==
  k \in Rows =>
    /\ inv[ops[k].lease] # Idle
    /\ inv[ops[k].lease].action = "cancel" => ops[k].state = "cancelled"

BInv ==
  /\ AInv /\ (\A k \in Operations : LeaseKind(k))
  /\ IsFiniteSet(Rows) /\ AdmissionBound

InScope(s) == {k \in SendRows : ScopeOf[ops[k].event] = s}

InBurst(first) ==
  {k \in SendRows :
     /\ RecipientOf[ops[k].event] = RecipientOf[ops[first].event]
     /\ ops[k].created \in ops[first].created .. ops[first].created + Window}

\* A step that inserts no row changes none of the sets that are counted.
LEMMA SameRowsSameBounds ==
  ASSUME TypeOK, AdmissionBound, IsFiniteSet(Rows), Rows' = Rows, SendRows' = SendRows,
         \A k \in Rows : Kept(ops'[k], ops[k])
  PROVE  AdmissionBound' /\ IsFiniteSet(Rows)'
<1>1. SendRows \subseteq Rows
  BY DEF SendRows
<1>2. \A s : InScope(s)' = InScope(s)
  BY <1>1 DEF InScope, Kept
<1>3. \A first \in SendRows : InBurst(first)' = InBurst(first)
  BY <1>1 DEF InBurst, Kept
<1>4. CancellationSlot'
  BY <1>2 DEF AdmissionBound, CancellationSlot, InScope
<1>5. BurstBound'
  BY <1>3 DEF AdmissionBound, BurstBound, InBurst
<1>. QED BY <1>4, <1>5 DEF AdmissionBound

\* One more element.
LEMMA OneMore ==
  ASSUME NEW S, IsFiniteSet(S), NEW x, NEW T, T \subseteq S \cup {x},
         NEW n \in Nat, Cardinality(S) < n
  PROVE  IsFiniteSet(T) /\ Cardinality(T) <= n
<1>1. /\ IsFiniteSet(S \cup {x}) /\ Cardinality(S) \in Nat
      /\ Cardinality(S \cup {x}) \in {Cardinality(S), Cardinality(S) + 1}
  BY FS_AddElement, FS_CardinalityType
<1>2. IsFiniteSet(T) /\ Cardinality(T) <= Cardinality(S \cup {x}) /\ Cardinality(T) \in Nat
  BY <1>1, FS_Subset, FS_CardinalityType
<1>. QED BY <1>1, <1>2

LEMMA TurnKeepsBInv ==
  ASSUME BInv, AInv', NEW w \in Workers, Turn(w)
  PROVE  BInv'
<1>0. /\ AInv /\ TypeOK /\ TypeOK' /\ RowsKept /\ FlightsKept /\ AdmissionBound
      /\ IsFiniteSet(Rows) /\ \A k \in Operations : LeaseKind(k)
  BY TurnKeeps DEF BInv, AInv, IInv
<1>1. ASSUME NEW v \in Workers, inv[v] # Idle
      PROVE  inv'[v] # Idle /\ inv'[v].action = inv[v].action
  BY <1>0, <1>1 DEF FlightsKept, Same
<1>2. ASSUME NEW k \in Rows
      PROVE  ops[k] \in Operation /\ ops[k].lease \in Workers /\ k \in Operations /\ k \in Rows'
             /\ inv[ops[k].lease] # Idle
             /\ inv'[ops[k].lease].action = inv[ops[k].lease].action
  BY <1>0, <1>1 DEF TypeOK, Rows, Operation, RowsKept, LeaseKind
<1>3. CASE UNCHANGED ops
  <2>1. Rows' = Rows
    BY <1>3 DEF Rows
  <2>2. SendRows' = SendRows
    BY <1>2, <1>3, <2>1 DEF SendRows
  <2>3. \A k \in Operations : LeaseKind(k)'
    BY <1>0, <1>1, <1>2, <1>3, <2>1 DEF LeaseKind
  <2>. QED BY <1>0, <1>3, <2>1, <2>2, <2>3, SameRowsSameBounds DEF BInv, RowsKept
<1>4. ASSUME NEW row \in Operation, Updates(w, row)
      PROVE  BInv'
  <2>. PICK k \in Rows : k = Key(w)
    BY <1>4 DEF Updates
  <2>1. /\ k \in Operations /\ inv[w] \in Invocation /\ inv[w] # Idle
        /\ ops' = [ops EXCEPT ![k] = row] /\ row # NoRow
    BY <1>2, <1>4, InvocationNotIdle DEF Updates, Writes, Moves
  <2>2. ops'[k] = row /\ \A j \in Operations \ {k} : ops'[j] = ops[j]
    BY <1>0, <2>1 DEF TypeOK
  <2>3. Rows' = Rows
    BY <2>1, <2>2 DEF Rows
  <2>4. \/ /\ ops[k].state = "retryable" /\ row.lease = w /\ inv[w].action = "dispatch"
        \/ row.lease = ops[k].lease /\ ops[k].state \in {"reserved", "retryable", "dispatching"}
    BY <1>4 DEF Updates, InProgress
  <2>5. inv[ops[k].lease] \in Invocation /\ inv[ops[k].lease].action = "dispatch"
    <3>1. inv[ops[k].lease] \in Invocation /\ inv[ops[k].lease].action # "cancel"
      BY <1>0, <1>2, <2>4 DEF LeaseKind, TypeOK
    <3>. QED BY <3>1 DEF Invocation
  <2>6. inv'[row.lease] # Idle /\ inv'[row.lease].action = "dispatch"
    BY <1>1, <1>2, <2>1, <2>4, <2>5
  <2>7. SendRows' = SendRows
    <3>1. k \in SendRows /\ k \in SendRows'
      BY <2>2, <2>3, <2>5, <2>6 DEF SendRows
    <3>2. ASSUME NEW j \in Rows \ {k} PROVE j \in SendRows' <=> j \in SendRows
      BY <1>2, <2>2, <2>3 DEF SendRows
    <3>. QED BY <2>3, <3>1, <3>2 DEF SendRows
  <2>8. ASSUME NEW j \in Operations PROVE LeaseKind(j)'
    <3>1. CASE j = k
      BY <2>2, <2>6, <3>1 DEF LeaseKind
    <3>2. CASE j # k
      BY <1>0, <1>1, <1>2, <2>2, <2>3, <3>2 DEF LeaseKind
    <3>. QED BY <3>1, <3>2
  <2>. QED BY <1>0, <2>3, <2>7, <2>8, SameRowsSameBounds DEF BInv, RowsKept
<1>5. ASSUME NEW row \in Operation, Inserts(w, row)
      PROVE  BInv'
  <2>. PICK k, e, cancelling : k = Key(w) /\ e = inv[w].event /\ cancelling = (inv[w].action = "cancel")
    OBVIOUS
  <2>1. /\ k \in Operations /\ inv[w] \in Invocation /\ inv[w] # Idle /\ e \in Events
        /\ ops' = [ops EXCEPT ![k] = row] /\ row # NoRow /\ ops[k] = NoRow
        /\ row.event = e /\ row.lease = w
        /\ MayReserve(e, row.created, cancelling)
        /\ cancelling => row.state = "cancelled"
        /\ ~ cancelling => inv[w].action = "dispatch"
    BY <1>5, InvocationNotIdle DEF Inserts, Writes, Moves, Invocation, Key
  <2>2. ops'[k] = row /\ \A j \in Operations \ {k} : ops'[j] = ops[j]
    BY <1>0, <2>1 DEF TypeOK
  <2>3. Rows' = Rows \cup {k} /\ k \notin Rows
    BY <2>1, <2>2 DEF Rows
  <2>4. inv'[w] # Idle /\ inv'[w].action = inv[w].action
    BY <1>1, <2>1
  <2>5. ASSUME NEW j \in Rows PROVE ops'[j] = ops[j] /\ (j \in SendRows' <=> j \in SendRows)
    <3>1. ops'[j] = ops[j]
      BY <1>2, <2>2, <2>3
    <3>. QED BY <1>2, <2>3, <3>1 DEF SendRows
  <2>6. k \in SendRows' <=> ~ cancelling
    BY <2>1, <2>2, <2>3, <2>4 DEF SendRows
  <2>7. ASSUME NEW j \in Operations PROVE LeaseKind(j)'
    <3>1. CASE j = k
      BY <2>1, <2>2, <2>4, <3>1 DEF LeaseKind
    <3>2. CASE j # k
      BY <1>0, <1>1, <1>2, <2>3, <2>5, <3>2 DEF LeaseKind
    <3>. QED BY <3>1, <3>2
  <2>8. IsFiniteSet(Rows)'
    BY <1>0, <2>3, FS_AddElement
  <2>9. SendRows \subseteq Rows /\ SendRows' \subseteq Rows \cup {k} /\ SendRows \subseteq SendRows'
    BY <2>3, <2>5 DEF SendRows
  <2>10. CASE cancelling
    <3>1. SendRows' = SendRows
      BY <2>3, <2>5, <2>6, <2>9, <2>10
    <3>2. \A s : InScope(s)' = InScope(s)
      BY <2>5, <2>9, <3>1 DEF InScope
    <3>3. \A first \in SendRows : InBurst(first)' = InBurst(first)
      BY <2>5, <2>9, <3>1 DEF InBurst
    <3>4. CancellationSlot'
      BY <1>0, <3>1, <3>2 DEF AdmissionBound, CancellationSlot, InScope
    <3>5. BurstBound'
      BY <1>0, <3>1, <3>3 DEF AdmissionBound, BurstBound, InBurst
    <3>. QED BY <2>7, <2>8, <3>4, <3>5 DEF BInv, AdmissionBound
  <2>11. CASE ~ cancelling
    <3>. DEFINE scoped == {j \in Rows : ScopeOf[ops[j].event] = ScopeOf[e]}
                recent == {j \in Rows : /\ RecipientOf[ops[j].event] = RecipientOf[e]
                                        /\ ops[j].created >= row.created - Window}
    <3>1. /\ Cardinality(Rows) < Capacity - 1
          /\ Cardinality(scoped) < InstallationCapacity - 1
          /\ Cardinality(recent) < RecipientBurst
      BY <2>1, <2>11 DEF MayReserve
    <3>2. IsFiniteSet(scoped) /\ IsFiniteSet(recent)
      BY <1>0, FS_Subset
    <3>3. /\ Capacity - 1 \in Nat /\ InstallationCapacity - 1 \in Nat /\ RecipientBurst \in Nat
      OBVIOUS
    <3>4. Cardinality(SendRows)' < Capacity
      <4>1. IsFiniteSet(SendRows') /\ Cardinality(SendRows') <= Capacity - 1
        BY <1>0, <2>9, <3>1, <3>3, OneMore
      <4>2. Cardinality(SendRows') \in Nat
        BY <4>1, FS_CardinalityType
      <4>. QED BY <4>1, <4>2
    <3>5. ASSUME NEW s \in Scopes PROVE Cardinality(InScope(s)') < InstallationCapacity
      <4>1. CASE s = ScopeOf[e]
        <5>1. InScope(s)' \subseteq scoped \cup {k}
          BY <2>2, <2>5, <2>9, <4>1 DEF InScope
        <5>2. IsFiniteSet(InScope(s)') /\ Cardinality(InScope(s)') <= InstallationCapacity - 1
          BY <3>1, <3>2, <3>3, <5>1, OneMore
        <5>3. Cardinality(InScope(s)') \in Nat
          BY <5>2, FS_CardinalityType
        <5>. QED BY <5>2, <5>3
      <4>2. CASE s # ScopeOf[e]
        <5>1. InScope(s)' = InScope(s)
          BY <2>1, <2>2, <2>5, <2>9, <4>2 DEF InScope
        <5>. QED BY <1>0, <5>1 DEF AdmissionBound, CancellationSlot, InScope
      <4>. QED BY <4>1, <4>2
    <3>6. ASSUME NEW first \in SendRows' PROVE Cardinality(InBurst(first)') <= RecipientBurst
      <4>1. CASE k \in InBurst(first)'
        <5>1. InBurst(first)' \subseteq recent \cup {k}
          <6>1. /\ RecipientOf[e] = RecipientOf[ops'[first].event]
                /\ row.created \in ops'[first].created .. ops'[first].created + Window
            BY <2>1, <2>2, <4>1 DEF InBurst
          <6>2. first \in Operations /\ ops'[first] # NoRow
            BY DEF SendRows, Rows
          <6>3. ops'[first].created \in Nat /\ row.created \in Nat
            BY <1>0, <6>2 DEF TypeOK, Operation
          <6>4. ASSUME NEW j \in InBurst(first)', j # k PROVE j \in recent
            <7>1. /\ j \in SendRows' /\ RecipientOf[ops'[j].event] = RecipientOf[ops'[first].event]
                  /\ ops'[j].created \in ops'[first].created .. ops'[first].created + Window
              BY DEF InBurst
            <7>2. j \in Rows /\ ops'[j] = ops[j]
              BY <2>5, <2>9, <6>4, <7>1
            <7>3. ops[j].created >= row.created - Window
              BY <6>1, <6>3, <7>1, <7>2
            <7>. QED BY <6>1, <7>1, <7>2, <7>3
          <6>. QED BY <6>4
        <5>. QED BY <3>1, <3>2, <3>3, <5>1, OneMore
      <4>2. CASE k \notin InBurst(first)'
        <5>1. first # k
          <6>1. row.created \in Nat /\ row.created \in row.created .. row.created + Window
            BY DEF Operation
          <6>. QED BY <2>2, <4>2, <6>1 DEF InBurst
        <5>2. first \in SendRows /\ ops'[first] = ops[first]
          BY <2>5, <2>9, <5>1
        <5>3. InBurst(first)' = InBurst(first)
          BY <2>5, <2>9, <4>2, <5>2 DEF InBurst
        <5>. QED BY <1>0, <5>2, <5>3 DEF AdmissionBound, BurstBound, InBurst
      <4>. QED BY <4>1, <4>2
    <3>7. CancellationSlot'
      BY <3>4, <3>5 DEF CancellationSlot, InScope
    <3>8. BurstBound'
      BY <3>6 DEF BurstBound, InBurst
    <3>. QED BY <2>7, <2>8, <3>7, <3>8 DEF BInv, AdmissionBound
  <2>. QED BY <2>10, <2>11
<1>. QED BY <1>3, <1>4, <1>5 DEF Turn, Quiet, Sends, Answered

\* However sends race for the last rows and with whatever clock reading, a slot
\* is kept for a cancellation and no window holds more than a burst.
THEOREM AdmissionBounded == Spec => []AdmissionBound
<1>1. Init => BInv
  <2>. SUFFICES ASSUME Init PROVE BInv
    OBVIOUS
  <2>1. Rows = {} /\ SendRows = {} /\ \A k \in Operations : LeaseKind(k)
    BY DEF Init, Rows, SendRows, LeaseKind
  <2>2. Cardinality({}) = 0 /\ IsFiniteSet({})
    BY FS_EmptySet
  <2>3. \A s : InScope(s) = {}
    BY <2>1 DEF InScope
  <2>4. AdmissionBound
    BY <2>1, <2>2, <2>3 DEF AdmissionBound, CancellationSlot, BurstBound, InScope
  <2>. QED BY <2>1, <2>2, <2>4, InitHasAInv DEF BInv
<1>2. BInv /\ [Next]_vars => BInv'
  <2>. SUFFICES ASSUME BInv, [Next]_vars PROVE BInv'
    OBVIOUS
  <2>1. AInv /\ AInv'
    BY StepKeepsAInv DEF BInv
  <2>2. CASE Still
    <3>1. Rows' = Rows /\ SendRows' = SendRows
      BY <2>2 DEF Still, Rows, SendRows
    <3>2. \A k \in Operations : LeaseKind(k)'
      BY <2>2, <3>1 DEF Still, BInv, LeaseKind
    <3>3. RowsKept /\ TypeOK
      BY <2>1, <2>2, TurnKeeps DEF AInv, IInv
    <3>. QED BY <2>1, <3>1, <3>2, <3>3, SameRowsSameBounds DEF BInv, RowsKept
  <2>3. CASE \E w \in Workers : Turn(w)
    BY <2>1, <2>3, TurnKeepsBInv
  <2>. QED BY <2>1, <2>2, <2>3, StepIsTurn
<1>3. BInv => AdmissionBound
  BY DEF BInv
<1>. QED BY <1>1, <1>2, <1>3, PTL DEF Spec
=============================================================================
