---------------------------- MODULE WatchMoment ----------------------------
(***************************************************************************)
(* The Watch "moment" transport (src/src/watch-moment): Worker invocations *)
(* dispatch or cancel an event through one row of a D1 table and the Apple *)
(* push provider.  An invocation is one call of dispatch or cancel; it     *)
(* keeps no state but its own, so what two invocations know of each other  *)
(* is the operation row and the registration row.  A step of this module   *)
(* is one D1 statement, executed with the arguments the invocation bound   *)
(* before it (inv[w].at is the clock reading it bound), together with the  *)
(* synchronous code that follows the answer.                               *)
(***************************************************************************)
EXTENDS Integers, FiniteSets

CONSTANTS
  Workers,           \* the invocations; the lease a dispatch mints is its own
  Events,            \* signed events; distinct events have distinct hashes
  Operations,        \* operation keys: device, session, moment
  Publications,      \* publication keys: device, event id
  Recipients,        \* Watch devices
  Scopes,            \* Home Assistant installations
  OperationOf,       \* [Events -> Operations]
  PublicationOf,     \* [Events -> Publications]
  RecipientOf,       \* [Events -> Recipients]
  ScopeOf,           \* [Events -> Scopes]
  Expiry,            \* [Events -> Nat]: expires_at_ms of the event
  Deadlines,         \* expiries an admission may carry
  RetryAfters,       \* delays the provider may ask for
  Capacity, InstallationCapacity, RecipientBurst,
  Window,            \* the burst window (600 000 ms)
  MaxTime, MaxToken, \* bounds of the clock and of token renewals
  MaxRegress,        \* how often a reading may be behind an earlier one
  NoRow

ASSUME CapacityAssumption ==
  /\ Capacity \in Nat /\ InstallationCapacity \in Nat /\ RecipientBurst \in Nat
  /\ 2 <= InstallationCapacity /\ InstallationCapacity <= Capacity
  /\ 1 <= RecipientBurst

ASSUME EventAssumption ==
  /\ OperationOf \in [Events -> Operations]
  /\ PublicationOf \in [Events -> Publications]
  /\ RecipientOf \in [Events -> Recipients]
  /\ ScopeOf \in [Events -> Scopes]
  /\ Expiry \in [Events -> Nat]
  /\ Deadlines \subseteq Nat
  /\ RetryAfters \subseteq Nat

ASSUME BoundAssumption ==
  MaxTime \in Nat /\ MaxToken \in Nat /\ MaxRegress \in Nat /\ Window \in Nat

VARIABLES
  ops,       \* D1 table watch_moment_operations
  reg,       \* D1 table registrations, the Watch row of each recipient
  now,       \* what a reading of the clock returns
  regress,   \* how often the clock has stepped back
  inv,       \* the invocations
  flight     \* what became of the provider request of each invocation

vars == <<ops, reg, now, regress, inv, flight>>

MaxAttempts == 3

States == {"reserved", "dispatching", "provider_accepted", "provider_rejected",
           "retryable", "unknown", "cancelled", "expired"}
InProgress == {"reserved", "dispatching"}

\* The registration row as the transport sees it: which token (with its
\* encryption and binding), and whether it is enabled, valid and opted in.
Registration == [token : 0..MaxToken, active : BOOLEAN]

\* A row of the operation table.  request_hash is the event it is the hash of,
\* registration_hash the token the admission was bound to.
Operation == [event : Events, binding : 0..MaxToken, state : States,
              created : Nat, expires : Nat, lease : Workers,
              attempts : 1..MaxAttempts, next : Nat]

ASSUME NoRowAssumption == NoRow \notin Operation

(***************************************************************************)
(* Reading and writing the operation table.                                *)
(***************************************************************************)
Rows == {k \in Operations : ops[k] # NoRow}

\* get(key) ?? publication(publicationKey).  Rows are never deleted and never
\* change key, so the two point reads have the answer of one read.
Lookup(e) ==
  IF ops[OperationOf[e]] # NoRow THEN ops[OperationOf[e]]
  ELSE LET same == {k \in Rows : PublicationOf[ops[k].event] = PublicationOf[e]}
       IN  IF same = {} THEN NoRow ELSE ops[CHOOSE k \in same : TRUE]

\* Mutant: no slot kept for a cancellation.
MayReserve_NoSlot(e, created, cancellation) ==
  /\ Lookup(e) = NoRow
  /\ Cardinality(Rows) < Capacity
  /\ Cardinality({k \in Rows : ScopeOf[ops[k].event] = ScopeOf[e]})
       < InstallationCapacity

\* The WHERE and ON CONFLICT of the INSERT of reserve: the last free slot, of
\* the table and of the installation, is kept for a cancellation.
MayReserve(e, created, cancellation) ==
  LET kept == IF cancellation THEN 0 ELSE 1 IN
  /\ Lookup(e) = NoRow
  /\ Cardinality(Rows) < Capacity - kept
  /\ Cardinality({k \in Rows : ScopeOf[ops[k].event] = ScopeOf[e]})
       < InstallationCapacity - kept
  /\ \/ cancellation
     \/ Cardinality({k \in Rows : /\ RecipientOf[ops[k].event] = RecipientOf[e]
                                  /\ ops[k].created >= created - Window})
          < RecipientBurst

NewRow(w, state, created, expires) ==
  [event |-> inv[w].event, binding |-> inv[w].reg.token, state |-> state,
   created |-> created, expires |-> expires, lease |-> w, attempts |-> 1,
   next |-> created]

Min2(a, b) == IF a < b THEN a ELSE b
Max2(a, b) == IF a > b THEN a ELSE b

(***************************************************************************)
(* The invocation.                                                         *)
(***************************************************************************)
Idle == [pc |-> "idle"]

Alive(w) == inv[w].pc \notin {"idle", "done", "crashed"}
\* Inside the try block of dispatch, and not yet in its catch block.
InTry(w) == /\ inv[w].action = "dispatch" /\ ~ inv[w].caught
            /\ inv[w].pc \in {"build", "mark", "check", "fetch", "await", "finish",
                             "invalidate", "receipt"}

Goto(w, pc) == inv' = [inv EXCEPT ![w].pc = pc, ![w].at = now]

\* The invocation is over, and its locals with it.
Leave(w, pc, out) ==
  inv' = [inv EXCEPT ![w] = [@ EXCEPT !.pc = pc, !.out = out, !.at = 0,
            !.row = NoRow, !.set = "unknown", !.next = 0, !.gone = FALSE,
            !.caught = FALSE]]
Return(w, out) == Leave(w, "done", out)

\* guard(): the clock has not stepped back since this invocation last read it.
\* Lost authority, an abort and close() are the action Abandon.
ClockOk(w) == now >= inv[w].at

\* guard(expiry): also before the deadline of the row and of the admission.
InTime(w) ==
  ClockOk(w) /\ now < inv[w].row.expires /\ now < inv[w].deadline

\* What the catch block goes on with: finish(selected, "unknown", null, 0).
ToUnknown(w) ==
  inv' = [inv EXCEPT ![w].pc = "finish", ![w].set = "unknown", ![w].next = 0,
                     ![w].gone = FALSE, ![w].caught = TRUE]

\* A guard or a statement throws.
Throw(w) == IF InTry(w) THEN ToUnknown(w) ELSE Return(w, "refused")

\* prepare(): decode and admit.  The admission names the registration and the
\* binding derived from it; a cancellation needs no live registration.
Admit(w, e, action) ==
  /\ inv[w] = Idle
  /\ action = "dispatch" => reg[RecipientOf[e]].active
  /\ \E deadline \in Deadlines :
       inv' = [inv EXCEPT ![w] =
         [pc |-> IF action = "dispatch" THEN "current" ELSE "lookup",
          action |-> action, event |-> e, reg |-> reg[RecipientOf[e]],
          deadline |-> deadline, at |-> now, row |-> NoRow, set |-> "unknown",
          next |-> 0, gone |-> FALSE, caught |-> FALSE, out |-> "none"]]
  /\ UNCHANGED <<ops, reg, now, regress, flight>>

\* store.current(r, true, true): the admitted registration is still the row.
CheckCurrent(w) ==
  /\ inv[w].pc = "current"
  /\ IF reg[RecipientOf[inv[w].event]] = inv[w].reg /\ ClockOk(w)
     THEN Goto(w, "lookup")
     ELSE Throw(w)
  /\ UNCHANGED <<ops, reg, now, regress, flight>>

\* Mutant: the binding of the admission is not compared.
Own_AnyBinding(w, row) == row.event = inv[w].event

Own(w, row) == row.event = inv[w].event /\ row.binding = inv[w].reg.token

\* The synchronous code of dispatch after it has read a row.
Decide(w, row, mayRetry) ==
  IF ~ ClockOk(w) \/ ~ Own(w, row) \/ now < row.created THEN Throw(w)
  ELSE IF mayRetry /\ row.state = "retryable" /\ row.attempts < MaxAttempts
       THEN IF now >= row.expires THEN Return(w, "expired")
            ELSE IF now < row.next THEN Return(w, row.state)
            ELSE inv' = [inv EXCEPT ![w].pc = "retry", ![w].at = now,
                                    ![w].row = row]
  ELSE IF row.state = "reserved" /\ row.lease = w
       THEN inv' = [inv EXCEPT ![w].pc = "build", ![w].at = now, ![w].row = row]
  ELSE Return(w, IF row.state \in InProgress THEN "unknown" ELSE row.state)

\* dispatch: the first read of the row.
LookupDispatch(w) ==
  /\ inv[w].pc = "lookup" /\ inv[w].action = "dispatch"
  /\ LET e == inv[w].event
         row == Lookup(e)
     IN  IF row # NoRow THEN Decide(w, row, TRUE)
         ELSE IF ClockOk(w) /\ now < Min2(Expiry[e], inv[w].deadline)
              THEN Goto(w, "reserve")
              ELSE Throw(w)
  /\ UNCHANGED <<ops, reg, now, regress, flight>>

\* cancel: the first read of the row.
LookupCancel(w) ==
  /\ inv[w].pc = "lookup" /\ inv[w].action = "cancel"
  /\ LET row == Lookup(inv[w].event)
     IN  IF ~ ClockOk(w) THEN Throw(w)
         ELSE IF row = NoRow THEN Goto(w, "reserve")
         ELSE IF Own(w, row) THEN Goto(w, "cancel")
         ELSE Throw(w)
  /\ UNCHANGED <<ops, reg, now, regress, flight>>

\* store.reserve: the conditional INSERT.
Reserve(w) ==
  /\ inv[w].pc = "reserve"
  /\ LET e == inv[w].event
         cancelling == inv[w].action = "cancel"
         row == IF cancelling THEN NewRow(w, "cancelled", 0, Expiry[e])
                ELSE NewRow(w, "reserved", inv[w].at,
                            Min2(Expiry[e], inv[w].deadline))
     IN  IF MayReserve(e, row.created, cancelling)
         THEN ops' = [ops EXCEPT ![OperationOf[e]] = row]
         ELSE UNCHANGED ops
  /\ inv' = [inv EXCEPT ![w].pc = "reread"]
  /\ UNCHANGED <<reg, now, regress, flight>>

\* The read that ends store.reserve.  When there is no row the answer of
\* dispatch is the receipt "capacity"; cancel throws.
RereadDispatch(w) ==
  /\ inv[w].pc = "reread" /\ inv[w].action = "dispatch"
  /\ LET row == Lookup(inv[w].event)
     IN  IF row # NoRow THEN Decide(w, row, TRUE)
         ELSE IF ClockOk(w) THEN Return(w, "capacity") ELSE Throw(w)
  /\ UNCHANGED <<ops, reg, now, regress, flight>>

RereadCancel(w) ==
  /\ inv[w].pc = "reread" /\ inv[w].action = "cancel"
  /\ LET row == Lookup(inv[w].event)
     IN  IF ClockOk(w) /\ row # NoRow /\ Own(w, row)
         THEN Goto(w, "cancel") ELSE Throw(w)
  /\ UNCHANGED <<ops, reg, now, regress, flight>>

\* Mutant: a compare-and-set that does not compare the state.
Retry_AnyState(w) ==
  /\ inv[w].pc = "retry"
  /\ LET k == OperationOf[inv[w].event]
     IN  IF Own(w, ops[k]) /\ ops[k].attempts < MaxAttempts
         THEN /\ ops' = [ops EXCEPT ![k].state = "reserved", ![k].lease = w,
                                    ![k].attempts = @ + 1]
              /\ Goto(w, "reget")
         ELSE Return(w, inv[w].row.state) /\ UNCHANGED ops
  /\ UNCHANGED <<reg, now, regress, flight>>

\* store.retry: the compare-and-set that takes over a retryable row.
Retry(w) ==
  /\ inv[w].pc = "retry"
  /\ LET k == OperationOf[inv[w].event]
     IN  IF /\ ops[k].state = "retryable"
            /\ Own(w, ops[k])
            /\ ops[k].attempts < MaxAttempts
            /\ ops[k].next <= inv[w].at /\ inv[w].at < ops[k].expires
         THEN /\ ops' = [ops EXCEPT ![k].state = "reserved", ![k].lease = w,
                                    ![k].attempts = @ + 1]
              /\ IF ClockOk(w) THEN Goto(w, "reget") ELSE Throw(w)
         ELSE /\ Return(w, inv[w].row.state)
              /\ UNCHANGED ops
  /\ UNCHANGED <<reg, now, regress, flight>>

Reget(w) ==
  /\ inv[w].pc = "reget"
  /\ Decide(w, ops[OperationOf[inv[w].event]], FALSE)
  /\ UNCHANGED <<ops, reg, now, regress, flight>>

\* Building the notification awaits a digest, with guard(expiry) around it; the
\* last reading of the clock is bound to the statement of store.mark.
BuildNotification(w) ==
  /\ inv[w].pc = "build"
  /\ IF InTime(w) THEN Goto(w, "mark") ELSE Throw(w)
  /\ UNCHANGED <<ops, reg, now, regress, flight>>

\* store.mark: reserved -> dispatching while the registration still matches.
\* An invocation whose marker loses returns without another write.
Mark(w) ==
  /\ inv[w].pc = "mark"
  /\ LET k == OperationOf[inv[w].event]
     IN  IF /\ ops[k].lease = w /\ ops[k].state = "reserved"
            /\ inv[w].at < ops[k].expires
            /\ reg[RecipientOf[inv[w].event]] = inv[w].reg
         THEN /\ ops' = [ops EXCEPT ![k].state = "dispatching"]
              /\ IF InTime(w) THEN Goto(w, "check") ELSE Throw(w)
         ELSE Return(w, "unknown") /\ UNCHANGED ops
  /\ UNCHANGED <<reg, now, regress, flight>>

\* sendApns cannot decrypt the token and answers status 0 without a request.
TokenUnreadable(w) ==
  /\ inv[w].pc = "check"
  /\ IF ClockOk(w)
     THEN inv' = [inv EXCEPT ![w].pc = "finish", ![w].at = now,
                    ![w].set = "unknown", ![w].next = now + inv[w].row.attempts]
     ELSE Throw(w)
  /\ UNCHANGED <<ops, reg, now, regress, flight>>

\* beforeFetch: store.canDispatch reads both rows in one snapshot.
CanDispatch(w) ==
  /\ inv[w].pc = "check"
  /\ LET row == ops[OperationOf[inv[w].event]]
     IN  IF /\ row.lease = w /\ row.state = "dispatching" /\ Own(w, row)
            /\ reg[RecipientOf[inv[w].event]] = inv[w].reg
         THEN inv' = [inv EXCEPT ![w].pc = "fetch"]
         ELSE Throw(w)
  /\ UNCHANGED <<ops, reg, now, regress, flight>>

\* The rest of beforeFetch and the provider call, with no await between.
Fetch(w) ==
  /\ inv[w].pc = "fetch"
  /\ IF InTime(w)
     THEN Goto(w, "await") /\ flight' = [flight EXCEPT ![w] = "sent"]
     ELSE Throw(w) /\ UNCHANGED flight
  /\ UNCHANGED <<ops, reg, now, regress>>

(***************************************************************************)
(* The provider answers a request once: 200, a refusal, 410 or a dead      *)
(* token, or 429/5xx, which it gives for a request it did not accept.      *)
(***************************************************************************)
Answers == {"accepted", "rejected", "gone", "busy"}

ProviderAnswer(w) ==
  /\ flight[w] = "sent"
  /\ \E a \in Answers : flight' = [flight EXCEPT ![w] = a]
  /\ UNCHANGED <<ops, reg, now, regress, inv>>

\* Mutant: any refusal is tried again.
Settle_RetryRefused(w) ==
  /\ inv[w].pc = "await" /\ flight[w] \in Answers
  /\ inv' = [inv EXCEPT ![w].pc = "finish", ![w].at = now,
                ![w].set = IF flight[w] = "accepted" THEN "provider_accepted"
                           ELSE "retryable"]
  /\ UNCHANGED <<ops, reg, now, regress, flight>>

\* The answer reaches the invocation: the next state of the row and when the
\* row may be tried again.
Settle(w) ==
  /\ inv[w].pc = "await" /\ flight[w] \in Answers
  /\ LET row == inv[w].row
     IN  IF ~ ClockOk(w) THEN Throw(w)
         ELSE \E retryAfter \in RetryAfters :
           LET delay == Max2(row.attempts, retryAfter)
               again == /\ flight[w] = "busy" /\ row.attempts < MaxAttempts
                        /\ now + delay < Min2(row.expires, inv[w].deadline)
           IN inv' = [inv EXCEPT
                ![w].pc = "finish", ![w].at = now,
                ![w].set = IF flight[w] = "accepted" THEN "provider_accepted"
                           ELSE IF again THEN "retryable"
                           ELSE "provider_rejected",
                ![w].next = now + delay,
                ![w].gone = flight[w] = "gone"]
  /\ UNCHANGED <<ops, reg, now, regress, flight>>

\* Mutant: the timer waits for the clock of the row.
ProviderTimeout_AtExpiry(w) ==
  /\ inv[w].pc = "await" /\ now >= inv[w].row.expires
  /\ Throw(w)
  /\ UNCHANGED <<ops, reg, now, regress, flight>>

\* The abort timer of the provider request, or a network error: the request may
\* have been accepted, and its answer is not waited for any more.
ProviderTimeout(w) ==
  /\ inv[w].pc = "await"
  /\ Throw(w)
  /\ UNCHANGED <<ops, reg, now, regress, flight>>

Finishing(w) ==
  LET k == OperationOf[inv[w].event]
  IN  IF ops[k].lease = w /\ ops[k].state \in InProgress
      THEN ops' = [ops EXCEPT ![k].state = inv[w].set, ![k].next = inv[w].next]
      ELSE UNCHANGED ops

\* store.finish: only the lease holder of an unfinished row writes it.
Finish(w) ==
  /\ inv[w].pc = "finish"
  /\ Finishing(w)
  /\ IF inv[w].caught THEN Return(w, "unknown")
     ELSE IF ~ ClockOk(w) THEN Throw(w)
     ELSE Goto(w, IF inv[w].gone THEN "invalidate" ELSE "receipt")
  /\ UNCHANGED <<reg, now, regress, flight>>

\* The statement of finish fails: it may or may not have been committed.  The
\* catch block writes "unknown"; when that fails too, the row is retained.
FinishFails(w) ==
  /\ inv[w].pc = "finish"
  /\ Finishing(w) \/ UNCHANGED ops
  /\ IF inv[w].caught THEN Return(w, "unknown") ELSE Throw(w)
  /\ UNCHANGED <<reg, now, regress, flight>>

\* A dead token disables the registration that still carries it.
Invalidate(w) ==
  /\ inv[w].pc = "invalidate"
  /\ LET d == RecipientOf[inv[w].event]
     IN  reg' = IF reg[d].token = inv[w].reg.token
                THEN [reg EXCEPT ![d].active = FALSE] ELSE reg
  /\ IF ClockOk(w) THEN Goto(w, "receipt") ELSE Throw(w)
  /\ UNCHANGED <<ops, now, regress, flight>>

\* The last read of dispatch or of cancel is the receipt.
Receipt(w) ==
  /\ inv[w].pc = "receipt"
  /\ LET row == ops[OperationOf[inv[w].event]]
     IN  IF ~ ClockOk(w) THEN Throw(w)
         ELSE IF row = NoRow THEN Return(w, "none")
         ELSE IF inv[w].action = "cancel" /\ ~ Own(w, row) THEN Throw(w)
         ELSE Return(w, IF row.state \in InProgress THEN "unknown"
                        ELSE row.state)
  /\ UNCHANGED <<ops, reg, now, regress, flight>>

\* Mutant: a cancellation that overtakes a request in progress.
Cancel_Dispatching(w) ==
  /\ inv[w].pc = "cancel"
  /\ LET k == OperationOf[inv[w].event]
     IN  IF /\ ops[k] # NoRow /\ Own(w, ops[k])
            /\ ops[k].state \in {"reserved", "retryable", "dispatching"}
         THEN ops' = [ops EXCEPT ![k].state = "cancelled"]
         ELSE UNCHANGED ops
  /\ IF ClockOk(w) THEN Goto(w, "receipt") ELSE Throw(w)
  /\ UNCHANGED <<reg, now, regress, flight>>

\* store.cancel: only a row no request is being made for is cancelled.
Cancel(w) ==
  /\ inv[w].pc = "cancel"
  /\ LET k == OperationOf[inv[w].event]
     IN  IF /\ ops[k] # NoRow /\ Own(w, ops[k])
            /\ ops[k].state \in {"reserved", "retryable"}
         THEN ops' = [ops EXCEPT ![k].state = "cancelled"]
         ELSE UNCHANGED ops
  /\ IF ClockOk(w) THEN Goto(w, "receipt") ELSE Throw(w)
  /\ UNCHANGED <<reg, now, regress, flight>>

\* guard() refuses for lost authority, an abort or close(), or the database
\* fails the next statement: before the try block the call throws, inside it
\* the catch block runs, and in the catch block there is no guard.
Abandon(w) ==
  /\ Alive(w) /\ ~ inv[w].caught
  /\ Throw(w)
  /\ UNCHANGED <<ops, reg, now, regress, flight>>

\* The isolate goes away with the invocation.
Crash(w) ==
  /\ Alive(w)
  /\ Leave(w, "crashed", "none")
  /\ UNCHANGED <<ops, reg, now, regress, flight>>

(***************************************************************************)
(* The environment: the clock, and the owner of the registration row.      *)
(***************************************************************************)
Tick ==
  /\ now < MaxTime /\ now' = now + 1
  /\ UNCHANGED <<ops, reg, regress, inv, flight>>

ClockStepsBack ==
  /\ regress < MaxRegress /\ now > 0
  /\ now' = now - 1 /\ regress' = regress + 1
  /\ UNCHANGED <<ops, reg, inv, flight>>

\* Registering the Watch again enables it, with a new token or the old one;
\* opting out disables it.
Reregister(d) ==
  /\ \E token \in reg[d].token .. Min2(reg[d].token + 1, MaxToken) :
       reg' = [reg EXCEPT ![d] = [token |-> token, active |-> TRUE]]
  /\ UNCHANGED <<ops, now, regress, inv, flight>>

OptOut(d) ==
  /\ reg[d].active
  /\ reg' = [reg EXCEPT ![d].active = FALSE]
  /\ UNCHANGED <<ops, now, regress, inv, flight>>

-----------------------------------------------------------------------------
Init ==
  /\ ops = [k \in Operations |-> NoRow]
  /\ reg = [d \in Recipients |-> [token |-> 0, active |-> TRUE]]
  /\ now = 0 /\ regress = 0
  /\ inv = [w \in Workers |-> Idle]
  /\ flight = [w \in Workers |-> "none"]

Store(w) ==
  \/ CheckCurrent(w) \/ LookupDispatch(w) \/ LookupCancel(w) \/ Reserve(w)
  \/ RereadDispatch(w) \/ RereadCancel(w) \/ Retry(w) \/ Reget(w)
  \/ BuildNotification(w) \/ Mark(w) \/ CanDispatch(w) \/ Fetch(w) \/ Settle(w)
  \/ Finish(w) \/ Invalidate(w) \/ Cancel(w) \/ Receipt(w)

Environment ==
  \/ Tick \/ ClockStepsBack
  \/ \E d \in Recipients : Reregister(d) \/ OptOut(d)

Next ==
  \/ \E w \in Workers :
       \/ \E e \in Events, action \in {"dispatch", "cancel"} :
            Admit(w, e, action)
       \/ Store(w)
       \/ ProviderAnswer(w) \/ ProviderTimeout(w) \/ TokenUnreadable(w)
       \/ FinishFails(w) \/ Abandon(w) \/ Crash(w)
  \/ Environment

Spec == Init /\ [][Next]_vars

\* The runtime runs the continuation of every live invocation, and the abort
\* timer of a provider request fires.  Nothing makes a client call or an
\* isolate stay up.
Fairness == \A w \in Workers : WF_vars(Store(w)) /\ WF_vars(ProviderTimeout(w))

FairSpec == Spec /\ Fairness

-----------------------------------------------------------------------------
Invocation ==
  [pc : {"current", "lookup", "reserve", "reread", "retry", "reget", "build",
         "mark", "check", "fetch", "await", "finish", "invalidate", "receipt",
         "cancel", "done", "crashed"},
   action : {"dispatch", "cancel"}, event : Events, reg : Registration,
   deadline : Deadlines, at : 0..MaxTime, row : Operation \cup {NoRow},
   set : States, next : Nat, gone : BOOLEAN, caught : BOOLEAN,
   out : States \cup {"none", "refused", "capacity"}]

\* The types of the two tables, the clock and the invocations.
TypeOK ==
  /\ ops \in [Operations -> Operation \cup {NoRow}]
  /\ reg \in [Recipients -> Registration]
  /\ now \in 0..MaxTime /\ regress \in 0..MaxRegress
  /\ inv \in [Workers -> Invocation \cup {Idle}]
  /\ flight \in [Workers -> {"none", "sent"} \cup Answers]

\* The invocations that have made a provider request for operation k.
Senders(k) == {w \in Workers : flight[w] # "none" /\ OperationOf[inv[w].event] = k}

\* Every row is filed under the key of its event.
RowsKeyed == \A k \in Rows : OperationOf[ops[k].event] = k

\* An answer that leaves open that the event was or will be delivered, or that
\* forbids another request.
Unrepeatable == {"sent", "accepted", "rejected", "gone"}

\* What the lease of a row protects.  From its mark to its answer an invocation
\* holds a row that nothing else moves; and while it has made a request that
\* must not be repeated the row keeps its lease and is not open for another
\* attempt, whatever happened to the invocation (service.ts:159-200).
LeaseHeld(w) ==
  LET i == inv[w]
      k == OperationOf[i.event]
  IN  IF i = Idle THEN flight[w] = "none" ELSE
      /\ flight[w] # "none" =>
           i.pc \in {"await", "finish", "invalidate", "receipt", "done", "crashed"}
      /\ \/ i.pc \in {"retry", "reget", "build", "mark", "check", "fetch",
                     "await", "finish", "invalidate"}
         \/ i.pc = "receipt" /\ i.action = "dispatch"
         => k \in Rows /\ i.row \in Operation
      /\ i.pc = "cancel" => i.action = "cancel"
      /\ i.pc \in {"check", "fetch", "await"} =>
           ops[k].lease = w /\ ops[k].state = "dispatching"
      /\ i.pc = "finish" => /\ i.set \notin InProgress
                            /\ i.set = "retryable" => flight[w] = "busy"
      /\ flight[w] \in Unrepeatable =>
           /\ k \in Rows
           /\ ops[k].lease = w /\ ops[k].state \notin {"reserved", "retryable"}

LeaseInv == RowsKeyed /\ \A w \in Workers : LeaseHeld(w)

\* Of the requests made for one operation, by whatever invocations in whatever
\* order, at most one is accepted by the provider or may still be: a retry is
\* only made after a refusal that proves the event was not taken
\* (service.ts:158-201, "Only the exact successful reservation/CAS owner may
\* reach the provider").
AtMostOnce ==
  \A k \in Operations : \A v, w \in Senders(k) :
    flight[v] \in {"sent", "accepted"} /\ flight[w] \in {"sent", "accepted"}
      => v = w

\* All the requests of one operation carry the same event to the same token:
\* registering again may never turn an old event into a new send attempt
\* (service.ts:98-100), nor may another event that shares the moment.
TokenNeverSwitches ==
  \A k \in Operations : \A v, w \in Senders(k) :
    /\ inv[v].event = inv[w].event
    /\ inv[v].reg.token = inv[w].reg.token

\* With the invariants it rests on.
TokenKept == TypeOK /\ LeaseInv /\ TokenNeverSwitches

\* A receipt is never better or worse than the truth: "provider_accepted" is
\* returned only for an operation the provider accepted, "cancelled" and
\* "provider_rejected" only for one that it has not accepted and never will.
ReceiptTruthful ==
  \A w \in Workers : inv[w].pc = "done" =>
    LET k == OperationOf[inv[w].event] IN
    /\ inv[w].out = "provider_accepted" =>
         \E v \in Senders(k) : flight[v] = "accepted"
    /\ inv[w].out \in {"cancelled", "provider_rejected"} =>
         \A v \in Senders(k) : flight[v] \notin {"sent", "accepted"}

\* Rows a send has reserved: the lease of a row is always of its own kind.
SendRows == {k \in Rows : inv[ops[k].lease].action = "dispatch"}

\* However sends race for the last slots, the table and each installation keep
\* one for a cancellation: a withdrawal is not refused because sends alone
\* have used up the capacity (store.ts:28-34).
CancellationSlot ==
  /\ Cardinality(SendRows) < Capacity
  /\ \A s \in Scopes :
       Cardinality({k \in SendRows : ScopeOf[ops[k].event] = s})
         < InstallationCapacity

\* No recipient is sent more than RecipientBurst moments whose reservations
\* fall in one window, whatever order the inserts run in and however old the
\* clock reading is that each was bound to (store.ts:30-34).
BurstBound ==
  \A first \in SendRows :
    Cardinality({k \in SendRows :
        /\ RecipientOf[ops[k].event] = RecipientOf[ops[first].event]
        /\ ops[k].created \in ops[first].created .. ops[first].created + Window})
      <= RecipientBurst

\* What is reserved keeps the bounds it is admitted by.
AdmissionBound == CancellationSlot /\ BurstBound

\* Every invocation ends, with a receipt or an error, though the provider never
\* answers: no invocation waits for another one (service.ts:167-168).
RequestsEnd == \A w \in Workers : Alive(w) ~> ~ Alive(w)

\* The transport implements MomentDelivery: a try is a provider request.
Outcome(k) ==
  LET some(a) == \E w \in Senders(k) : flight[w] = a IN
  IF some("sent") THEN "trying"
  ELSE IF some("accepted") THEN "delivered"
  ELSE IF \/ some("rejected") \/ some("gone")
          \/ ops[k] # NoRow /\ ops[k].state = "cancelled"
       THEN "closed" ELSE "open"

Delivery == INSTANCE MomentDelivery
  WITH MaxTries <- MaxAttempts,
       tries <- [k \in Operations |-> Cardinality(Senders(k))],
       outcome <- [k \in Operations |-> Outcome(k)]

\* In particular: at most three requests for one operation, one at a time, and
\* none after it was accepted, refused or cancelled.
DeliveryImplemented == Delivery!Spec
=============================================================================
