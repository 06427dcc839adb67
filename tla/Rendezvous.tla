----------------------------- MODULE Rendezvous -----------------------------
(***************************************************************************)
(* A rendezvous hands one encrypted destination from a phone to a browser  *)
(* (src/qualification/rendezvous, mounted by src/src/rendezvous).  Each    *)
(* transaction and each App Attest key is a Durable Object of its own.  A  *)
(* submission asks the key's object to authorize it, waits, and commits    *)
(* when the answer arrives; nothing is atomic across the two objects.      *)
(*                                                                         *)
(* The transactions of one object are synchronous, so each is one step,    *)
(* and its answer leaves only after its writes are durable: a crash before *)
(* that is a step that did not happen.                                     *)
(***************************************************************************)
EXTENDS Integers, Sequences, FiniteSets

CONSTANTS
  Transactions, Keys,
  Challenges,     \* ids of challenges; each is drawn once
  Calls,          \* calls of submit, delete and recover
  Envelopes, None,
  ActionOf,       \* [Calls -> Actions]
  Deadline,       \* [Transactions -> Nat]: expiresAt of the descriptor
  Lease,          \* life of an authorization
  ChallengeLife,  \* life of a challenge that no transaction bounds
  KeyLife,        \* life of an enrolled key
  MaxChallenges,  \* submit challenges a transaction may reserve
  MaxOperations,  \* submit challenges, or others of an action, a key holds
  MaxCounter,     \* bound: the counter of an assertion
  MaxTime         \* bound: the clock

Actions == {"submit", "delete", "recover"}
Counters == 1..MaxCounter

ASSUME ParameterAssumption ==
  /\ ActionOf \in [Calls -> Actions] /\ Deadline \in [Transactions -> Nat]
  /\ Lease \in Nat \ {0} /\ ChallengeLife \in Nat \ {0} /\ KeyLife \in Nat \ {0}
  /\ MaxChallenges \in Nat /\ MaxOperations \in [Actions -> Nat]
  /\ MaxCounter \in Nat /\ MaxTime \in Nat

VARIABLES
  tx,         \* rendezvous_state, the row of a transaction
  keys,       \* key_state, the row of a key
  ops,        \* proof_operations of all keys; an erased row keeps its fields
              \* here, and of a row that is reserved only the id is drawn
  calls,
  now,
  accepted,   \* history: the submission each transaction accepted
  delivered,  \* history: the envelopes its consumptions returned
  stopped,    \* history: a cancellation was confirmed
  ended       \* history: when the key was deleted

vars == <<tx, keys, ops, calls, now, accepted, delivered, stopped, ended>>
histories == <<accepted, delivered, stopped, ended>>

\* What a submission says: the digest of a call.
Body == [key : Keys, challenge : Challenges, counter : Counters, envelope : Envelopes]

Row == [state : {"pending", "ready", "consumed", "cancelled"},
        envelope : Envelopes \cup {None}, body : Body \cup {None}, reserved : Nat]

Key == [status : {"active", "revoked"}, created : Nat, expires : Nat, counter : Nat]

\* born is the creation of the key that authorized the operation.
Operation == [status : {"unused", "reserved", "challenge", "authorized", "erased"},
              action : Actions, key : Keys \cup {None}, tx : Transactions \cup {None},
              envelope : Envelopes \cup {None}, expires : Nat, counter : Nat,
              born : Nat, admitted : Nat \cup {None}, until : Nat]

\* waiting: the transaction that called the key's object is still there.
Call == [pc : {"idle", "authorize", "verify", "reply", "granted",
               "accepted", "done", "refused", "lost"},
         tx : Transactions \cup {None}, key : Keys \cup {None},
         challenge : Challenges \cup {None}, counter : Nat,
         envelope : Envelopes \cup {None}, born : Nat, waiting : BOOLEAN]

Acceptance == [body : Body, at : Nat]

ASSUME NoneAssumption ==
  None \notin Nat \cup Transactions \cup Keys \cup Challenges \cup Envelopes
                \cup Row \cup Key \cup Body \cup Acceptance

Smallest(S) == CHOOSE x \in S : \A y \in S : x <= y
Goto(c, pc) == calls' = [calls EXCEPT ![c].pc = pc]

Idle == [pc |-> "idle", tx |-> None, key |-> None, challenge |-> None, counter |-> 0,
         envelope |-> None, born |-> 0, waiting |-> FALSE]

\* A call that ended without acceptance keeps nothing.
End(c, pc) == calls' = [calls EXCEPT ![c] = [Idle EXCEPT !.pc = pc]]

(***************************************************************************)
(* The transaction's object.                                               *)
(***************************************************************************)
IsOpen(t) == tx[t] # None /\ now < Deadline[t]

Create(t) ==
  /\ now < Deadline[t] /\ tx[t] = None
  /\ tx' = [tx EXCEPT ![t] =
       [state |-> "pending", envelope |-> None, body |-> None, reserved |-> 0]]
  /\ UNCHANGED <<keys, ops, calls, now, histories>>

\* reserveSubmitChallenge; the worker then asks the key's object for it.
Reserve(ch) ==
  /\ ops[ch].status = "unused"
  /\ \E t \in Transactions, k \in Keys, e \in Envelopes :
       /\ IsOpen(t) /\ tx[t].state = "pending" /\ tx[t].reserved < MaxChallenges
       /\ tx' = [tx EXCEPT ![t].reserved = tx[t].reserved + 1]
       /\ ops' = [ops EXCEPT ![ch] =
            [status |-> "reserved", action |-> "submit", key |-> k, tx |-> t, envelope |-> e,
             expires |-> Deadline[t], counter |-> 0, born |-> 0, admitted |-> None, until |-> 0]]
  /\ UNCHANGED <<keys, calls, now, histories>>

Consume(t) ==
  /\ IsOpen(t) /\ tx[t].state = "ready"
  /\ tx' = [tx EXCEPT ![t].state = "consumed", ![t].envelope = None]
  /\ delivered' = [delivered EXCEPT ![t] = Append(delivered[t], tx[t].envelope)]
  /\ UNCHANGED <<keys, ops, calls, now, accepted, stopped, ended>>

Cancel(t) ==
  /\ IsOpen(t) /\ tx[t].state # "consumed"
  /\ tx' = [tx EXCEPT ![t].state = "cancelled", ![t].envelope = None]
  /\ stopped' = [stopped EXCEPT ![t] = TRUE]
  /\ UNCHANGED <<keys, ops, calls, now, accepted, delivered, ended>>

\* The alarm of a transaction.
Erase(t) ==
  /\ tx[t] # None /\ now >= Deadline[t]
  /\ tx' = [tx EXCEPT ![t] = None]
  /\ UNCHANGED <<keys, ops, calls, now, histories>>

(***************************************************************************)
(* The key's object.                                                       *)
(***************************************************************************)
IsActive(k) == keys[k] # None /\ keys[k].status = "active" /\ now < keys[k].expires
IsStored(ch) == ops[ch].status \in {"challenge", "authorized"}

\* The row after expire, and the operations after cleanup: a tombstone takes
\* all operations of its key with it.
Revoked(row) == [row EXCEPT !.status = "revoked"]

ExpiredRow(k) ==
  IF keys[k] # None /\ keys[k].status = "active" /\ now >= keys[k].expires
  THEN Revoked(keys[k]) ELSE keys[k]

Without(k, gone) ==
  [ch \in Challenges |->
     IF IsStored(ch) /\ ops[ch].key = k /\ ch \in gone
     THEN [ops[ch] EXCEPT !.status = "erased"] ELSE ops[ch]]

Swept(k) ==
  Without(k, IF ExpiredRow(k) # keys[k] THEN Challenges
             ELSE {ch \in Challenges : ops[ch].expires <= now})

\* installInternal: the commit of a verified enrollment.
Enroll(k) ==
  /\ keys[k] = None
  /\ keys' = [keys EXCEPT ![k] =
       [status |-> "active", created |-> now, expires |-> now + KeyLife, counter |-> 0]]
  /\ ended' = [ended EXCEPT ![k] = None]
  /\ UNCHANGED <<tx, ops, calls, now, accepted, delivered, stopped>>

HasRoom(action, k) ==
  Cardinality({ch \in Challenges : /\ Swept(k)[ch].status \in {"challenge", "authorized"}
                                   /\ ops[ch].key = k /\ ops[ch].action = action})
    < MaxOperations[action]

\* issue of a reserved submit challenge; the key need not exist.
IssueSubmit(ch) ==
  LET k == ops[ch].key
  IN /\ ops[ch].status = "reserved" /\ now < ops[ch].expires /\ HasRoom("submit", k)
     /\ keys' = [keys EXCEPT ![k] = ExpiredRow(k)]
     /\ ops' = [Swept(k) EXCEPT ![ch] = [ops[ch] EXCEPT !.status = "challenge"]]
     /\ UNCHANGED <<tx, calls, now, histories>>

\* A challenge of another action: one that is open is returned again.
IssueOther(ch) ==
  /\ ops[ch].status = "unused"
  /\ \E k \in Keys, action \in Actions \ {"submit"} :
       /\ \A other \in Challenges :
            ~(/\ Swept(k)[other].status = "challenge" /\ ops[other].key = k
              /\ ops[other].action = action)
       /\ HasRoom(action, k)
       /\ keys' = [keys EXCEPT ![k] = ExpiredRow(k)]
       /\ ops' = [Swept(k) EXCEPT ![ch] =
            [status |-> "challenge", action |-> action, key |-> k, tx |-> None,
             envelope |-> None, expires |-> now + ChallengeLife, counter |-> 0,
             born |-> 0, admitted |-> None, until |-> 0]]
  /\ UNCHANGED <<tx, calls, now, histories>>

\* The alarm of a key: a tombstone goes after every operation it could have.
SweepKey(k) ==
  LET row == ExpiredRow(k)
      purged == row # None /\ row.status = "revoked" /\ now >= row.expires + ChallengeLife
  IN /\ keys' = [keys EXCEPT ![k] = IF purged THEN None ELSE row]
     /\ ops' = Swept(k)
     /\ <<keys', ops'>> # <<keys, ops>>
     /\ UNCHANGED <<tx, calls, now, histories>>

(***************************************************************************)
(* A call: submit, or a call of authorize to delete or recover a key.      *)
(***************************************************************************)
BodyOf(c) == [key |-> calls[c].key, challenge |-> calls[c].challenge,
              counter |-> calls[c].counter, envelope |-> calls[c].envelope]

\* #busy of a transaction and verifying of a key.
IsBusy(t) ==
  \E c \in Calls : calls[c].tx = t /\ calls[c].waiting
                   /\ calls[c].pc \in {"authorize", "verify", "reply", "granted"}
IsVerifying(k) == \E c \in Calls : calls[c].key = k /\ calls[c].pc \in {"verify", "reply"}

Known == {ch \in Challenges : ops[ch].status \notin {"unused", "reserved"}}

Submit(c) ==
  /\ ActionOf[c] = "submit" /\ calls[c].pc = "idle"
  /\ \E t \in Transactions, body \in [key : Keys, challenge : Known, counter : Counters,
                                      envelope : Envelopes] :
       /\ IsOpen(t) /\ ~IsBusy(t)
       /\ tx[t].body = body \/ (tx[t].body = None /\ tx[t].state = "pending")
       /\ calls' = [calls EXCEPT ![c] =
            [pc |-> IF tx[t].body = None THEN "authorize" ELSE "accepted",
             tx |-> t, key |-> body.key, challenge |-> body.challenge,
             counter |-> body.counter, envelope |-> body.envelope,
             born |-> 0, waiting |-> TRUE]]
  /\ UNCHANGED <<tx, keys, ops, now, histories>>

Manage(c) ==
  /\ ActionOf[c] # "submit" /\ calls[c].pc = "idle"
  /\ \E k \in Keys, ch \in Known, counter \in Counters :
       calls' = [calls EXCEPT ![c] =
         [pc |-> "authorize", tx |-> None, key |-> k, challenge |-> ch, counter |-> counter,
          envelope |-> None, born |-> 0, waiting |-> TRUE]]
  /\ UNCHANGED <<tx, keys, ops, now, histories>>

\* An operation that this call may still use.
IsUsable(c) ==
  LET ch == calls[c].challenge
  IN /\ IsActive(calls[c].key) /\ IsStored(ch) /\ now < ops[ch].expires
     /\ ops[ch].key = calls[c].key /\ ops[ch].action = ActionOf[c]

\* authorize: read key and operation, verify the signature against them.
Authorize(c) ==
  LET k == calls[c].key
      ch == calls[c].challenge
  IN /\ calls[c].pc = "authorize" /\ ~IsVerifying(k) /\ IsUsable(c)
     /\ ops[ch].status = "challenge" => calls[c].counter > keys[k].counter
     /\ calls' = [calls EXCEPT
          ![c].pc = IF ops[ch].status = "challenge" THEN "verify" ELSE "reply",
          ![c].born = keys[k].created]
     /\ ops' = Swept(k)
     /\ UNCHANGED <<tx, keys, now, histories>>

\* The same challenge and the same key as were read, and a counter still new.
IsUnchanged(c) ==
  /\ IsUsable(c) /\ ops[calls[c].challenge].status = "challenge"
  /\ keys[calls[c].key].created = calls[c].born
  /\ calls[c].counter > keys[calls[c].key].counter

Authorized(c) ==
  LET k == calls[c].key
      op == ops[calls[c].challenge]
      expires == Smallest({op.expires, keys[k].expires})
  IN [op EXCEPT !.status = "authorized", !.counter = calls[c].counter,
                !.born = keys[k].created, !.admitted = now, !.expires = expires,
                !.until = IF ActionOf[c] = "submit" THEN Smallest({now + Lease, expires})
                          ELSE expires]

CommitUncounted(c) ==
  LET k == calls[c].key
  IN /\ calls[c].pc = "verify" /\ ActionOf[c] # "delete" /\ IsUnchanged(c)
     /\ ops' = [Swept(k) EXCEPT ![calls[c].challenge] = Authorized(c)]
     /\ Goto(c, "reply")
     /\ UNCHANGED <<tx, keys, now, histories>>

Commit(c) ==
  LET k == calls[c].key
  IN /\ calls[c].pc = "verify" /\ ActionOf[c] # "delete" /\ IsUnchanged(c)
     /\ keys' = [keys EXCEPT ![k].counter = calls[c].counter]
     /\ ops' = [Swept(k) EXCEPT ![calls[c].challenge] = Authorized(c)]
     /\ Goto(c, "reply")
     /\ UNCHANGED <<tx, now, histories>>

Delete(c) ==
  LET k == calls[c].key
  IN /\ calls[c].pc = "verify" /\ ActionOf[c] = "delete" /\ IsUnchanged(c)
     /\ keys' = [keys EXCEPT ![k] = Revoked(keys[k])]
     /\ ops' = Without(k, Challenges)
     /\ ended' = [ended EXCEPT ![k] = now]
     /\ End(c, "done")
     /\ UNCHANGED <<tx, now, accepted, delivered, stopped>>

\* disposition: the receipt is read again, after the alarm was set.
IsCurrent(c) ==
  /\ IsUsable(c) /\ ops[calls[c].challenge].status = "authorized"
  /\ ops[calls[c].challenge].counter = calls[c].counter
  /\ now < ops[calls[c].challenge].until

Reply(c) ==
  /\ calls[c].pc = "reply" /\ IsCurrent(c)
  /\ IF ~calls[c].waiting THEN End(c, "lost")
     ELSE IF ActionOf[c] = "submit" THEN Goto(c, "granted") ELSE End(c, "done")
  /\ ops' = Swept(calls[c].key)
  /\ UNCHANGED <<tx, keys, now, histories>>

CoversForever(c) ==
  LET grant == ops[calls[c].challenge]
  IN grant.tx = calls[c].tx /\ grant.envelope = calls[c].envelope

Covers(c) ==
  LET grant == ops[calls[c].challenge]
  IN grant.tx = calls[c].tx /\ grant.envelope = calls[c].envelope /\ now < grant.until

Accept(c) ==
  LET t == calls[c].tx
  IN /\ calls[c].pc = "granted" /\ IsOpen(t)
     /\ tx[t].state = "pending" /\ tx[t].body = None /\ Covers(c)
     /\ tx' = [tx EXCEPT ![t] = [tx[t] EXCEPT !.state = "ready", !.envelope = calls[c].envelope,
                                               !.body = BodyOf(c)]]
     /\ accepted' = [accepted EXCEPT ![t] = [body |-> BodyOf(c), at |-> now]]
     /\ Goto(c, "accepted")
     /\ UNCHANGED <<keys, ops, now, delivered, stopped, ended>>

\* A check fails, the budget of key calls is spent, or the key's object or
\* the message to or from it is lost.
Refuse(c) ==
  /\ calls[c].pc \in {"authorize", "verify", "reply", "granted"} /\ End(c, "refused")
  /\ UNCHANGED <<tx, keys, ops, now, histories>>

\* The transaction's object restarts; what runs in the key's object goes on.
Restart(c) ==
  /\ ActionOf[c] = "submit" /\ calls[c].waiting
  /\ \/ calls[c].pc \in {"authorize", "granted"} /\ End(c, "lost")
     \/ calls[c].pc \in {"verify", "reply"} /\ calls' = [calls EXCEPT ![c].waiting = FALSE]
  /\ UNCHANGED <<tx, keys, ops, now, histories>>

Tick == now < MaxTime /\ now' = now + 1 /\ UNCHANGED <<tx, keys, ops, calls, histories>>

Unused == [status |-> "unused", action |-> "submit", key |-> None, tx |-> None,
           envelope |-> None, expires |-> 0, counter |-> 0, born |-> 0,
           admitted |-> None, until |-> 0]
Init ==
  /\ tx = [t \in Transactions |-> None] /\ keys = [k \in Keys |-> None]
  /\ ops = [ch \in Challenges |-> Unused] /\ calls = [c \in Calls |-> Idle] /\ now = 0
  /\ accepted = [t \in Transactions |-> None] /\ delivered = [t \in Transactions |-> <<>>]
  /\ stopped = [t \in Transactions |-> FALSE] /\ ended = [k \in Keys |-> None]

Next ==
  \/ \E t \in Transactions : Create(t) \/ Consume(t) \/ Cancel(t) \/ Erase(t)
  \/ \E k \in Keys : Enroll(k) \/ SweepKey(k)
  \/ \E ch \in Challenges : Reserve(ch) \/ IssueSubmit(ch) \/ IssueOther(ch)
  \/ \E c \in Calls : \/ Submit(c) \/ Manage(c) \/ Authorize(c) \/ Commit(c) \/ Delete(c)
                      \/ Reply(c) \/ Accept(c) \/ Refuse(c) \/ Restart(c)
  \/ Tick

Spec == Init /\ [][Next]_vars

(***************************************************************************)
(* Properties.                                                             *)
(***************************************************************************)
\* A browser receives at most one envelope, and it is the one that was
\* accepted; its sender had a key authorize exactly this envelope for exactly
\* this transaction, while the key was active.
OneDelivery ==
  \A t \in Transactions : delivered[t] # <<>> =>
    /\ Len(delivered[t]) = 1 /\ accepted[t] # None
    /\ LET body == accepted[t].body
           grant == ops[body.challenge]
       IN /\ delivered[t][1] = body.envelope /\ grant.envelope = body.envelope
          /\ grant.tx = t /\ grant.key = body.key /\ grant.counter = body.counter
          /\ grant.admitted # None /\ grant.admitted <= accepted[t].at

\* A confirmed cancellation holds: nothing was or will be delivered, and
\* nothing is accepted after it, whatever is on its way from a key's object.
CancelHolds ==
  \A t \in Transactions : stopped[t] =>
    delivered[t] = <<>> /\ (tx[t] # None => tx[t].state = "cancelled")

\* First valid submission wins: all calls of a transaction that were answered
\* accepted said the same, also those repeated after its end.
OneWinner ==
  \A c \in Calls : calls[c].pc = "accepted" =>
    /\ accepted[calls[c].tx] # None /\ accepted[calls[c].tx].body = BodyOf(c)

\* docs/rendezvous/KEY_STATE_V1.md: an authorization returned before its key
\* was deleted may still win, but only within its lease.
LeaseBounded ==
  \A t \in Transactions : accepted[t] # None =>
    LET k == accepted[t].body.key
    IN ended[k] # None => accepted[t].at < ended[k] + Lease

\* No two operations were admitted by the same counter of the same key, and
\* the key has counted every operation it admitted.
CounterOnce ==
  \A a \in Challenges : ops[a].admitted # None =>
    /\ \A b \in Challenges \ {a} :
         ops[b].admitted # None /\ ops[b].key = ops[a].key /\ ops[b].born = ops[a].born =>
           ops[b].counter # ops[a].counter
    /\ LET k == ops[a].key
       IN keys[k] # None /\ keys[k].created = ops[a].born => ops[a].counter <= keys[k].counter

\* Rows and calls have their shape; an ended transaction keeps no envelope.
TypeOK ==
  /\ tx \in [Transactions -> Row \cup {None}] /\ keys \in [Keys -> Key \cup {None}]
  /\ ops \in [Challenges -> Operation] /\ calls \in [Calls -> Call] /\ now \in Nat
  /\ accepted \in [Transactions -> Acceptance \cup {None}]
  /\ delivered \in [Transactions -> Seq(Envelopes)]
  /\ stopped \in [Transactions -> BOOLEAN] /\ ended \in [Keys -> Nat \cup {None}]
  /\ \A t \in Transactions : tx[t] # None => (tx[t].envelope # None <=> tx[t].state = "ready")

\* A transaction has one outcome, whichever calls overlap: one winner that all
\* are told of, at most one delivery, of what the key authorized and within its
\* lease, and none after a cancellation.
OneOutcome == TypeOK /\ OneDelivery /\ CancelHolds /\ OneWinner /\ LeaseBounded
=============================================================================
