-------------------------- MODULE PrincipalRegistry --------------------------
(***************************************************************************)
(* The principal registry (src/coordinator/worker-do): one SQLite Durable  *)
(* Object that stores, per principal, a record for each epoch, the         *)
(* tombstones of retired epochs, and a journal of the operations that were *)
(* spent.  A command runs one storage transaction, waits until the writes  *)
(* are durable, reads the store again and only then answers.  Commands     *)
(* that arrive meanwhile are served between the two reads, the object may  *)
(* be restarted with the writes that had reached the disk, and an answer   *)
(* may be lost.                                                            *)
(*                                                                         *)
(* A command that is refused aborts its transaction and changes nothing:   *)
(* it is no step of this module.                                           *)
(***************************************************************************)
EXTENDS Integers, FiniteSets

CONSTANTS
  Callers,           \* commands in progress at a time
  Principals,
  Epochs,            \* the principal epochs a command may name
  Bodies,            \* canonical records: key, scope, purposes, digests
  OnceKeys,          \* [operation, nonce] pairs the commands carry
  Restores,          \* restore fences
  RecordLimits,      \* values initialize may be given for max_records
  OperationLimits,   \* ... and for max_operations
  MaxRevision,       \* bound of the revisions a caller may expect
  NoRestore, NoBody, Idle

ASSUME EpochAssumption == Epochs \subseteq Nat \ {0}
ASSUME LimitAssumption ==
  /\ RecordLimits \subseteq Nat \ {0}
  /\ OperationLimits \subseteq Nat \ {0}
ASSUME RevisionAssumption == MaxRevision \in Nat
ASSUME RestoreAssumption == NoRestore \notin Restores

VARIABLES
  db,        \* the store as transactions and reads see it
  durable,   \* the store as a restarted object finds it
  call,      \* what each command in progress waits with
  replies    \* the positive answers given so far

vars == <<db, durable, call, replies>>

Kinds == {"register", "retire"}

Record == [principal : Principals, epoch : Epochs, body : Bodies, revision : Nat]
Tombstone == [principal : Principals, epoch : Epochs, revision : Nat]
Operation == [once : OnceKeys, kind : Kinds, revision : Nat]

\* The five tables.  A principal without a head row has head 0; an object that
\* was never initialized has no meta row, so no restore fence.
Store == [restore : Restores \cup {NoRestore}, revision : Nat,
          max_records : Nat, max_operations : Nat,
          heads : [Principals -> Nat], records : SUBSET Record,
          retired : SUBSET Tombstone, operations : SUBSET Operation]

EmptyStore == [restore |-> NoRestore, revision |-> 0,
               max_records |-> 0, max_operations |-> 0,
               heads |-> [p \in Principals |-> 0], records |-> {},
               retired |-> {}, operations |-> {}]

Answer == [kind : Kinds \cup {"read"}, principal : Principals, epoch : Epochs,
           body : Bodies \cup {NoBody}]
Pending == [answer : Answer, restore : Restores, revision : Nat]

IsOf(row, p, e) == row.principal = p /\ row.epoch = e
IsRetired(d, p, e) == \E t \in d.retired : IsOf(t, p, e)

\* Stored epochs without a tombstone.
Live(d) == {r \in d.records : ~IsRetired(d, r.principal, r.epoch)}

(***************************************************************************)
(* What the transactions do to the store.                                  *)
(***************************************************************************)
\* The restore fence and the compare-and-set on the global revision.
Meta(d, restore, expected) == d.restore = restore /\ d.revision = expected

Released(d, kind, p, e) ==
  IF kind = "retire" /\ (\E r \in Live(d) : IsOf(r, p, e)) THEN 1 ELSE 0
\* Each live epoch keeps one operation for its own retirement.
Needed(d, kind, p, e) ==
  1 + Cardinality(Live(d)) + (IF kind = "register" THEN 1 ELSE 0)
    - Released(d, kind, p, e)
Fits(d, kind, p, e) ==
  d.max_operations - Cardinality(d.operations) >= Needed(d, kind, p, e)

\* Neither the operation nor the nonce of a command was ever spent.
Fresh(d, k) ==
  \A o \in d.operations : /\ o.once.operation # k.operation
                          /\ o.once.nonce # k.nonce

MayReserve(d, k, kind, p, e) == Fits(d, kind, p, e) /\ Fresh(d, k)

Spent(d, k, kind) ==
  d.operations \cup {[once |-> k, kind |-> kind, revision |-> d.revision + 1]}

EpochInOrder(d, p, e) ==
  IF d.heads[p] = 0 THEN e = 1
                    ELSE e = d.heads[p] + 1 /\ IsRetired(d, p, d.heads[p])

MayRegister(d, p, e) ==
  /\ Cardinality(d.records) < d.max_records
  /\ ~IsRetired(d, p, e)
  /\ EpochInOrder(d, p, e)

Registered(d, p, e, b, k) ==
  [d EXCEPT !.revision = d.revision + 1,
            !.operations = Spent(d, k, "register"),
            !.records = d.records \cup {[principal |-> p, epoch |-> e, body |-> b,
                                 revision |-> d.revision + 1]},
            !.heads = [d.heads EXCEPT ![p] = e]]

Later(a, b) == IF a > b THEN a ELSE b

Retired(d, p, e, k) ==
  [d EXCEPT !.revision = d.revision + 1,
            !.operations = Spent(d, k, "retire"),
            !.retired = d.retired \cup {[principal |-> p, epoch |-> e,
                                 revision |-> d.revision + 1]},
            !.heads = [d.heads EXCEPT ![p] = Later(d.heads[p], e)]]

(***************************************************************************)
(* The commands.                                                           *)
(***************************************************************************)
Wait(c, answer, restore, revision) ==
  call' = [call EXCEPT ![c] = [answer |-> answer, restore |-> restore,
                               revision |-> revision]]

\* Its answer says no more than that the object is initialized, and is left out.
Initialize ==
  /\ db.restore = NoRestore
  /\ \E restore \in Restores, records \in RecordLimits, operations \in OperationLimits :
       db' = [EmptyStore EXCEPT !.restore = restore, !.max_records = records,
                                !.max_operations = operations]
  /\ UNCHANGED <<durable, call, replies>>

Register(c) ==
  /\ call[c] = Idle
  /\ \E restore \in Restores, expected \in 0..MaxRevision, k \in OnceKeys,
        p \in Principals, e \in Epochs, b \in Bodies :
       /\ Meta(db, restore, expected)
       /\ MayRegister(db, p, e)
       /\ MayReserve(db, k, "register", p, e)
       /\ db' = Registered(db, p, e, b, k)
       /\ Wait(c, [kind |-> "register", principal |-> p, epoch |-> e, body |-> b],
               restore, db.revision + 1)
  /\ UNCHANGED <<durable, replies>>

\* The tombstone's primary key aborts a second retirement of an epoch; an epoch
\* nobody registered may be retired.
Retire(c) ==
  /\ call[c] = Idle
  /\ \E restore \in Restores, expected \in 0..MaxRevision, k \in OnceKeys,
        p \in Principals, e \in Epochs :
       /\ Meta(db, restore, expected)
       /\ MayReserve(db, k, "retire", p, e)
       /\ ~IsRetired(db, p, e)
       /\ db' = Retired(db, p, e, k)
       /\ Wait(c, [kind |-> "retire", principal |-> p, epoch |-> e, body |-> NoBody],
               restore, db.revision + 1)
  /\ UNCHANGED <<durable, replies>>

\* A read answers at once, for the scope and purpose of a live record.
Read(c) ==
  /\ call[c] = Idle
  /\ \E r \in Live(db) :
       Wait(c, [kind |-> "read", principal |-> r.principal, epoch |-> r.epoch,
                body |-> r.body], db.restore, db.revision)
  /\ UNCHANGED <<db, durable, replies>>

\* The runtime holds an answer, and storage.sync waits, until the writes made
\* before it are on the disk.
\* A slip: storage.sync is not awaited.
SyncedAtOnce(c) == TRUE
Synced(c) == durable.restore # NoRestore /\ durable.revision >= call[c].revision

\* What a mutation reads again after the wait, and the answer it then gives.
Unchanged(c) ==
  /\ db.restore = call[c].restore
  /\ db.revision = call[c].revision
\* A slip: nothing is read again after the wait.
ConfirmedUnread(c) == TRUE
Confirmed(c) ==
  LET a == call[c].answer
  IN CASE a.kind = "register" -> Unchanged(c) /\ ~IsRetired(db, a.principal, a.epoch)
       [] a.kind = "retire"   -> Unchanged(c)
       [] OTHER               -> TRUE

Acknowledge(c) ==
  /\ call[c] # Idle
  /\ Synced(c)
  /\ Confirmed(c)
  /\ replies' = replies \cup {call[c].answer}
  /\ call' = [call EXCEPT ![c] = Idle]
  /\ UNCHANGED <<db, durable>>

\* The command answers that it is unavailable, though its writes stand: the
\* store changed during the wait, or the wait failed; or the answer is lost.
Refuse(c) ==
  /\ call[c] # Idle
  /\ call' = [call EXCEPT ![c] = Idle]
  /\ UNCHANGED <<db, durable, replies>>

(***************************************************************************)
(* The Durable Object runtime.                                             *)
(***************************************************************************)
Flush ==
  /\ durable # db
  /\ durable' = db
  /\ UNCHANGED <<db, call, replies>>

Restart ==
  /\ db' = durable
  /\ call' = [c \in Callers |-> Idle]
  /\ UNCHANGED <<durable, replies>>

Init ==
  /\ db = EmptyStore
  /\ durable = EmptyStore
  /\ call = [c \in Callers |-> Idle]
  /\ replies = {}

Next ==
  \/ Initialize
  \/ \E c \in Callers : \/ Register(c) \/ Retire(c) \/ Read(c)
                        \/ Acknowledge(c) \/ Refuse(c)
  \/ Flush
  \/ Restart

Spec == Init /\ [][Next]_vars

(***************************************************************************)
(* Properties.                                                             *)
(***************************************************************************)
\* The primary and unique keys of the three tables.
KeysHold(d) ==
  /\ \A r, s \in d.records : IsOf(r, s.principal, s.epoch) => r = s
  /\ \A t, u \in d.retired : IsOf(t, u.principal, u.epoch) => t = u
  /\ \A o, q \in d.operations :
       o.once.operation = q.once.operation \/ o.once.nonce = q.once.nonce => o = q

\* The tables hold what their columns say, and no transaction is left to fail on
\* a key of a table.
StoreOK(d) ==
  /\ d \in Store
  /\ IsFiniteSet(d.records) /\ IsFiniteSet(d.operations)
  /\ KeysHold(d)

TypeOK ==
  /\ StoreOK(db) /\ StoreOK(durable)
  /\ call \in [Callers -> Pending \cup {Idle}]
  /\ replies \subseteq Answer

\* Retained operations and live epochs together never exceed max_operations
\* (worker-do/README.md:101-105), in the store and in what a restart brings back.
WithinBudget(d) == Cardinality(d.operations) + Cardinality(Live(d)) <= d.max_operations
BudgetKept == WithinBudget(db) /\ WithinBudget(durable)

\* Whatever other principals spent, each live epoch can still be retired.
RetirementAdmitted == \A r \in Live(db) : Fits(db, "retire", r.principal, r.epoch)

\* Every positive answer stands on rows that a restart cannot take away: the
\* registered record is stored, the retired epoch has its tombstone.
Stands(d, a) ==
  IF a.kind = "retire"
  THEN IsRetired(d, a.principal, a.epoch)
  ELSE \E r \in d.records : IsOf(r, a.principal, a.epoch) /\ r.body = a.body
AnswersDurable == \A a \in replies : Stands(db, a) /\ Stands(durable, a)

\* "One epoch cannot change its key, scope or record": all registrations and reads
\* that were ever answered agree on the record of an epoch, across restarts.
OneBodyPerEpoch ==
  \A a, b \in replies :
    /\ a.principal = b.principal /\ a.epoch = b.epoch
    /\ a.kind # "retire" /\ b.kind # "retire"
    => a.body = b.body

\* A registration is acknowledged only while its epoch is live: a retirement
\* served during the wait for the disk is not overlooked.
LiveWhenAcknowledged ==
  [][\A a \in replies' \ replies :
       a.kind = "register" => \E r \in Live(db) : IsOf(r, a.principal, a.epoch)]_vars

\* No old epoch is resurrected: a registered epoch is later than every epoch the
\* principal has stored or retired.
EpochsGrow ==
  [][\A r \in db'.records \ db.records :
       \A s \in db.records \cup db.retired :
         s.principal = r.principal => s.epoch < r.epoch]_vars

\* What was answered, and what can still be asked, is in the store that any
\* restart brings back.
RecordsKept == TypeOK /\ BudgetKept /\ RetirementAdmitted /\ AnswersDurable /\ OneBodyPerEpoch

\* Epochs succeed each other, and one is acknowledged while it is the live one.
EpochsInOrder == EpochsGrow /\ LiveWhenAcknowledged

\* worker-do/README.md:49-50 says that no skipped epoch exists: every epoch below
\* a stored one was stored or retired itself.
NoSkippedEpoch ==
  \A r \in db.records : \A e \in Epochs :
    e < r.epoch => \E s \in db.records \cup db.retired : IsOf(s, r.principal, e)
=============================================================================
