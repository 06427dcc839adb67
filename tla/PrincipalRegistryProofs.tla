----------------------- MODULE PrincipalRegistryProofs -----------------------
(***************************************************************************)
(* Proofs about the principal registry, for all principals, epochs, limits *)
(* and commands.  What a transaction does is proved once about a store d,  *)
(* and used for db; a restart and a flush copy one store to the other.     *)
(***************************************************************************)
EXTENDS Stores, FiniteSetTheorems, TLAPS

\* The head of a principal is at or above every row of the principal, which is
\* why an epoch in order is new.
HeadsCover(d) ==
  \A s \in d.records \cup d.retired : s.epoch <= d.heads[s.principal]

\* Revisions grow, so a row is at or below the revision of its store.
RevisionsCover(d) ==
  \A s \in d.records \cup d.retired : 1 <= s.revision /\ s.revision <= d.revision

\* Without a meta row there are no rows at all.
EmptyUntilInitialized(d) ==
  d.restore = NoRestore => d.revision = 0 /\ d.records = {} /\ d.retired = {}

StoreInv(d) ==
  /\ StoreOK(d) /\ WithinBudget(d) /\ HeadsCover(d) /\ RevisionsCover(d)
  /\ EmptyUntilInitialized(d)

\* What is durable is the store as it was at an earlier revision.
DurableBehind ==
  /\ durable.revision <= db.revision
  /\ durable.records \subseteq db.records
  /\ durable.retired \subseteq db.retired
  /\ \A s \in db.records : s.revision <= durable.revision => s \in durable.records
  /\ \A t \in db.retired : t.revision <= durable.revision => t \in durable.retired

\* A command waits for the revision by which the row it will answer with was written.
StandsBy(d, a, n) ==
  IF a.kind = "retire"
  THEN \E t \in d.retired : IsOf(t, a.principal, a.epoch) /\ t.revision <= n
  ELSE \E r \in d.records :
         IsOf(r, a.principal, a.epoch) /\ r.body = a.body /\ r.revision <= n

WaitsStand ==
  \A c \in Callers :
    call[c] # Idle => StandsBy(db, call[c].answer, call[c].revision)

TypeInv ==
  /\ StoreInv(db) /\ StoreInv(durable)
  /\ call \in [Callers -> Pending \cup {Idle}]
  /\ replies \subseteq Answer

IInv == TypeInv /\ DurableBehind /\ WaitsStand /\ AnswersDurable

-----------------------------------------------------------------------------
\* The store of an object that was never used is in order.
LEMMA EmptyStoreInv == StoreInv(EmptyStore)
<1>1. EmptyStore \in Store
  BY DEF EmptyStore, Store
<1>2. /\ EmptyStore.records = {} /\ EmptyStore.operations = {}
      /\ EmptyStore.retired = {} /\ EmptyStore.max_operations = 0
  BY DEF EmptyStore
<1>3. Live(EmptyStore) = {}
  BY <1>2 DEF Live
<1>4. IsFiniteSet({}) /\ Cardinality({}) = 0
  BY FS_EmptySet
<1>5. WithinBudget(EmptyStore)
  BY <1>2, <1>3, <1>4 DEF WithinBudget
<1>6. EmptyStore.revision = 0
  BY DEF EmptyStore
<1> QED
  BY <1>1, <1>2, <1>4, <1>5, <1>6
  DEF StoreInv, StoreOK, KeysHold, HeadsCover, RevisionsCover, EmptyUntilInitialized

\* initialize writes a store in order, whatever limits it is given.
LEMMA InitializedInv ==
  ASSUME NEW restore \in Restores, NEW records \in RecordLimits,
         NEW operations \in OperationLimits
  PROVE  StoreInv([EmptyStore EXCEPT !.restore = restore, !.max_records = records,
                                     !.max_operations = operations])
<1> DEFINE d == [EmptyStore EXCEPT !.restore = restore, !.max_records = records,
                                   !.max_operations = operations]
<1>1. records \in Nat /\ operations \in Nat
  BY LimitAssumption
<1>2. d \in Store
  BY <1>1 DEF EmptyStore, Store
<1>3. /\ d.records = {} /\ d.operations = {} /\ d.retired = {}
      /\ d.max_operations = operations /\ d.revision = 0
  BY DEF EmptyStore
<1>4. Live(d) = {}
  BY <1>3 DEF Live
<1>5. IsFiniteSet({}) /\ Cardinality({}) = 0
  BY FS_EmptySet
<1> HIDE DEF d
<1>6. WithinBudget(d)
  BY <1>1, <1>3, <1>4, <1>5 DEF WithinBudget
<1>7. StoreInv(d)
  BY <1>2, <1>3, <1>5, <1>6
  DEF StoreInv, StoreOK, KeysHold, HeadsCover, RevisionsCover, EmptyUntilInitialized
<1> QED
  BY <1>7 DEF d

\* The counts the budget is about are natural numbers.
LEMMA Counts ==
  ASSUME NEW d, StoreOK(d)
  PROVE  /\ d.max_operations \in Nat /\ d.revision \in Nat
         /\ IsFiniteSet(Live(d))
         /\ Cardinality(Live(d)) \in Nat /\ Cardinality(d.operations) \in Nat
<1>1. d.max_operations \in Nat /\ d.revision \in Nat
  BY DEF StoreOK, Store
<1>2. IsFiniteSet(d.records) /\ IsFiniteSet(d.operations)
  BY DEF StoreOK
<1>3. Live(d) \subseteq d.records
  BY DEF Live
<1>4. IsFiniteSet(Live(d))
  BY <1>2, <1>3, FS_Subset
<1> QED
  BY <1>1, <1>2, <1>4, FS_CardinalityType

\* Spending a fresh operation adds one row to the journal and keeps its keys.
LEMMA SpentAddsOne ==
  ASSUME NEW d, StoreOK(d), NEW k \in OnceKeys, NEW kind \in Kinds, Fresh(d, k)
  PROVE  /\ Spent(d, k, kind) \in SUBSET Operation
         /\ IsFiniteSet(Spent(d, k, kind))
         /\ Cardinality(Spent(d, k, kind)) = Cardinality(d.operations) + 1
         /\ \A o, q \in Spent(d, k, kind) :
              o.once.operation = q.once.operation \/ o.once.nonce = q.once.nonce => o = q
<1> DEFINE o1 == [once |-> k, kind |-> kind, revision |-> d.revision + 1]
<1>1. d.operations \in SUBSET Operation /\ d.revision \in Nat
  BY DEF StoreOK, Store
<1>2. o1 \in Operation
  BY <1>1 DEF Operation
<1>3. o1 \notin d.operations
  BY DEF Fresh
<1>4. IsFiniteSet(d.operations)
  BY DEF StoreOK
<1>5. Spent(d, k, kind) = d.operations \cup {o1}
  BY DEF Spent
<1>6. o1.once = k
  OBVIOUS
<1>7. \A o, q \in d.operations :
        o.once.operation = q.once.operation \/ o.once.nonce = q.once.nonce => o = q
  BY DEF StoreOK, KeysHold
<1> HIDE DEF o1
<1>8. \A o \in d.operations :
         /\ o.once.operation # o1.once.operation /\ o.once.nonce # o1.once.nonce
  BY <1>6 DEF Fresh
<1>9. /\ IsFiniteSet(d.operations \cup {o1})
      /\ Cardinality(d.operations \cup {o1}) = Cardinality(d.operations) + 1
  BY <1>3, <1>4, FS_AddElement
<1> QED
  BY <1>1, <1>2, <1>5, <1>7, <1>8, <1>9

\* A store stays one when tables are replaced by tables of the same types.
LEMMA UpdatedStore ==
  ASSUME NEW d \in Store, NEW revision \in Nat, NEW operations \in SUBSET Operation,
         NEW heads \in [Principals -> Nat], NEW records \in SUBSET Record,
         NEW retired \in SUBSET Tombstone
  PROVE  /\ [d EXCEPT !.revision = revision, !.operations = operations,
                      !.records = records, !.heads = heads] \in Store
         /\ [d EXCEPT !.revision = revision, !.operations = operations,
                      !.retired = retired, !.heads = heads] \in Store
BY DEF Store

\* The registration transaction: the record is new, its epoch is above all rows of
\* the principal, and one operation is left over for its retirement.
LEMMA RegisteredInv ==
  ASSUME NEW d, StoreInv(d), NEW p \in Principals, NEW e \in Epochs,
         NEW b \in Bodies, NEW k \in OnceKeys,
         d.restore # NoRestore, MayRegister(d, p, e), MayReserve(d, k, "register", p, e)
  PROVE  /\ StoreInv(Registered(d, p, e, b, k))
         /\ \A s \in d.records \cup d.retired : s.principal = p => s.epoch < e
<1> DEFINE r == [principal |-> p, epoch |-> e, body |-> b, revision |-> d.revision + 1]
           n == Registered(d, p, e, b, k)
<1>1. StoreOK(d) /\ d \in Store
  BY DEF StoreInv, StoreOK
<1>2. /\ d.revision \in Nat /\ d.heads \in [Principals -> Nat]
      /\ d.records \in SUBSET Record /\ d.retired \in SUBSET Tombstone
      /\ d.max_operations \in Nat /\ e \in Nat /\ e # 0
  BY <1>1, EpochAssumption DEF Store
<1>3. e = d.heads[p] + 1
  BY <1>2 DEF MayRegister, EpochInOrder
<1>4. \A s \in d.records \cup d.retired :
        /\ s.principal \in Principals /\ s.epoch \in Nat /\ s.revision \in Nat
        /\ s.epoch <= d.heads[s.principal]
        /\ 1 <= s.revision /\ s.revision <= d.revision
  BY <1>2, EpochAssumption DEF StoreInv, HeadsCover, RevisionsCover, Record, Tombstone
<1>5. \A s \in d.records \cup d.retired : s.principal = p => s.epoch < e
  BY <1>2, <1>3, <1>4
<1>6. /\ n.revision = d.revision + 1 /\ n.records = d.records \cup {r}
      /\ n.retired = d.retired /\ n.operations = Spent(d, k, "register")
      /\ n.heads = [d.heads EXCEPT ![p] = e]
      /\ n.restore = d.restore /\ n.max_operations = d.max_operations
      /\ n.max_records = d.max_records
  BY <1>1 DEF Registered, Store
<1>7. r \in Record /\ r.principal = p /\ r.epoch = e /\ r.revision = d.revision + 1
  BY <1>2 DEF Record
<1>8. "register" \in Kinds /\ Fresh(d, k)
  BY DEF Kinds, MayReserve
<1>9. /\ n.operations \in SUBSET Operation /\ IsFiniteSet(n.operations)
      /\ Cardinality(n.operations) = Cardinality(d.operations) + 1
      /\ \A o, q \in n.operations :
           o.once.operation = q.once.operation \/ o.once.nonce = q.once.nonce => o = q
  BY <1>1, <1>6, <1>8, SpentAddsOne
<1>10. n.heads \in [Principals -> Nat]
  BY <1>2, <1>6
<1>11. n \in Store
  <2>1. n.records \in SUBSET Record /\ d.revision + 1 \in Nat
    BY <1>2, <1>6, <1>7
  <2>2. n = [d EXCEPT !.revision = d.revision + 1,
                      !.operations = Spent(d, k, "register"),
                      !.records = d.records \cup {r},
                      !.heads = [d.heads EXCEPT ![p] = e]]
    BY DEF Registered
  <2> HIDE DEF n, r
  <2>3. n = [d EXCEPT !.revision = d.revision + 1, !.operations = n.operations,
                      !.records = n.records, !.heads = n.heads]
    BY <2>2, <1>6
  <2>4. [d EXCEPT !.revision = d.revision + 1, !.operations = n.operations,
                  !.records = n.records, !.heads = n.heads] \in Store
    BY <1>1, <1>2, <1>9, <1>10, <2>1, UpdatedStore
  <2> QED
    BY <2>3, <2>4
<1> HIDE DEF r, n
<1>12. r \notin d.records
  BY <1>2, <1>5, <1>7
<1>13. IsFiniteSet(n.records)
  <2>1. IsFiniteSet(d.records)
    BY <1>1 DEF StoreOK
  <2> QED
    BY <2>1, <1>6, FS_AddElement
<1>14. KeysHold(n)
  <2>1. \A s \in d.records : ~IsOf(s, p, e) /\ ~IsOf(r, s.principal, s.epoch)
    BY <1>2, <1>5, <1>7 DEF IsOf
  <2>2. \A s, t \in d.records : IsOf(s, t.principal, t.epoch) => s = t
    BY <1>1 DEF StoreOK, KeysHold
  <2>3. \A s, t \in n.records : IsOf(s, t.principal, t.epoch) => s = t
    BY <2>1, <2>2, <1>6, <1>7 DEF IsOf
  <2>4. \A s, t \in n.retired : IsOf(s, t.principal, t.epoch) => s = t
    BY <1>1, <1>6 DEF StoreOK, KeysHold
  <2> QED
    BY <2>3, <2>4, <1>9 DEF KeysHold
<1>15. Live(n) \subseteq Live(d) \cup {r}
  BY <1>6 DEF Live, IsRetired
<1>16. /\ Cardinality(Live(n)) <= Cardinality(Live(d)) + 1
       /\ Cardinality(Live(n)) \in Nat
  <2>1. IsFiniteSet(Live(d)) /\ Cardinality(Live(d)) \in Nat
    BY <1>1, Counts
  <2> DEFINE m == Cardinality(Live(d) \cup {r})
  <2>2. /\ IsFiniteSet(Live(d) \cup {r})
        /\ m = IF r \in Live(d) THEN Cardinality(Live(d)) ELSE Cardinality(Live(d)) + 1
    BY <2>1, FS_AddElement
  <2>3. m <= Cardinality(Live(d)) + 1 /\ m \in Nat
    BY <2>1, <2>2
  <2>4. Cardinality(Live(n)) <= m /\ IsFiniteSet(Live(n))
    BY <2>2, <1>15, FS_Subset
  <2>5. Cardinality(Live(n)) \in Nat
    BY <2>4, FS_CardinalityType
  <2> QED
    BY <2>1, <2>3, <2>4, <2>5
<1>17. WithinBudget(n)
  <2>1. Cardinality(d.operations) \in Nat /\ Cardinality(Live(d)) \in Nat
    BY <1>1, Counts
  <2>2. d.max_operations - Cardinality(d.operations) >= 2 + Cardinality(Live(d))
    BY <2>1, <1>2 DEF MayReserve, Fits, Needed, Released
  <2> QED
    BY <2>1, <2>2, <1>2, <1>6, <1>9, <1>16 DEF WithinBudget
<1>18. HeadsCover(n)
  BY <1>2, <1>3, <1>4, <1>6, <1>7 DEF HeadsCover
<1>19. RevisionsCover(n)
  BY <1>2, <1>4, <1>6, <1>7 DEF RevisionsCover
<1>20. StoreInv(n)
  BY <1>6, <1>9, <1>11, <1>13, <1>14, <1>17, <1>18, <1>19
  DEF StoreInv, StoreOK, EmptyUntilInitialized
<1> QED
  BY <1>5, <1>20 DEF n, r

\* The retirement transaction: a tombstone on a stored live epoch takes that epoch
\* out of the live ones, which pays for its operation; any other tombstone needs an
\* operation beyond those the live epochs keep.
LEMMA RetiredInv ==
  ASSUME NEW d, StoreInv(d), NEW p \in Principals, NEW e \in Epochs, NEW k \in OnceKeys,
         d.restore # NoRestore, ~IsRetired(d, p, e), MayReserve(d, k, "retire", p, e)
  PROVE  StoreInv(Retired(d, p, e, k))
<1> DEFINE t == [principal |-> p, epoch |-> e, revision |-> d.revision + 1]
           n == Retired(d, p, e, k)
<1>1. StoreOK(d) /\ d \in Store
  BY DEF StoreInv, StoreOK
<1>2. /\ d.revision \in Nat /\ d.heads \in [Principals -> Nat]
      /\ d.records \in SUBSET Record /\ d.retired \in SUBSET Tombstone
      /\ d.max_operations \in Nat /\ e \in Nat /\ e # 0
  BY <1>1, EpochAssumption DEF Store
<1>3. /\ Later(d.heads[p], e) \in Nat
      /\ d.heads[p] <= Later(d.heads[p], e) /\ e <= Later(d.heads[p], e)
  BY <1>2 DEF Later
<1>4. \A s \in d.records \cup d.retired :
        /\ s.principal \in Principals /\ s.epoch \in Nat /\ s.revision \in Nat
        /\ s.epoch <= d.heads[s.principal]
        /\ 1 <= s.revision /\ s.revision <= d.revision
  BY <1>2, EpochAssumption DEF StoreInv, HeadsCover, RevisionsCover, Record, Tombstone
<1>5. /\ n.revision = d.revision + 1 /\ n.records = d.records
      /\ n.retired = d.retired \cup {t} /\ n.operations = Spent(d, k, "retire")
      /\ n.heads = [d.heads EXCEPT ![p] = Later(d.heads[p], e)]
      /\ n.restore = d.restore /\ n.max_operations = d.max_operations
      /\ n.max_records = d.max_records
  BY <1>1 DEF Retired, Store
<1>6. t \in Tombstone /\ t.principal = p /\ t.epoch = e /\ t.revision = d.revision + 1
  BY <1>2 DEF Tombstone
<1>7. "retire" \in Kinds /\ Fresh(d, k)
  BY DEF Kinds, MayReserve
<1>8. /\ n.operations \in SUBSET Operation /\ IsFiniteSet(n.operations)
      /\ Cardinality(n.operations) = Cardinality(d.operations) + 1
      /\ \A o, q \in n.operations :
           o.once.operation = q.once.operation \/ o.once.nonce = q.once.nonce => o = q
  BY <1>1, <1>5, <1>7, SpentAddsOne
<1>9. n.heads \in [Principals -> Nat]
  BY <1>2, <1>3, <1>5
<1>10. n \in Store
  <2>1. n.retired \in SUBSET Tombstone /\ d.revision + 1 \in Nat
    BY <1>2, <1>5, <1>6
  <2>2. n = [d EXCEPT !.revision = d.revision + 1,
                      !.operations = Spent(d, k, "retire"),
                      !.retired = d.retired \cup {t},
                      !.heads = [d.heads EXCEPT ![p] = Later(d.heads[p], e)]]
    BY DEF Retired
  <2> HIDE DEF n, t
  <2>3. n = [d EXCEPT !.revision = d.revision + 1, !.operations = n.operations,
                      !.retired = n.retired, !.heads = n.heads]
    BY <2>2, <1>5
  <2>4. [d EXCEPT !.revision = d.revision + 1, !.operations = n.operations,
                  !.retired = n.retired, !.heads = n.heads] \in Store
    BY <1>1, <1>2, <1>8, <1>9, <2>1, UpdatedStore
  <2> QED
    BY <2>3, <2>4
<1> HIDE DEF t, n
<1>11. IsFiniteSet(n.records)
  BY <1>1, <1>5 DEF StoreOK
<1>12. KeysHold(n)
  <2>1. \A s \in d.retired : ~IsOf(s, p, e)
    BY DEF IsRetired
  <2>2. \A s, u \in d.retired : IsOf(s, u.principal, u.epoch) => s = u
    BY <1>1 DEF StoreOK, KeysHold
  <2>3. \A s, u \in n.retired : IsOf(s, u.principal, u.epoch) => s = u
    BY <2>1, <2>2, <1>5, <1>6 DEF IsOf
  <2>4. \A s, u \in n.records : IsOf(s, u.principal, u.epoch) => s = u
    BY <1>1, <1>5 DEF StoreOK, KeysHold
  <2> QED
    BY <2>3, <2>4, <1>8 DEF KeysHold
<1>13. WithinBudget(n)
  <2>1. /\ Cardinality(d.operations) \in Nat /\ Cardinality(Live(d)) \in Nat
        /\ IsFiniteSet(Live(d))
    BY <1>1, Counts
  <2>2. Live(n) \subseteq Live(d)
    BY <1>5 DEF Live, IsRetired
  <2>3. d.max_operations - Cardinality(d.operations)
          >= 1 + Cardinality(Live(d)) + 0 - Released(d, "retire", p, e)
    BY DEF MayReserve, Fits, Needed
  <2>4. CASE \E r \in Live(d) : IsOf(r, p, e)
    <3>1. PICK r \in Live(d) : IsOf(r, p, e)
      BY <2>4
    <3>2. r \notin Live(n)
      BY <3>1, <1>5, <1>6 DEF Live, IsRetired, IsOf
    <3>3. Live(n) \subseteq Live(d) \ {r}
      BY <2>2, <3>2
    <3>4. /\ IsFiniteSet(Live(d) \ {r})
          /\ Cardinality(Live(d) \ {r}) = Cardinality(Live(d)) - 1
      BY <2>1, <3>1, FS_RemoveElement
    <3>5. /\ IsFiniteSet(Live(n))
          /\ Cardinality(Live(n)) <= Cardinality(Live(d) \ {r})
      BY <3>3, <3>4, FS_Subset
    <3>6. Cardinality(Live(n)) \in Nat
      BY <3>5, FS_CardinalityType
    <3>7. Released(d, "retire", p, e) = 1
      BY <2>4 DEF Released
    <3>8. Cardinality(Live(n)) <= Cardinality(Live(d)) - 1
      BY <3>4, <3>5
    <3> QED
      BY <1>2, <1>5, <1>8, <2>1, <2>3, <3>6, <3>7, <3>8 DEF WithinBudget
  <2>5. CASE ~\E r \in Live(d) : IsOf(r, p, e)
    <3>1. Cardinality(Live(n)) <= Cardinality(Live(d)) /\ IsFiniteSet(Live(n))
      BY <2>1, <2>2, FS_Subset
    <3>2. Cardinality(Live(n)) \in Nat
      BY <3>1, FS_CardinalityType
    <3>3. Released(d, "retire", p, e) = 0
      BY <2>5 DEF Released
    <3> QED
      BY <1>2, <1>5, <1>8, <2>1, <2>3, <3>1, <3>2, <3>3 DEF WithinBudget
  <2> QED
    BY <2>4, <2>5
<1>14. HeadsCover(n)
  BY <1>2, <1>3, <1>4, <1>5, <1>6 DEF HeadsCover
<1>15. RevisionsCover(n)
  BY <1>2, <1>4, <1>5, <1>6 DEF RevisionsCover
<1>16. StoreInv(n)
  BY <1>5, <1>8, <1>10, <1>11, <1>12, <1>13, <1>14, <1>15
  DEF StoreInv, StoreOK, EmptyUntilInitialized
<1> QED
  BY <1>16 DEF n

\* A store within its budget admits the retirement of each of its live epochs.
LEMMA BudgetAdmits ==
  ASSUME NEW d, StoreInv(d), NEW r \in Live(d)
  PROVE  Fits(d, "retire", r.principal, r.epoch)
<1>1. /\ d.max_operations \in Nat
      /\ Cardinality(Live(d)) \in Nat /\ Cardinality(d.operations) \in Nat
  BY Counts DEF StoreInv
<1>2. Released(d, "retire", r.principal, r.epoch) = 1
  BY DEF Released, IsOf
<1>3. Cardinality(d.operations) + Cardinality(Live(d)) <= d.max_operations
  BY DEF StoreInv, WithinBudget
<1> QED
  BY <1>1, <1>2, <1>3 DEF Fits, Needed

-----------------------------------------------------------------------------
\* What the answer waits for survives every step that only adds rows.
LEMMA StandsMonotone ==
  ASSUME NEW d, NEW n, d.records \subseteq n.records, d.retired \subseteq n.retired, NEW a
  PROVE  /\ Stands(d, a) => Stands(n, a)
         /\ \A m : StandsBy(d, a, m) => StandsBy(n, a, m)
BY DEF Stands, StandsBy, IsRetired

\* What a registration leaves of the old store and adds to it.
LEMMA RegisteredRows ==
  ASSUME NEW d \in Store, NEW p, NEW e, NEW b, NEW k
  PROVE  LET n == Registered(d, p, e, b, k)
         IN /\ n.revision = d.revision + 1
            /\ n.records = d.records \cup {[principal |-> p, epoch |-> e, body |-> b,
                                            revision |-> d.revision + 1]}
            /\ n.retired = d.retired
BY DEF Registered, Store

\* The same of a retirement.
LEMMA RetiredRows ==
  ASSUME NEW d \in Store, NEW p, NEW e, NEW k
  PROVE  LET n == Retired(d, p, e, k)
         IN /\ n.revision = d.revision + 1
            /\ n.records = d.records
            /\ n.retired = d.retired \cup {[principal |-> p, epoch |-> e,
                                            revision |-> d.revision + 1]}
BY DEF Retired, Store

\* A transaction adds rows of the next revision, and c waits for that revision:
\* the strengthening is kept.
LEMMA MutationKeeps ==
  ASSUME IInv, NEW c \in Callers, NEW a \in Answer, NEW restore \in Restores,
         StoreInv(db'), db'.revision = db.revision + 1,
         db.records \subseteq db'.records, db.retired \subseteq db'.retired,
         \A s \in db'.records \ db.records : s.revision = db'.revision,
         \A t \in db'.retired \ db.retired : t.revision = db'.revision,
         StandsBy(db', a, db'.revision),
         Wait(c, a, restore, db.revision + 1), UNCHANGED <<durable, replies>>
  PROVE  IInv'
<1> DEFINE w == [answer |-> a, restore |-> restore, revision |-> db.revision + 1]
<1>1. /\ StoreInv(db) /\ StoreInv(durable)
      /\ call \in [Callers -> Pending \cup {Idle}] /\ replies \subseteq Answer
      /\ DurableBehind /\ WaitsStand /\ AnswersDurable
  BY DEF IInv, TypeInv
<1>2. db.revision \in Nat /\ durable.revision \in Nat
  BY <1>1, Counts DEF StoreInv
<1>3. w \in Pending /\ w.answer = a /\ w.revision = db'.revision
  BY <1>2 DEF Pending
<1>4. call' = [call EXCEPT ![c] = w]
  BY DEF Wait
<1> HIDE DEF w
<1>5. TypeInv'
  BY <1>1, <1>3, <1>4 DEF TypeInv
<1>6. DurableBehind'
  BY <1>1, <1>2 DEF DurableBehind
<1>7. WaitsStand'
  <2> SUFFICES ASSUME NEW x \in Callers, call'[x] # Idle
               PROVE  StandsBy(db', call'[x].answer, call'[x].revision)
    BY DEF WaitsStand
  <2>1. CASE x = c
    BY <2>1, <1>1, <1>3, <1>4
  <2>2. CASE x # c
    <3>1. call'[x] = call[x]
      BY <2>2, <1>1, <1>4
    <3>2. StandsBy(db, call[x].answer, call[x].revision)
      BY <3>1, <1>1 DEF WaitsStand
    <3> QED
      BY <3>1, <3>2, StandsMonotone
  <2> QED
    BY <2>1, <2>2
<1>8. AnswersDurable'
  BY <1>1, StandsMonotone DEF AnswersDurable
<1> QED
  BY <1>5, <1>6, <1>7, <1>8 DEF IInv

\* What Register needs of the store is what the lemmas on stores assume.
LEMMA RegisterStep ==
  ASSUME IInv, NEW c \in Callers, NEW restore \in Restores, NEW expected \in 0..MaxRevision,
         NEW k \in OnceKeys, NEW p \in Principals, NEW e \in Epochs, NEW b \in Bodies,
         Meta(db, restore, expected), MayRegister(db, p, e),
         MayReserve(db, k, "register", p, e), db' = Registered(db, p, e, b, k),
         Wait(c, [kind |-> "register", principal |-> p, epoch |-> e, body |-> b],
              restore, db.revision + 1),
         UNCHANGED <<durable, replies>>
  PROVE  IInv'
<1> DEFINE a == [kind |-> "register", principal |-> p, epoch |-> e, body |-> b]
           r == [principal |-> p, epoch |-> e, body |-> b, revision |-> db.revision + 1]
<1>1. StoreInv(db) /\ db \in Store /\ db.revision \in Nat
  BY Counts DEF IInv, TypeInv, StoreInv, StoreOK
<1>2. db.restore # NoRestore
  BY RestoreAssumption DEF Meta
<1>3. StoreInv(db')
  BY <1>1, <1>2, RegisteredInv
<1>4. /\ db'.revision = db.revision + 1 /\ db'.records = db.records \cup {r}
      /\ db'.retired = db.retired
  BY <1>1, RegisteredRows
<1>5. a \in Answer
  BY DEF Answer, Kinds
<1>6. /\ r \in db'.records /\ IsOf(r, p, e) /\ r.body = b
      /\ r.revision = db'.revision /\ db'.revision \in Nat
  BY <1>1, <1>4 DEF IsOf
<1>7. StandsBy(db', a, db'.revision)
  <2>1. /\ a.kind # "retire" /\ a.principal = p /\ a.epoch = e /\ a.body = b
        /\ r.revision <= db'.revision
    BY <1>6
  <2> HIDE DEF a, r
  <2> QED
    BY <1>6, <2>1 DEF StandsBy
<1> HIDE DEF r
<1>8. /\ db.records \subseteq db'.records /\ db.retired \subseteq db'.retired
      /\ \A s \in db'.records \ db.records : s.revision = db'.revision
      /\ \A t \in db'.retired \ db.retired : t.revision = db'.revision
  BY <1>4, <1>6
<1> QED
  BY <1>3, <1>4, <1>5, <1>7, <1>8, MutationKeeps

\* The same for Retire.
LEMMA RetireStep ==
  ASSUME IInv, NEW c \in Callers, NEW restore \in Restores, NEW expected \in 0..MaxRevision,
         NEW k \in OnceKeys, NEW p \in Principals, NEW e \in Epochs,
         Meta(db, restore, expected), MayReserve(db, k, "retire", p, e),
         ~IsRetired(db, p, e), db' = Retired(db, p, e, k),
         Wait(c, [kind |-> "retire", principal |-> p, epoch |-> e, body |-> NoBody],
              restore, db.revision + 1),
         UNCHANGED <<durable, replies>>
  PROVE  IInv'
<1> DEFINE a == [kind |-> "retire", principal |-> p, epoch |-> e, body |-> NoBody]
           t == [principal |-> p, epoch |-> e, revision |-> db.revision + 1]
<1>1. StoreInv(db) /\ db \in Store /\ db.revision \in Nat
  BY Counts DEF IInv, TypeInv, StoreInv, StoreOK
<1>2. db.restore # NoRestore
  BY RestoreAssumption DEF Meta
<1>3. StoreInv(db')
  BY <1>1, <1>2, RetiredInv
<1>4. /\ db'.revision = db.revision + 1 /\ db'.records = db.records
      /\ db'.retired = db.retired \cup {t}
  BY <1>1, RetiredRows
<1>5. a \in Answer
  BY DEF Answer, Kinds
<1>6. /\ t \in db'.retired /\ IsOf(t, p, e)
      /\ t.revision = db'.revision /\ db'.revision \in Nat
  BY <1>1, <1>4 DEF IsOf
<1>7. StandsBy(db', a, db'.revision)
  <2>1. /\ a.kind = "retire" /\ a.principal = p /\ a.epoch = e
        /\ t.revision <= db'.revision
    BY <1>6
  <2> HIDE DEF a, t
  <2> QED
    BY <1>6, <2>1 DEF StandsBy
<1> HIDE DEF t
<1>8. /\ db.records \subseteq db'.records /\ db.retired \subseteq db'.retired
      /\ \A s \in db'.records \ db.records : s.revision = db'.revision
      /\ \A u \in db'.retired \ db.retired : u.revision = db'.revision
  BY <1>4, <1>6
<1> QED
  BY <1>3, <1>4, <1>5, <1>7, <1>8, MutationKeeps

\* An answered read waits with a record of the store.
LEMMA ReadStep == ASSUME IInv, NEW c \in Callers, Read(c) PROVE IInv'
<1>1. PICK r \in Live(db) :
        Wait(c, [kind |-> "read", principal |-> r.principal, epoch |-> r.epoch,
                 body |-> r.body], db.restore, db.revision)
  BY DEF Read
<1> DEFINE a == [kind |-> "read", principal |-> r.principal, epoch |-> r.epoch,
                 body |-> r.body]
           w == [answer |-> a, restore |-> db.restore, revision |-> db.revision]
<1>2. /\ StoreInv(db) /\ StoreInv(durable)
      /\ call \in [Callers -> Pending \cup {Idle}] /\ replies \subseteq Answer
      /\ DurableBehind /\ WaitsStand /\ AnswersDurable
  BY DEF IInv, TypeInv
<1>3. /\ db \in Store /\ db.revision \in Nat /\ r \in db.records /\ r \in Record
      /\ r.revision <= db.revision
  BY <1>2, Counts DEF StoreInv, StoreOK, Store, Live, RevisionsCover
<1>4. db.restore \in Restores
  BY <1>2, <1>3 DEF StoreInv, EmptyUntilInitialized, Store
<1>5. a \in Answer /\ a.kind = "read"
  BY <1>3 DEF Answer, Record
<1>6. StandsBy(db, a, db.revision)
  BY <1>3, <1>5 DEF StandsBy, IsOf
<1> HIDE DEF a
<1>7. w \in Pending /\ w.answer = a /\ w.revision = db.revision
  BY <1>3, <1>4, <1>5 DEF Pending
<1>8. call' = [call EXCEPT ![c] = w] /\ UNCHANGED <<db, durable, replies>>
  BY <1>1 DEF Wait, Read, a
<1> HIDE DEF w
<1>9. TypeInv'
  BY <1>2, <1>7, <1>8 DEF TypeInv
<1>10. WaitsStand'
  BY <1>2, <1>6, <1>7, <1>8 DEF WaitsStand
<1>11. DurableBehind' /\ AnswersDurable'
  BY <1>2, <1>8 DEF DurableBehind, AnswersDurable
<1> QED
  BY <1>9, <1>10, <1>11 DEF IInv

\* An answer is given once its revision is durable, and then its row is.
LEMMA AcknowledgeStep == ASSUME IInv, NEW c \in Callers, Acknowledge(c) PROVE IInv'
<1> DEFINE a == call[c].answer
<1>1. /\ StoreInv(db) /\ StoreInv(durable)
      /\ call \in [Callers -> Pending \cup {Idle}] /\ replies \subseteq Answer
      /\ DurableBehind /\ WaitsStand /\ AnswersDurable
  BY DEF IInv, TypeInv
<1>2. /\ call[c] # Idle /\ durable.revision >= call[c].revision
      /\ replies' = replies \cup {a} /\ call' = [call EXCEPT ![c] = Idle]
      /\ UNCHANGED <<db, durable>>
  BY DEF Acknowledge, Synced
<1>3. call[c] \in Pending
  BY <1>1, <1>2
<1>4. a \in Answer /\ call[c].revision \in Nat
  BY <1>3 DEF Pending
<1>5. StandsBy(db, a, call[c].revision)
  BY <1>1, <1>2 DEF WaitsStand
<1>6. /\ durable.revision \in Nat
      /\ \A s \in db.records \cup db.retired : s.revision \in Nat
  BY <1>1, Counts DEF StoreInv, StoreOK, Store, Record, Tombstone
<1> HIDE DEF a
<1>7. Stands(durable, a) /\ Stands(db, a)
  BY <1>1, <1>2, <1>4, <1>5, <1>6 DEF StandsBy, Stands, IsRetired, DurableBehind
<1>8. TypeInv'
  BY <1>1, <1>2, <1>4 DEF TypeInv
<1>9. DurableBehind' /\ WaitsStand'
  BY <1>1, <1>2 DEF DurableBehind, WaitsStand
<1>10. AnswersDurable'
  BY <1>1, <1>2, <1>7 DEF AnswersDurable
<1> QED
  BY <1>8, <1>9, <1>10 DEF IInv

\* initialize finds no rows, so no answer was given and nothing waits for one.
LEMMA InitializeStep == ASSUME IInv, Initialize PROVE IInv'
<1>1. /\ StoreInv(db) /\ StoreInv(durable)
      /\ call \in [Callers -> Pending \cup {Idle}] /\ replies \subseteq Answer
      /\ DurableBehind /\ WaitsStand /\ AnswersDurable
  BY DEF IInv, TypeInv
<1>2. PICK restore \in Restores, records \in RecordLimits, operations \in OperationLimits :
        db' = [EmptyStore EXCEPT !.restore = restore, !.max_records = records,
                                 !.max_operations = operations]
  BY DEF Initialize
<1>3. StoreInv(db')
  BY <1>2, InitializedInv
<1>4. db.revision = 0 /\ db.records = {} /\ db.retired = {}
  BY <1>1 DEF Initialize, StoreInv, EmptyUntilInitialized
<1>5. db'.revision = 0 /\ db'.records = {} /\ db'.retired = {}
  BY <1>2 DEF EmptyStore
<1>6. UNCHANGED <<durable, call, replies>>
  BY DEF Initialize
<1>7. TypeInv'
  BY <1>1, <1>3, <1>6 DEF TypeInv
<1>8. DurableBehind'
  BY <1>1, <1>4, <1>5, <1>6 DEF DurableBehind
<1>9. WaitsStand' /\ AnswersDurable'
  BY <1>1, <1>4, <1>5, <1>6, StandsMonotone DEF WaitsStand, AnswersDurable
<1> QED
  BY <1>7, <1>8, <1>9 DEF IInv

\* The runtime makes one store a copy of the other.
LEMMA RuntimeStep == ASSUME IInv, Flush \/ Restart PROVE IInv'
<1>1. /\ StoreInv(db) /\ StoreInv(durable)
      /\ call \in [Callers -> Pending \cup {Idle}] /\ replies \subseteq Answer
      /\ DurableBehind /\ WaitsStand /\ AnswersDurable
  BY DEF IInv, TypeInv
<1>2. db.revision \in Nat /\ durable.revision \in Nat
  BY <1>1, Counts DEF StoreInv
<1>3. CASE Flush
  <2>1. TypeInv' /\ DurableBehind' /\ WaitsStand' /\ AnswersDurable'
    BY <1>1, <1>2, <1>3
    DEF Flush, TypeInv, DurableBehind, WaitsStand, AnswersDurable
  <2> QED
    BY <2>1 DEF IInv
<1>4. CASE Restart
  <2>1. TypeInv' /\ WaitsStand'
    BY <1>1, <1>4 DEF Restart, TypeInv, WaitsStand
  <2>2. DurableBehind' /\ AnswersDurable'
    BY <1>1, <1>2, <1>4 DEF Restart, DurableBehind, AnswersDurable
  <2> QED
    BY <2>1, <2>2 DEF IInv
<1> QED
  BY <1>3, <1>4

LEMMA InitInv == Init => IInv
<1> SUFFICES ASSUME Init PROVE IInv
  OBVIOUS
<1>1. StoreInv(db) /\ StoreInv(durable)
  BY EmptyStoreInv DEF Init
<1>2. TypeInv /\ WaitsStand /\ AnswersDurable
  BY <1>1 DEF Init, TypeInv, WaitsStand, AnswersDurable
<1>3. db.revision \in Nat /\ db = durable
  BY <1>1, Counts DEF Init, StoreInv
<1>4. DurableBehind
  BY <1>3 DEF DurableBehind
<1> QED
  BY <1>2, <1>4 DEF IInv

LEMMA NextInv == IInv /\ [Next]_vars => IInv'
<1> SUFFICES ASSUME IInv, [Next]_vars PROVE IInv'
  OBVIOUS
<1>1. CASE Initialize
  BY <1>1, InitializeStep
<1>2. ASSUME NEW c \in Callers, Register(c) PROVE IInv'
  BY <1>2, RegisterStep DEF Register
<1>3. ASSUME NEW c \in Callers, Retire(c) PROVE IInv'
  BY <1>3, RetireStep DEF Retire
<1>4. ASSUME NEW c \in Callers, Read(c) PROVE IInv'
  BY <1>4, ReadStep
<1>5. ASSUME NEW c \in Callers, Acknowledge(c) PROVE IInv'
  BY <1>5, AcknowledgeStep
<1>6. ASSUME NEW c \in Callers, Refuse(c) PROVE IInv'
  BY <1>6 DEF Refuse, IInv, TypeInv, DurableBehind, WaitsStand, AnswersDurable
<1>7. CASE Flush \/ Restart
  BY <1>7, RuntimeStep
<1>8. CASE UNCHANGED vars
  BY <1>8 DEF vars, IInv, TypeInv, DurableBehind, WaitsStand, AnswersDurable
<1> QED
  BY <1>1, <1>2, <1>3, <1>4, <1>5, <1>6, <1>7, <1>8 DEF Next

LEMMA Invariant == Spec => []IInv
BY InitInv, NextInv, PTL DEF Spec

-----------------------------------------------------------------------------
\* The tables always hold what their columns say, with their keys.
THEOREM TypeCorrect == Spec => []TypeOK
<1>1. IInv => TypeOK
  BY DEF IInv, TypeInv, StoreInv, TypeOK
<1> QED
  BY <1>1, Invariant, PTL

\* Operations and live epochs stay within max_operations, whatever limits
\* initialize is given and however often the object is restarted.
THEOREM BudgetIsKept == Spec => []BudgetKept
<1>1. IInv => BudgetKept
  BY DEF IInv, TypeInv, StoreInv, BudgetKept
<1> QED
  BY <1>1, Invariant, PTL

\* Each live epoch can be retired at any time: #reserve never refuses it for capacity.
THEOREM EveryEpochCanRetire == Spec => []RetirementAdmitted
<1>1. IInv => RetirementAdmitted
  BY BudgetAdmits DEF IInv, TypeInv, RetirementAdmitted
<1> QED
  BY <1>1, Invariant, PTL

\* A positive answer survives every restart.
THEOREM AnswersSurvive == Spec => []AnswersDurable
<1>1. IInv => AnswersDurable
  BY DEF IInv
<1> QED
  BY <1>1, Invariant, PTL

\* All answers ever given about an epoch name one and the same record.
THEOREM RecordsAreImmutable == Spec => []OneBodyPerEpoch
<1>1. IInv => OneBodyPerEpoch
  <2> SUFFICES ASSUME IInv, NEW a \in replies, NEW b \in replies,
                      a.principal = b.principal, a.epoch = b.epoch,
                      a.kind # "retire", b.kind # "retire"
               PROVE  a.body = b.body
    BY DEF OneBodyPerEpoch
  <2>1. PICK r \in db.records : IsOf(r, a.principal, a.epoch) /\ r.body = a.body
    BY DEF IInv, AnswersDurable, Stands
  <2>2. PICK s \in db.records : IsOf(s, b.principal, b.epoch) /\ s.body = b.body
    BY DEF IInv, AnswersDurable, Stands
  <2>3. r = s
    BY <2>1, <2>2 DEF IInv, TypeInv, StoreInv, StoreOK, KeysHold, IsOf
  <2> QED
    BY <2>1, <2>2, <2>3
<1> QED
  BY <1>1, Invariant, PTL

\* Every registration takes a new epoch above all the principal ever had.
THEOREM EpochsOnlyGrow == Spec => EpochsGrow
<1> DEFINE Grows == \A r \in db'.records \ db.records :
                      \A s \in db.records \cup db.retired :
                        s.principal = r.principal => s.epoch < r.epoch
<1>1. IInv /\ [Next]_vars => [Grows]_vars
  <2> SUFFICES ASSUME IInv, Next PROVE Grows
    OBVIOUS
  <2>1. StoreInv(db) /\ db \in Store /\ durable.records \subseteq db.records
    BY DEF IInv, TypeInv, StoreInv, StoreOK, DurableBehind
  <2>2. ASSUME NEW c \in Callers, Register(c) PROVE Grows
    <3>1. PICK restore \in Restores, expected \in 0..MaxRevision, k \in OnceKeys,
               p \in Principals, e \in Epochs, b \in Bodies :
            /\ Meta(db, restore, expected) /\ MayRegister(db, p, e)
            /\ MayReserve(db, k, "register", p, e)
            /\ db' = Registered(db, p, e, b, k)
      BY <2>2 DEF Register
    <3>2. db.restore # NoRestore
      BY <3>1, RestoreAssumption DEF Meta
    <3>3. \A s \in db.records \cup db.retired : s.principal = p => s.epoch < e
      BY <2>1, <3>1, <3>2, RegisteredInv
    <3>4. db'.records \ db.records
            \subseteq {[principal |-> p, epoch |-> e, body |-> b,
                       revision |-> db.revision + 1]}
      BY <2>1, <3>1, RegisteredRows
    <3>5. \A r \in db'.records \ db.records : r.principal = p /\ r.epoch = e
      BY <3>4
    <3> QED
      BY <3>3, <3>5
  <2>3. ASSUME NEW c \in Callers, Retire(c) PROVE Grows
    BY <2>1, <2>3, RetiredRows DEF Retire
  <2>4. CASE Initialize
    BY <2>4 DEF Initialize, EmptyStore
  <2>5. ASSUME NEW c \in Callers, Read(c) \/ Acknowledge(c) \/ Refuse(c) PROVE Grows
    BY <2>5 DEF Read, Acknowledge, Refuse
  <2>6. CASE Flush \/ Restart
    BY <2>1, <2>6 DEF Flush, Restart
  <2> QED
    BY <2>2, <2>3, <2>4, <2>5, <2>6 DEF Next
<1> QED
  BY <1>1, Invariant, PTL DEF EpochsGrow, Spec

\* A registration that is acknowledged names an epoch that is live at that moment.
THEOREM AcknowledgedWhileLive == Spec => LiveWhenAcknowledged
<1> DEFINE AllLive == \A a \in replies' \ replies :
                        a.kind = "register" =>
                          \E r \in Live(db) : IsOf(r, a.principal, a.epoch)
<1>1. IInv /\ [Next]_vars => [AllLive]_vars
  <2> SUFFICES ASSUME IInv, Next PROVE AllLive
    OBVIOUS
  <2>1. ASSUME NEW c \in Callers, Acknowledge(c) PROVE AllLive
    <3> DEFINE a == call[c].answer
    <3>1. call[c] # Idle /\ replies' = replies \cup {a}
      BY <2>1 DEF Acknowledge
    <3>2. CASE a.kind = "register"
      <4>1. ~IsRetired(db, a.principal, a.epoch)
        BY <2>1, <3>2 DEF Acknowledge, Confirmed
      <4>2. PICK r \in db.records : IsOf(r, a.principal, a.epoch)
        BY <3>1, <3>2 DEF IInv, WaitsStand, StandsBy
      <4>3. r \in Live(db)
        BY <4>1, <4>2 DEF Live, IsOf
      <4> QED
        BY <3>1, <4>2, <4>3
    <3>3. CASE a.kind # "register"
      BY <3>1, <3>3
    <3> QED
      BY <3>2, <3>3
  <2>2. CASE UNCHANGED replies
    BY <2>2
  <2>3. ASSUME NEW c \in Callers, Register(c) \/ Retire(c) \/ Read(c) \/ Refuse(c)
        PROVE  UNCHANGED replies
    BY <2>3 DEF Register, Retire, Read, Refuse
  <2>4. ASSUME Initialize \/ Flush \/ Restart PROVE UNCHANGED replies
    BY <2>4 DEF Initialize, Flush, Restart
  <2> QED
    BY <2>1, <2>2, <2>3, <2>4 DEF Next
<1> QED
  BY <1>1, Invariant, PTL DEF LiveWhenAcknowledged, Spec

\* The tables, the budget and the answers together, as the runs check them.
THEOREM RecordsAreKept == Spec => []RecordsKept
BY TypeCorrect, BudgetIsKept, EveryEpochCanRetire, AnswersSurvive, RecordsAreImmutable, PTL
   DEF RecordsKept

\* Both facts about the order of epochs together, as the runs check them.
THEOREM EpochsAreInOrder == Spec => EpochsInOrder
BY EpochsOnlyGrow, AcknowledgedWhileLive, PTL DEF EpochsInOrder

(***************************************************************************)
(* The installation registry.  The inductive invariant says of the tables, *)
(* as they are and as a restart would find them, that an intent's row is   *)
(* that of its stage and that each change of the state left one revision;  *)
(* that the disk is never ahead; and, of a call, what it has written.      *)
(***************************************************************************)
Steps ==
  {"idle", "end", "prepare", "prepared", "admit", "attempted", "verify", "admitted", "withdraw", "withdrawn",
   "status", "decoded", "read", "reread"}

Recs(s) == {o \in Intents : s.stage[o] # None}
Unret(s) == {o \in Recs(s) : s.stage[o] # "RETIRED"}
Revisions(s) ==
  {s.principal[i] : i \in Intents} \cup {s.row[w].revision : w \in {x \in Withdrawals : s.row[x] # None}}

TablesTyped(s) ==
  /\ s = [state |-> s.state, claims |-> s.claims, stage |-> s.stage, row |-> s.row,
          principal |-> s.principal, retired |-> s.retired]
  /\ s.state \in Nat /\ s.stage \in [Intents -> R!Stages \cup {None}]
  /\ s.row \in [Intents \cup Withdrawals -> R!Row \cup {None}]
  /\ s.principal \in [Intents -> Nat \cup {None}] /\ s.retired \in [Intents -> Withdrawals \cup {None}]

\* The row, the principal and the withdrawal that an intent has at its stage.
StageOf(s, i) ==
  LET stage == s.stage[i]
  IN /\ stage = None <=> s.row[i] = None
     /\ stage = "PREPARED" => s.row[i].tag = "RESERVED"
     /\ stage = "ATTEMPTED" => s.row[i].tag = "UNKNOWN"
     /\ stage \in {"COMMITTED", "RETIRED"} => s.row[i].tag = stage
     /\ stage \in {None, "PREPARED", "ATTEMPTED"} => s.principal[i] = None
     /\ stage = "COMMITTED" => s.principal[i] # None
     /\ stage = "RETIRED" <=> s.retired[i] # None
     /\ stage # None => IntentOf[i].claims \subseteq s.claims

\* A withdrawal that was applied is the one its intent names.
EndOf(s, w) == s.row[w] # None => s.row[w].tag = "COMMITTED" /\ s.retired[WithdrawalOf[w].op] = w
NamedEnd(s, i) ==
  s.retired[i] # None => s.row[s.retired[i]] # None /\ WithdrawalOf[s.retired[i]].op = i

\* An intent that is not retired is the latest of its principal.
Latest(s) ==
  \A i \in Unret(s) : \A j \in Recs(s) \ {i} :
    IntentOf[i].principal = IntentOf[j].principal => IntentOf[j].epoch < IntentOf[i].epoch

Budgeted(s) ==
  /\ IsFiniteSet(s.claims) /\ IsFiniteSet(Recs(s))
  /\ Cardinality(s.claims) + 3 * Cardinality(Unret(s)) <= MaxClaims

Sound(s) ==
  /\ TablesTyped(s) /\ \A i \in Intents : StageOf(s, i) /\ NamedEnd(s, i)
  /\ \A w \in Withdrawals : EndOf(s, w)
  /\ Latest(s) /\ Budgeted(s) /\ Revisions(s) \ {None} = 1 .. s.state

\* What is settled in s is settled in t, and what was attempted was.
Settled(s, o) == s.row[o] # None /\ s.row[o].tag \in {"COMMITTED", "RETIRED"}
Attempted(s, i) == s.stage[i] \notin {None, "PREPARED"}
Grows(s, t) ==
  /\ \A o \in Intents \cup Withdrawals : Settled(s, o) => Settled(t, o)
  /\ \A i \in Intents : Attempted(s, i) => Attempted(t, i)

\* What a call asked, and what it has written.
CallOf(r) ==
  LET q == asks[r]
  IN /\ q.pc = "idle" <=> q.ask = None
     /\ q.pc # "end" => q.answer = None
     /\ q.pc \in {"prepare", "prepared"} => q.ask.kind = "prepare"
     /\ q.pc \in {"admit", "attempted", "verify", "admitted"} => q.ask.kind = "admit"
     /\ q.pc \in {"withdraw", "withdrawn"} => q.ask.kind = "withdraw"
     /\ q.pc \in {"read", "reread"} => q.ask.kind = "read"
     /\ q.pc \in {"status", "decoded"} => q.ask.kind # "read"
     /\ q.pc = "decoded" => q.seen # None
     /\ q.pc = "attempted" => Attempted(store, q.ask.id)
     /\ q.pc = "verify" => Attempted(disk, q.ask.id)
     /\ q.pc \in {"admitted", "withdrawn"} => Settled(store, q.ask.id)
     /\ (q.pc \in {"status", "decoded"} \/ q.answer = "COMMITTED") /\ q.ask.kind \in {"admit", "withdraw"} =>
          Settled(disk, q.ask.id)

CallsTyped ==
  /\ asks = [r \in Requests |-> [pc |-> asks[r].pc, ask |-> asks[r].ask, seen |-> asks[r].seen,
                               answer |-> asks[r].answer]]
  /\ \A r \in Requests : asks[r].pc \in Steps /\ asks[r].ask \in R!Asks \cup {None}

RegistryInv ==
  /\ Sound(store) /\ Sound(disk) /\ Grows(disk, store) /\ CallsTyped
  /\ \A r \in Requests : CallOf(r)

LEMMA CardOf ==
  ASSUME NEW S
  PROVE  R!Cardinality(S) = Cardinality(S) /\ (R!IsFiniteSet(S) <=> IsFiniteSet(S))
BY DEF R!Cardinality, Cardinality, R!IsFiniteSet, IsFiniteSet

LEMMA ThreeClaims ==
  ASSUME R!RegistryAssumption
  PROVE  /\ \A i \in Intents : /\ IsFiniteSet(IntentOf[i].claims) /\ Cardinality(IntentOf[i].claims) = 3
                               /\ IntentOf[i].claims # {} /\ IntentOf[i].epoch \in Nat
         /\ \A w \in Withdrawals : /\ WithdrawalOf[w].op \in Intents /\ IsFiniteSet(WithdrawalOf[w].claims)
                                   /\ Cardinality(WithdrawalOf[w].claims) = 3
         /\ MaxClaims \in Nat
<1>1. ASSUME NEW i \in Intents
      PROVE  /\ IsFiniteSet(IntentOf[i].claims) /\ Cardinality(IntentOf[i].claims) = 3
             /\ IntentOf[i].claims # {} /\ IntentOf[i].epoch \in Nat
  <2>1. IsFiniteSet(IntentOf[i].claims) /\ Cardinality(IntentOf[i].claims) = 3 /\ IntentOf[i].epoch \in Nat
    BY CardOf DEF R!RegistryAssumption
  <2>. QED BY <2>1, FS_EmptySet
<1>2. ASSUME NEW w \in Withdrawals
      PROVE  /\ WithdrawalOf[w].op \in Intents /\ IsFiniteSet(WithdrawalOf[w].claims)
             /\ Cardinality(WithdrawalOf[w].claims) = 3
  BY CardOf DEF R!RegistryAssumption
<1>. QED BY <1>1, <1>2 DEF R!RegistryAssumption

\* Two disjoint finite sets.
LEMMA Together ==
  ASSUME NEW A, NEW B, IsFiniteSet(A), IsFiniteSet(B), A \cap B = {}
  PROVE  /\ IsFiniteSet(A \cup B) /\ Cardinality(A \cup B) = Cardinality(A) + Cardinality(B)
         /\ Cardinality(A) \in Nat /\ Cardinality(B) \in Nat
<1>1. Cardinality(A \cap B) = 0
  BY FS_EmptySet
<1>2. Cardinality(A \cup B) = Cardinality(A) + Cardinality(B) - Cardinality(A \cap B) /\ IsFiniteSet(A \cup B)
  BY FS_Union
<1>3. Cardinality(A) \in Nat /\ Cardinality(B) \in Nat
  BY FS_CardinalityType
<1>. QED BY <1>1, <1>2, <1>3

LEMMA GrowsFurther ==
  ASSUME NEW s, NEW t, NEW u, Grows(s, t), Grows(t, u)
  PROVE  Grows(s, u)
BY DEF Grows

LEMMA PreparedSound ==
  ASSUME R!RegistryAssumption, NEW s, Sound(s), NEW i \in Intents, IntentOf[i].claims \cap s.claims = {},
         Cardinality(s.claims) + 3 * Cardinality(Unret(s)) + 6 <= MaxClaims,
         \A o \in Recs(s) : IntentOf[o].principal = IntentOf[i].principal =>
           \E p \in Recs(s) : /\ IntentOf[p].principal = IntentOf[i].principal /\ s.stage[p] = "RETIRED"
                              /\ \A q \in Recs(s) : IntentOf[q].principal = IntentOf[i].principal =>
                                   IntentOf[q].epoch <= IntentOf[p].epoch
                              /\ IntentOf[i].epoch = IntentOf[p].epoch + 1,
         NEW t, t = [s EXCEPT !.claims = @ \cup IntentOf[i].claims, !.stage[i] = "PREPARED",
                              !.row[i] = [tag |-> "RESERVED", revision |-> 0, by |-> None]]
  PROVE  Sound(t) /\ Grows(s, t)
<1>. DEFINE row == [tag |-> "RESERVED", revision |-> 0, by |-> None]
            c == IntentOf[i].claims
<1>1. row \in R!Row
  BY DEF R!Row
<1>2. /\ t.state = s.state /\ t.claims = s.claims \cup c /\ t.stage = [s.stage EXCEPT ![i] = "PREPARED"]
      /\ t.row = [s.row EXCEPT ![i] = row] /\ t.principal = s.principal /\ t.retired = s.retired
  BY DEF Sound, TablesTyped
<1>3. TablesTyped(t)
  BY <1>1, <1>2 DEF Sound, TablesTyped, R!Stages
<1>4. i \notin Withdrawals /\ None \notin R!Stages
  BY DEF R!RegistryAssumption
<1>5. /\ \A j \in Intents : t.stage[j] = IF j = i THEN "PREPARED" ELSE s.stage[j]
      /\ \A j \in Intents : t.row[j] = IF j = i THEN row ELSE s.row[j]
      /\ \A w \in Withdrawals : t.row[w] = s.row[w]
  BY <1>2, <1>4 DEF Sound, TablesTyped
<1>6. s.stage[i] = None /\ s.row[i] = None /\ s.principal[i] = None /\ s.retired[i] = None
  <2>1. s.stage[i] = None
    BY ThreeClaims DEF Sound, StageOf
  <2>. QED BY <1>4, <2>1 DEF Sound, StageOf, R!Stages
<1>7. row # None /\ "PREPARED" # None
  BY <1>1 DEF R!RegistryAssumption, R!Stages
<1>8. ASSUME NEW j \in Intents
      PROVE  StageOf(t, j) /\ NamedEnd(t, j)
  <2>1. CASE j = i
    BY <1>2, <1>5, <1>6, <1>7, <2>1 DEF StageOf, NamedEnd
  <2>2. CASE j # i
    <3>1. StageOf(s, j) /\ NamedEnd(s, j) /\ s.retired[j] \in Withdrawals \cup {None}
      BY DEF Sound, TablesTyped
    <3>. QED BY <1>2, <1>5, <2>2, <3>1 DEF StageOf, NamedEnd
  <2>. QED BY <2>1, <2>2
<1>9. \A w \in Withdrawals : EndOf(t, w)
  BY <1>2, <1>5 DEF Sound, EndOf
<1>10. Recs(t) = Recs(s) \cup {i} /\ Unret(t) = Unret(s) \cup {i} /\ i \notin Recs(s) /\ Unret(s) \subseteq Recs(s)
  <2>1. Recs(t) = Recs(s) \cup {i} /\ i \notin Recs(s)
    BY <1>5, <1>6, <1>7 DEF Recs
  <2>. QED BY <1>5, <2>1 DEF Unret, Recs
<1>11. Latest(t)
  <2>1. ASSUME NEW j \in Recs(s), IntentOf[j].principal = IntentOf[i].principal
        PROVE  j \notin Unret(s) /\ IntentOf[j].epoch < IntentOf[i].epoch
    <3>1. PICK p \in Recs(s) : /\ IntentOf[p].principal = IntentOf[i].principal /\ s.stage[p] = "RETIRED"
                              /\ \A q \in Recs(s) : IntentOf[q].principal = IntentOf[i].principal =>
                                   IntentOf[q].epoch <= IntentOf[p].epoch
                              /\ IntentOf[i].epoch = IntentOf[p].epoch + 1
      BY <2>1
    <3>2. j \in Intents /\ p \in Intents /\ IntentOf[j].epoch \in Nat /\ IntentOf[p].epoch \in Nat
      BY ThreeClaims DEF Recs
    <3>3. IntentOf[j].epoch <= IntentOf[p].epoch
      BY <2>1, <3>1
    <3>4. ASSUME j \in Unret(s)
          PROVE  FALSE
      <4>1. j # p
        BY <3>1, <3>4 DEF Unret
      <4>2. IntentOf[p].epoch < IntentOf[j].epoch
        BY <2>1, <3>1, <3>4, <4>1 DEF Sound, Latest
      <4>. QED BY <3>2, <3>3, <4>2
    <3>. QED BY <3>1, <3>2, <3>3, <3>4
  <2>. QED BY <1>10, <2>1 DEF Sound, Latest
<1>12. Budgeted(t)
  <2>1. IsFiniteSet(s.claims) /\ IsFiniteSet(Recs(s)) /\ IsFiniteSet(Unret(s))
    BY <1>10, FS_Subset DEF Sound, Budgeted
  <2>2. IsFiniteSet(c) /\ Cardinality(c) = 3 /\ MaxClaims \in Nat
    BY ThreeClaims
  <2>3. IsFiniteSet(t.claims) /\ Cardinality(t.claims) = Cardinality(s.claims) + 3 /\ Cardinality(s.claims) \in Nat
    <3>1. s.claims \cap c = {}
      OBVIOUS
    <3>. HIDE DEF c
    <3>2. /\ IsFiniteSet(s.claims \cup c) /\ Cardinality(s.claims \cup c) = Cardinality(s.claims) + Cardinality(c)
          /\ Cardinality(s.claims) \in Nat
      BY <2>1, <2>2, <3>1, Together
    <3>. QED BY <1>2, <2>2, <3>2
  <2>4. IsFiniteSet(Recs(t))
    BY <1>10, <2>1, FS_AddElement
  <2>5. Cardinality(Unret(t)) = Cardinality(Unret(s)) + 1 /\ Cardinality(Unret(s)) \in Nat
    BY <1>10, <2>1, FS_AddElement, FS_CardinalityType
  <2>. QED BY <2>2, <2>3, <2>4, <2>5 DEF Budgeted
<1>13. Revisions(t) = Revisions(s)
  BY <1>2, <1>5 DEF Revisions
<1>14. Grows(s, t)
  BY <1>5, <1>6 DEF Grows, Settled, Attempted
<1>. QED BY <1>2, <1>3, <1>8, <1>9, <1>11, <1>12, <1>13, <1>14 DEF Sound

LEMMA AttemptedSound ==
  ASSUME R!RegistryAssumption, NEW s, Sound(s), NEW i \in Intents, s.stage[i] = "PREPARED",
         NEW t, t = [s EXCEPT !.stage[i] = "ATTEMPTED", !.row[i].tag = "UNKNOWN"]
  PROVE  Sound(t) /\ Grows(s, t) /\ Attempted(t, i)
<1>. DEFINE row == [s.row[i] EXCEPT !.tag = "UNKNOWN"]
<1>0. i \notin Withdrawals /\ None \notin R!Stages /\ None \notin R!Row
  BY DEF R!RegistryAssumption
<1>1. row \in R!Row /\ row # None /\ row.tag = "UNKNOWN" /\ s.row[i] # None /\ s.row[i].tag = "RESERVED"
  <2>1. s.row[i] # None /\ s.row[i] \in R!Row /\ s.row[i].tag = "RESERVED"
    BY <1>0 DEF Sound, TablesTyped, StageOf, R!Stages
  <2>. QED BY <1>0, <2>1 DEF R!Row
<1>2. /\ t.state = s.state /\ t.claims = s.claims /\ t.stage = [s.stage EXCEPT ![i] = "ATTEMPTED"]
      /\ t.row = [s.row EXCEPT ![i] = row] /\ t.principal = s.principal /\ t.retired = s.retired
  BY DEF Sound, TablesTyped
<1>3. TablesTyped(t)
  BY <1>1, <1>2 DEF Sound, TablesTyped, R!Stages
<1>5. /\ \A j \in Intents : t.stage[j] = IF j = i THEN "ATTEMPTED" ELSE s.stage[j]
      /\ \A j \in Intents : t.row[j] = IF j = i THEN row ELSE s.row[j]
      /\ \A w \in Withdrawals : t.row[w] = s.row[w]
  BY <1>0, <1>2 DEF Sound, TablesTyped
<1>8. ASSUME NEW j \in Intents
      PROVE  StageOf(t, j) /\ NamedEnd(t, j)
  <2>1. StageOf(s, j) /\ NamedEnd(s, j) /\ s.retired[j] \in Withdrawals \cup {None}
    BY DEF Sound, TablesTyped
  <2>2. CASE j = i
    <3>. HIDE DEF row
    <3>1. StageOf(t, j)
      BY <1>0, <1>1, <1>2, <1>5, <2>1, <2>2 DEF StageOf, R!Stages
    <3>2. NamedEnd(t, j)
      BY <1>0, <1>1, <1>2, <1>5, <2>1, <2>2 DEF NamedEnd, R!Stages
    <3>. QED BY <3>1, <3>2
  <2>3. CASE j # i
    BY <1>2, <1>5, <2>1, <2>3 DEF StageOf, NamedEnd
  <2>. QED BY <2>2, <2>3
<1>9. \A w \in Withdrawals : EndOf(t, w)
  BY <1>2, <1>5 DEF Sound, EndOf
<1>10. Recs(t) = Recs(s) /\ Unret(t) = Unret(s)
  BY <1>0, <1>5 DEF Unret, Recs, R!Stages
<1>11. Latest(t) /\ Budgeted(t)
  BY <1>2, <1>10 DEF Sound, Latest, Budgeted
<1>13. Revisions(t) = Revisions(s)
  BY <1>2, <1>5 DEF Revisions
<1>14. Grows(s, t) /\ Attempted(t, i)
  BY <1>0, <1>1, <1>5 DEF Grows, Settled, Attempted, R!Stages
<1>. QED BY <1>2, <1>3, <1>8, <1>9, <1>11, <1>13, <1>14 DEF Sound

LEMMA CommittedSound ==
  ASSUME R!RegistryAssumption, NEW s, Sound(s), NEW i \in Intents, s.stage[i] = "ATTEMPTED", NEW rev, rev = s.state + 1,
         NEW t, t = [s EXCEPT !.state = rev, !.principal[i] = rev, !.stage[i] = "COMMITTED",
                              !.row[i] = [@ EXCEPT !.tag = "COMMITTED", !.revision = rev]]
  PROVE  Sound(t) /\ Grows(s, t) /\ Settled(t, i)
<1>. DEFINE row == [s.row[i] EXCEPT !.tag = "COMMITTED", !.revision = rev]
<1>0. i \notin Withdrawals /\ None \notin R!Stages /\ None \notin R!Row /\ None \notin Nat
  BY DEF R!RegistryAssumption
<1>4. s.state \in Nat /\ rev \in Nat
  BY DEF Sound, TablesTyped
<1>1. row \in R!Row /\ row # None /\ row.tag = "COMMITTED" /\ s.principal[i] = None /\ s.retired[i] = None
  <2>1. s.row[i] # None /\ s.row[i] \in R!Row /\ s.principal[i] = None /\ s.retired[i] = None
    BY <1>0 DEF Sound, TablesTyped, StageOf, R!Stages
  <2>. QED BY <1>0, <1>4, <2>1 DEF R!Row
<1>2. /\ t.state = rev /\ t.claims = s.claims /\ t.stage = [s.stage EXCEPT ![i] = "COMMITTED"]
      /\ t.row = [s.row EXCEPT ![i] = row] /\ t.principal = [s.principal EXCEPT ![i] = rev] /\ t.retired = s.retired
  BY DEF Sound, TablesTyped
<1>3. TablesTyped(t)
  BY <1>1, <1>2, <1>4 DEF Sound, TablesTyped, R!Stages
<1>5. /\ \A j \in Intents : t.stage[j] = IF j = i THEN "COMMITTED" ELSE s.stage[j]
      /\ \A j \in Intents : t.row[j] = IF j = i THEN row ELSE s.row[j]
      /\ \A j \in Intents : t.principal[j] = IF j = i THEN rev ELSE s.principal[j]
      /\ \A w \in Withdrawals : t.row[w] = s.row[w]
  BY <1>0, <1>2 DEF Sound, TablesTyped
<1>8. ASSUME NEW j \in Intents
      PROVE  StageOf(t, j) /\ NamedEnd(t, j)
  <2>1. StageOf(s, j) /\ NamedEnd(s, j) /\ s.retired[j] \in Withdrawals \cup {None}
    BY DEF Sound, TablesTyped
  <2>2. CASE j = i
    <3>. HIDE DEF row
    <3>1. StageOf(t, j)
      BY <1>0, <1>1, <1>2, <1>4, <1>5, <2>1, <2>2 DEF StageOf, R!Stages
    <3>2. NamedEnd(t, j)
      BY <1>0, <1>1, <1>2, <1>4, <1>5, <2>1, <2>2 DEF NamedEnd, R!Stages
    <3>. QED BY <3>1, <3>2
  <2>3. CASE j # i
    BY <1>2, <1>5, <2>1, <2>3 DEF StageOf, NamedEnd
  <2>. QED BY <2>2, <2>3
<1>9. \A w \in Withdrawals : EndOf(t, w)
  BY <1>2, <1>5 DEF Sound, EndOf
<1>10. Recs(t) = Recs(s) /\ Unret(t) = Unret(s)
  BY <1>0, <1>5 DEF Unret, Recs, R!Stages
<1>11. Latest(t) /\ Budgeted(t)
  BY <1>2, <1>10 DEF Sound, Latest, Budgeted
<1>12. Revisions(t) \ {None} = 1 .. t.state
  <2>1. Revisions(t) \ {None} = (Revisions(s) \ {None}) \cup {rev}
    BY <1>0, <1>1, <1>4, <1>5 DEF Revisions
  <2>. QED BY <1>2, <1>4, <2>1 DEF Sound
<1>14. Grows(s, t) /\ Settled(t, i)
  BY <1>0, <1>1, <1>5 DEF Grows, Settled, Attempted, R!Stages
<1>. QED BY <1>3, <1>8, <1>9, <1>11, <1>12, <1>14 DEF Sound

LEMMA WithdrawnSound ==
  ASSUME R!RegistryAssumption, NEW s, Sound(s), NEW w \in Withdrawals, NEW x, x = WithdrawalOf[w],
         s.stage[x.op] # None, s.retired[x.op] = None, x.claims \cap s.claims = {}, NEW rev, rev = s.state + 1,
         NEW t, t = [s EXCEPT
                !.claims = @ \cup x.claims, !.state = rev, !.retired[x.op] = w, !.stage[x.op] = "RETIRED",
                !.row = [@ EXCEPT ![x.op] = [tag |-> "RETIRED", revision |-> rev, by |-> w],
                                  ![w] = [tag |-> "COMMITTED", revision |-> rev, by |-> None]]]
  PROVE  Sound(t) /\ Grows(s, t) /\ Settled(t, w)
<1>. DEFINE i == x.op
            row == [tag |-> "RETIRED", revision |-> rev, by |-> w]
            end == [tag |-> "COMMITTED", revision |-> rev, by |-> None]
<1>0. /\ i \in Intents /\ i \notin Withdrawals /\ w \notin Intents /\ None \notin R!Stages /\ None \notin R!Row
      /\ None \notin Nat /\ None \notin Withdrawals
  BY ThreeClaims DEF R!RegistryAssumption
<1>1. s.state \in Nat /\ rev \in Nat
  BY DEF Sound, TablesTyped
<1>2. row \in R!Row /\ end \in R!Row /\ row # None /\ end # None
  BY <1>0, <1>1 DEF R!Row
<1>3. /\ t.state = rev /\ t.claims = s.claims \cup x.claims /\ t.stage = [s.stage EXCEPT ![i] = "RETIRED"]
      /\ t.row = [s.row EXCEPT ![i] = row, ![w] = end] /\ t.principal = s.principal
      /\ t.retired = [s.retired EXCEPT ![i] = w]
  BY DEF Sound, TablesTyped
<1>4. TablesTyped(t)
  <2>1. t.row \in [Intents \cup Withdrawals -> R!Row \cup {None}]
    BY <1>2, <1>3 DEF Sound, TablesTyped
  <2>. QED BY <1>0, <1>1, <1>3, <2>1 DEF Sound, TablesTyped, R!Stages
<1>5. /\ \A j \in Intents : t.stage[j] = IF j = i THEN "RETIRED" ELSE s.stage[j]
      /\ \A j \in Intents : t.row[j] = IF j = i THEN row ELSE s.row[j]
      /\ \A j \in Intents : t.retired[j] = IF j = i THEN w ELSE s.retired[j]
      /\ \A v \in Withdrawals : t.row[v] = IF v = w THEN end ELSE s.row[v]
  BY <1>0, <1>3 DEF Sound, TablesTyped
<1>6. s.row[w] = None /\ s.stage[i] # "RETIRED"
  BY <1>0 DEF Sound, EndOf, StageOf
<1>7. ASSUME NEW j \in Intents
      PROVE  StageOf(t, j) /\ NamedEnd(t, j)
  <2>1. StageOf(s, j) /\ NamedEnd(s, j) /\ s.retired[j] \in Withdrawals \cup {None}
    BY DEF Sound, TablesTyped
  <2>2. CASE j = i
    BY <1>0, <1>2, <1>3, <1>5, <2>1, <2>2 DEF StageOf, NamedEnd, R!Stages
  <2>3. CASE j # i
    <3>1. StageOf(t, j)
      BY <1>3, <1>5, <2>1, <2>3 DEF StageOf
    <3>2. NamedEnd(t, j)
      BY <1>2, <1>5, <2>1, <2>3 DEF NamedEnd
    <3>. QED BY <3>1, <3>2
  <2>. QED BY <2>2, <2>3
<1>8. ASSUME NEW v \in Withdrawals
      PROVE  EndOf(t, v)
  <2>1. EndOf(s, v) /\ WithdrawalOf[v].op \in Intents
    BY ThreeClaims DEF Sound
  <2>2. CASE v = w
    BY <1>5, <2>1, <2>2 DEF EndOf
  <2>3. CASE v # w
    <3>1. s.row[v] # None => WithdrawalOf[v].op # i
      BY <1>0, <2>1 DEF EndOf
    <3>. QED BY <1>5, <2>1, <2>3, <3>1 DEF EndOf
  <2>. QED BY <2>2, <2>3
<1>9. Recs(t) = Recs(s) /\ Unret(t) = Unret(s) \ {i} /\ i \in Unret(s) /\ Unret(s) \subseteq Recs(s)
  BY <1>0, <1>5, <1>6 DEF Unret, Recs, R!Stages
<1>10. Latest(t)
  BY <1>9 DEF Sound, Latest
<1>11. Budgeted(t)
  <2>1. IsFiniteSet(s.claims) /\ IsFiniteSet(Recs(s)) /\ IsFiniteSet(Unret(s))
    BY <1>9, FS_Subset DEF Sound, Budgeted
  <2>2. IsFiniteSet(x.claims) /\ Cardinality(x.claims) = 3 /\ MaxClaims \in Nat
    BY ThreeClaims
  <2>3. IsFiniteSet(t.claims) /\ Cardinality(t.claims) = Cardinality(s.claims) + 3 /\ Cardinality(s.claims) \in Nat
    <3>1. s.claims \cap x.claims = {}
      OBVIOUS
    <3>2. /\ IsFiniteSet(s.claims \cup x.claims)
          /\ Cardinality(s.claims \cup x.claims) = Cardinality(s.claims) + Cardinality(x.claims)
          /\ Cardinality(s.claims) \in Nat
      BY <2>1, <2>2, <3>1, Together
    <3>. QED BY <1>3, <2>2, <3>2
  <2>4. Cardinality(Unret(t)) = Cardinality(Unret(s)) - 1 /\ Cardinality(Unret(s)) \in Nat
    BY <1>9, <2>1, FS_RemoveElement, FS_CardinalityType
  <2>. QED BY <1>9, <2>1, <2>2, <2>3, <2>4 DEF Sound, Budgeted
<1>12. Revisions(t) \ {None} = 1 .. t.state
  <2>1. Revisions(t) = Revisions(s) \cup {rev}
    <3>1. {v \in Withdrawals : t.row[v] # None} = {v \in Withdrawals : s.row[v] # None} \cup {w}
      BY <1>2, <1>5, <1>6
    <3>2. {t.row[v].revision : v \in {u \in Withdrawals : t.row[u] # None}} =
            {s.row[v].revision : v \in {u \in Withdrawals : s.row[u] # None}} \cup {rev}
      BY <1>5, <1>6, <3>1
    <3>. QED BY <1>3, <3>2 DEF Revisions
  <2>2. rev # None
    BY <1>0, <1>1
  <2>. QED BY <1>1, <1>3, <2>1, <2>2 DEF Sound
<1>13. Grows(s, t) /\ Settled(t, w)
  BY <1>0, <1>2, <1>5 DEF Grows, Settled, Attempted, R!Stages
<1>. QED BY <1>4, <1>7, <1>8, <1>10, <1>11, <1>12, <1>13 DEF Sound

\* A call's record, with two of its fields replaced.
LEMMA TwoFields ==
  ASSUME NEW q, NEW pc, NEW ask, NEW seen, NEW answer, NEW new, NEW next, NEW n,
         q = [pc |-> pc, ask |-> ask, seen |-> seen, answer |-> answer]
  PROVE  /\ n = [q EXCEPT !.pc = "end", !.answer = new] =>
              n = [pc |-> "end", ask |-> ask, seen |-> seen, answer |-> new]
         /\ n = [q EXCEPT !.ask = new, !.pc = new.kind] =>
              n = [pc |-> new.kind, ask |-> new, seen |-> seen, answer |-> answer]
         /\ n = [q EXCEPT !.pc = next, !.seen = new] =>
              n = [pc |-> next, ask |-> ask, seen |-> new, answer |-> answer]
OBVIOUS

LEMMA GotoFacts ==
  ASSUME CallsTyped, NEW r \in Requests, NEW pc \in Steps, R!Goto(r, pc)
  PROVE  /\ CallsTyped' /\ \A q \in Requests \ {r} : asks'[q] = asks[q]
         /\ asks'[r].pc = pc /\ asks'[r].ask = asks[r].ask /\ asks'[r].seen = asks[r].seen /\ asks'[r].answer = asks[r].answer
<1>. DEFINE new == [pc |-> pc, ask |-> asks[r].ask, seen |-> asks[r].seen, answer |-> asks[r].answer]
<1>1. asks[r] = [pc |-> asks[r].pc, ask |-> asks[r].ask, seen |-> asks[r].seen, answer |-> asks[r].answer]
  BY DEF CallsTyped
<1>2. [asks[r] EXCEPT !.pc = pc] = new
  BY <1>1
<1>3. asks' = [asks EXCEPT ![r] = new]
  BY <1>2 DEF R!Goto
<1>4. DOMAIN asks = Requests
  BY DEF CallsTyped
<1>5. asks' = [q \in Requests |-> IF q = r THEN new ELSE asks[q]]
  BY <1>3, <1>4
<1>. QED BY <1>5 DEF CallsTyped

LEMMA ReplyFacts ==
  ASSUME CallsTyped, NEW r \in Requests, NEW what, R!Reply(r, what)
  PROVE  /\ CallsTyped' /\ \A q \in Requests \ {r} : asks'[q] = asks[q]
         /\ asks'[r].pc = "end" /\ asks'[r].ask = asks[r].ask /\ asks'[r].answer = what
<1>. DEFINE new == [pc |-> "end", ask |-> asks[r].ask, seen |-> asks[r].seen, answer |-> what]
<1>1. asks[r] = [pc |-> asks[r].pc, ask |-> asks[r].ask, seen |-> asks[r].seen, answer |-> asks[r].answer]
  BY DEF CallsTyped
<1>2. [asks[r] EXCEPT !.pc = "end", !.answer = what] = new
  <2>1. PICK q, n : q = asks[r] /\ n = [q EXCEPT !.pc = "end", !.answer = what]
    OBVIOUS
  <2>2. PICK pc, ask, seen, answer : q = [pc |-> pc, ask |-> ask, seen |-> seen, answer |-> answer]
    BY <1>1, <2>1
  <2>3. q.pc = pc /\ q.ask = ask /\ q.seen = seen /\ q.answer = answer
    BY <2>2
  <2>4. n = new
    BY <2>1, <2>2, <2>3, TwoFields
  <2>. QED BY <2>1, <2>4
<1>3. asks' = [asks EXCEPT ![r] = new]
  BY <1>2 DEF R!Reply
<1>4. DOMAIN asks = Requests
  BY DEF CallsTyped
<1>5. asks' = [q \in Requests |-> IF q = r THEN new ELSE asks[q]]
  BY <1>3, <1>4
<1>. QED BY <1>5 DEF CallsTyped, Steps

LEMMA AskedFacts ==
  ASSUME NEW ask \in R!Asks
  PROVE  /\ ask.kind \in {"prepare", "admit", "read"} => ask.id \in Intents
         /\ ask.kind = "withdraw" => ask.id \in Withdrawals
         /\ ask.id \in Intents \cup Withdrawals
BY DEF R!Asks

LEMMA AskedOf ==
  ASSUME RegistryInv, NEW r \in Requests, asks[r].pc # "idle"
  PROVE  asks[r].ask \in R!Asks /\ asks[r].ask # None
BY DEF RegistryInv, CallsTyped, CallOf

\* What the step of one call leaves of the others.
LEMMA OneCall ==
  ASSUME R!RegistryAssumption, RegistryInv, NEW r \in Requests,
         CallsTyped', \A q \in Requests \ {r} : asks'[q] = asks[q],
         Sound(store)', Sound(disk)', Grows(disk, store)', Grows(store, store'), Grows(disk, disk'), CallOf(r)'
  PROVE  RegistryInv'
<1>1. ASSUME NEW q \in Requests \ {r}
      PROVE  CallOf(q)'
  <2>1. CallOf(q) /\ asks[q].ask \in R!Asks \cup {None} /\ asks'[q] = asks[q]
    BY DEF RegistryInv, CallsTyped
  <2>2. asks[q].pc \in {"attempted", "verify"} => asks[q].ask.id \in Intents
    BY <2>1, AskedFacts DEF CallOf
  <2>3. asks[q].ask # None => asks[q].ask.id \in Intents \cup Withdrawals
    BY <2>1, AskedFacts
  <2>4. asks[q].pc = "attempted" => Attempted(store', asks[q].ask.id)
    BY <2>1, <2>2 DEF CallOf, Grows
  <2>5. asks[q].pc = "verify" => Attempted(disk', asks[q].ask.id)
    BY <2>1, <2>2 DEF CallOf, Grows
  <2>6. asks[q].pc \in {"admitted", "withdrawn"} => Settled(store', asks[q].ask.id)
    BY <2>1, <2>3 DEF CallOf, Grows
  <2>7. (asks[q].pc \in {"status", "decoded"} \/ asks[q].answer = "COMMITTED")
        /\ asks[q].ask.kind \in {"admit", "withdraw"} =>
          Settled(disk', asks[q].ask.id)
    <3>1. asks[q].pc \in {"status", "decoded"} \/ asks[q].answer = "COMMITTED" => asks[q].ask # None
      BY <2>1 DEF CallOf, R!RegistryAssumption, R!Stages
    <3>. QED BY <2>1, <2>3, <3>1 DEF CallOf, Grows
  <2>. QED BY <2>1, <2>4, <2>5, <2>6, <2>7 DEF CallOf, Attempted, Settled
<1>. QED BY <1>1 DEF RegistryInv

LEMMA GrowsNot ==
  ASSUME NEW s
  PROVE  Grows(s, s)
BY DEF Grows

LEMMA QuietCall ==
  ASSUME R!RegistryAssumption, RegistryInv, NEW r \in Requests, UNCHANGED <<store, disk>>,
         CallsTyped', \A q \in Requests \ {r} : asks'[q] = asks[q], CallOf(r)'
  PROVE  RegistryInv'
<1>1. Sound(store)' /\ Sound(disk)' /\ Grows(disk, store)'
  BY DEF RegistryInv
<1>2. Grows(store, store') /\ Grows(disk, disk')
  BY GrowsNot
<1>. QED BY <1>1, <1>2, OneCall

LEMMA StoreCall ==
  ASSUME R!RegistryAssumption, RegistryInv, NEW r \in Requests, UNCHANGED disk, Sound(store'), Grows(store, store'),
         CallsTyped', \A q \in Requests \ {r} : asks'[q] = asks[q], CallOf(r)'
  PROVE  RegistryInv'
<1>1. Sound(store)' /\ Sound(disk)'
  BY DEF RegistryInv
<1>2. Grows(disk, store') /\ Grows(disk, disk')
  BY GrowsNot, GrowsFurther DEF RegistryInv
<1>3. Grows(disk, store)'
  BY <1>2
<1>. QED BY <1>1, <1>2, <1>3, OneCall

(***************************************************************************)
(* Each step keeps it.                                                     *)
(***************************************************************************)
LEMMA AskFacts ==
  ASSUME R!RegistryAssumption, CallsTyped, NEW r \in Requests, R!Ask(r)
  PROVE  /\ CallsTyped' /\ \A q \in Requests \ {r} : asks'[q] = asks[q]
         /\ asks'[r].ask \in R!Asks /\ asks'[r].pc = asks'[r].ask.kind /\ asks'[r].answer = asks[r].answer
<1>1. PICK ask \in R!Asks : asks' = [asks EXCEPT ![r].ask = ask, ![r].pc = ask.kind]
  BY DEF R!Ask, R!RegistryAssumption
<1>. DEFINE new == [pc |-> ask.kind, ask |-> ask, seen |-> asks[r].seen, answer |-> asks[r].answer]
<1>2. asks[r] = [pc |-> asks[r].pc, ask |-> asks[r].ask, seen |-> asks[r].seen, answer |-> asks[r].answer]
  BY DEF CallsTyped
<1>3. [asks[r] EXCEPT !.ask = ask, !.pc = ask.kind] = new
  <2>1. PICK q, n : q = asks[r] /\ n = [q EXCEPT !.ask = ask, !.pc = ask.kind]
    OBVIOUS
  <2>2. PICK pc, was, seen, answer : q = [pc |-> pc, ask |-> was, seen |-> seen, answer |-> answer]
    BY <1>2, <2>1
  <2>3. q.pc = pc /\ q.ask = was /\ q.seen = seen /\ q.answer = answer
    BY <2>2
  <2>4. n = new
    BY <2>1, <2>2, <2>3, TwoFields
  <2>. QED BY <2>1, <2>4
<1>4. asks' = [q \in Requests |-> IF q = r THEN new ELSE asks[q]]
  <2>1. asks' = [asks EXCEPT ![r] = new] /\ DOMAIN asks = Requests
    BY <1>1, <1>3 DEF CallsTyped
  <2>. QED BY <2>1
<1>5. ask.kind \in {"prepare", "admit", "read", "withdraw", "status"} /\ ask # None
  BY DEF R!Asks, R!RegistryAssumption
<1>6. CallsTyped' /\ \A q \in Requests \ {r} : asks'[q] = asks[q]
  <2>1. CallsTyped'
    BY <1>4, <1>5 DEF CallsTyped, Steps
  <2>. QED BY <1>4, <2>1
<1>7. asks'[r].pc = ask.kind /\ asks'[r].ask = ask /\ asks'[r].answer = asks[r].answer
  BY <1>4
<1>. QED BY <1>6, <1>7

LEMMA AskKeeps ==
  ASSUME R!RegistryAssumption, RegistryInv, NEW r \in Requests, R!Ask(r)
  PROVE  RegistryInv'
<1>1. /\ CallsTyped' /\ \A q \in Requests \ {r} : asks'[q] = asks[q]
      /\ asks'[r].ask \in R!Asks /\ asks'[r].pc = asks'[r].ask.kind /\ asks'[r].answer = asks[r].answer
  BY AskFacts DEF RegistryInv
<1>2. asks'[r].ask.kind \in {"prepare", "admit", "read", "withdraw", "status"} /\ asks'[r].ask # None
  BY <1>1 DEF R!Asks, R!RegistryAssumption
<1>3. asks[r].answer = None /\ None # "COMMITTED"
  BY DEF RegistryInv, CallOf, R!Ask, R!RegistryAssumption, R!Stages
<1>4. CallOf(r)'
  BY <1>1, <1>2, <1>3 DEF CallOf
<1>. QED BY <1>1, <1>4, QuietCall DEF R!Ask

LEMMA PrepareKeeps ==
  ASSUME R!RegistryAssumption, RegistryInv, NEW r \in Requests, R!Prepare(r)
  PROVE  RegistryInv'
<1>. DEFINE i == asks[r].ask.id
            c == IntentOf[i].claims
<1>1. asks[r].ask \in R!Asks /\ asks[r].ask # None /\ asks[r].ask.kind = "prepare" /\ i \in Intents
  <2>1. CallOf(r) /\ asks[r].pc = "prepare"
    BY DEF RegistryInv, R!Prepare
  <2>. QED BY <2>1, AskedOf, AskedFacts DEF CallOf
<1>2. CallsTyped /\ R!Goto(r, "prepared") /\ "prepared" \in Steps
  BY DEF RegistryInv, R!Prepare, Steps
<1>3. /\ CallsTyped' /\ \A q \in Requests \ {r} : asks'[q] = asks[q]
      /\ asks'[r].pc = "prepared" /\ asks'[r].ask = asks[r].ask /\ asks'[r].answer = asks[r].answer
  BY <1>2, GotoFacts
<1>4. Recs(store) = R!Recorded /\ Unret(store) = R!Unretired
  BY DEF Recs, Unret, R!Recorded, R!Unretired
<1>5. c \cap store.claims = {} /\ Cardinality(store.claims) + 3 * Cardinality(Unret(store)) + 6 <= MaxClaims
  BY <1>4, CardOf DEF R!Prepare, R!AreNew, R!HasRoom
<1>6. ASSUME NEW o \in Recs(store), IntentOf[o].principal = IntentOf[i].principal
      PROVE  \E p \in Recs(store) :
               /\ IntentOf[p].principal = IntentOf[i].principal /\ store.stage[p] = "RETIRED"
               /\ \A q \in Recs(store) : IntentOf[q].principal = IntentOf[i].principal =>
                    IntentOf[q].epoch <= IntentOf[p].epoch
               /\ IntentOf[i].epoch = IntentOf[p].epoch + 1
  <2>. DEFINE before == {p \in R!Recorded : IntentOf[p].principal = IntentOf[i].principal}
  <2>1. before # {}
    BY <1>4, <1>6
  <2>2. R!IsNext(i)
    BY DEF R!Prepare
  <2>3. \E p \in before : /\ \A q \in before : IntentOf[q].epoch <= IntentOf[p].epoch
                          /\ IntentOf[i].epoch = IntentOf[p].epoch + 1
                          /\ store.stage[p] = "RETIRED"
    BY <2>1, <2>2 DEF R!IsNext
  <2>. QED BY <1>4, <2>3
<1>7. store' = [store EXCEPT !.claims = @ \cup c, !.stage[i] = "PREPARED",
                             !.row[i] = [tag |-> "RESERVED", revision |-> 0, by |-> None]]
  BY DEF R!Prepare
<1>8. Sound(store') /\ Grows(store, store')
  <2>1. Sound(store)
    BY DEF RegistryInv
  <2>. QED BY <1>1, <1>5, <1>6, <1>7, <2>1, PreparedSound
<1>9. CallOf(r)'
  <2>1. asks[r].answer = None /\ None # "COMMITTED"
    BY DEF RegistryInv, CallOf, R!Prepare, R!RegistryAssumption, R!Stages
  <2>. QED BY <1>1, <1>3, <2>1 DEF CallOf
<1>. QED BY <1>3, <1>8, <1>9, StoreCall DEF R!Prepare

LEMMA AttemptKeeps ==
  ASSUME R!RegistryAssumption, RegistryInv, NEW r \in Requests, R!Attempt(r)
  PROVE  RegistryInv'
<1>. DEFINE i == asks[r].ask.id
<1>1. asks[r].ask \in R!Asks /\ asks[r].ask # None /\ asks[r].ask.kind = "admit" /\ i \in Intents
  <2>1. CallOf(r) /\ asks[r].pc = "admit"
    BY DEF RegistryInv, R!Attempt
  <2>. QED BY <2>1, AskedOf, AskedFacts DEF CallOf
<1>2. CallsTyped /\ R!Goto(r, "attempted") /\ "attempted" \in Steps
  BY DEF RegistryInv, R!Attempt, Steps
<1>3. /\ CallsTyped' /\ \A q \in Requests \ {r} : asks'[q] = asks[q]
      /\ asks'[r].pc = "attempted" /\ asks'[r].ask = asks[r].ask /\ asks'[r].answer = asks[r].answer
  BY <1>2, GotoFacts
<1>4. Sound(store') /\ Grows(store, store') /\ Attempted(store', i)
  <2>1. Sound(store) /\ store.stage[i] = "PREPARED"
    BY DEF RegistryInv, R!Attempt
  <2>2. store' = [store EXCEPT !.stage[i] = "ATTEMPTED", !.row[i].tag = "UNKNOWN"]
    BY DEF R!Attempt
  <2>. QED BY <1>1, <2>1, <2>2, AttemptedSound
<1>5. CallOf(r)'
  <2>1. asks[r].answer = None /\ None # "COMMITTED"
    BY DEF RegistryInv, CallOf, R!Attempt, R!RegistryAssumption, R!Stages
  <2>. QED BY <1>1, <1>3, <1>4, <2>1 DEF CallOf, Attempted
<1>. QED BY <1>3, <1>4, <1>5, StoreCall DEF R!Attempt

LEMMA CommitKeeps ==
  ASSUME R!RegistryAssumption, RegistryInv, NEW r \in Requests, R!Commit(r)
  PROVE  RegistryInv'
<1>. DEFINE i == asks[r].ask.id
            rev == store.state + 1
<1>1. asks[r].ask \in R!Asks /\ asks[r].ask # None /\ asks[r].ask.kind = "admit" /\ i \in Intents
  <2>1. CallOf(r) /\ asks[r].pc = "verify"
    BY DEF RegistryInv, R!Commit
  <2>. QED BY <2>1, AskedOf, AskedFacts DEF CallOf
<1>2. CallsTyped /\ R!Goto(r, "admitted") /\ "admitted" \in Steps
  BY DEF RegistryInv, R!Commit, Steps
<1>3. /\ CallsTyped' /\ \A q \in Requests \ {r} : asks'[q] = asks[q]
      /\ asks'[r].pc = "admitted" /\ asks'[r].ask = asks[r].ask /\ asks'[r].answer = asks[r].answer
  BY <1>2, GotoFacts
<1>4. Sound(store') /\ Grows(store, store') /\ Settled(store', i)
  <2>1. Sound(store) /\ store.stage[i] = "ATTEMPTED"
    BY DEF RegistryInv, R!Commit, R!MayCommit
  <2>2. store' = [store EXCEPT !.state = rev, !.principal[i] = rev, !.stage[i] = "COMMITTED",
                               !.row[i] = [@ EXCEPT !.tag = "COMMITTED", !.revision = rev]]
    BY DEF R!Commit
  <2>. HIDE DEF i
  <2>. QED BY <1>1, <2>1, <2>2, CommittedSound
<1>5. CallOf(r)'
  <2>1. asks[r].answer = None /\ None # "COMMITTED"
    BY DEF RegistryInv, CallOf, R!Commit, R!RegistryAssumption, R!Stages
  <2>. QED BY <1>1, <1>3, <1>4, <2>1 DEF CallOf, Settled
<1>. QED BY <1>3, <1>4, <1>5, StoreCall DEF R!Commit

LEMMA WithdrawKeeps ==
  ASSUME R!RegistryAssumption, RegistryInv, NEW r \in Requests, R!Withdraw(r)
  PROVE  RegistryInv'
<1>. DEFINE w == asks[r].ask.id
            x == WithdrawalOf[w]
            rev == store.state + 1
<1>1. asks[r].ask \in R!Asks /\ asks[r].ask # None /\ asks[r].ask.kind = "withdraw" /\ w \in Withdrawals
  <2>1. CallOf(r) /\ asks[r].pc = "withdraw"
    BY DEF RegistryInv, R!Withdraw
  <2>. QED BY <2>1, AskedOf, AskedFacts DEF CallOf
<1>2. CallsTyped /\ R!Goto(r, "withdrawn") /\ "withdrawn" \in Steps
  BY DEF RegistryInv, R!Withdraw, Steps
<1>3. /\ CallsTyped' /\ \A q \in Requests \ {r} : asks'[q] = asks[q]
      /\ asks'[r].pc = "withdrawn" /\ asks'[r].ask = asks[r].ask /\ asks'[r].answer = asks[r].answer
  BY <1>2, GotoFacts
<1>4. Sound(store) /\ x.op \in Intents
  BY <1>1, ThreeClaims DEF RegistryInv
<1>5. Sound(store') /\ Grows(store, store') /\ Settled(store', w)
  <2>1. CASE store.retired[x.op] = w /\ UNCHANGED store
    <3>1. store.row[w] # None /\ store.row[w].tag = "COMMITTED"
      <4>1. NamedEnd(store, x.op) /\ EndOf(store, w) /\ w # None
        BY <1>1, <1>4 DEF Sound, R!RegistryAssumption
      <4>. QED BY <2>1, <4>1 DEF NamedEnd, EndOf
    <3>. QED BY <1>4, <2>1, <3>1, GrowsNot DEF Settled
  <2>2. CASE /\ R!MayWithdraw(w)
             /\ store' = [store EXCEPT
                  !.claims = @ \cup x.claims, !.state = rev, !.retired[x.op] = w, !.stage[x.op] = "RETIRED",
                  !.row = [@ EXCEPT ![x.op] = [tag |-> "RETIRED", revision |-> rev, by |-> w],
                                    ![w] = [tag |-> "COMMITTED", revision |-> rev, by |-> None]]]
    <3>1. store.stage[x.op] # None /\ store.retired[x.op] = None /\ x.claims \cap store.claims = {}
      BY <2>2 DEF R!MayWithdraw, R!AreNew
    <3>. HIDE DEF w, x, rev
    <3>2. x = WithdrawalOf[w] /\ rev = store.state + 1
      BY DEF x, rev
    <3>. QED BY <1>1, <1>4, <2>2, <3>1, <3>2, WithdrawnSound
  <2>. QED BY <2>1, <2>2 DEF R!Withdraw
<1>6. CallOf(r)'
  <2>1. asks[r].answer = None /\ None # "COMMITTED"
    BY DEF RegistryInv, CallOf, R!Withdraw, R!RegistryAssumption, R!Stages
  <2>. QED BY <1>1, <1>3, <1>5, <2>1 DEF CallOf, Settled
<1>. QED BY <1>3, <1>5, <1>6, StoreCall DEF R!Withdraw

LEMMA SyncKeeps ==
  ASSUME R!RegistryAssumption, RegistryInv, NEW r \in Requests, R!Sync(r)
  PROVE  RegistryInv'
<1>. DEFINE next == IF asks[r].pc = "attempted" THEN "verify" ELSE "status"
<1>1. /\ asks[r].ask \in R!Asks /\ asks[r].ask # None /\ CallOf(r)
      /\ asks[r].pc \in {"prepared", "attempted", "admitted", "withdrawn"}
  BY AskedOf DEF RegistryInv, R!Sync
<1>2. CallsTyped /\ R!Goto(r, next) /\ next \in Steps
  BY DEF RegistryInv, R!Sync, Steps
<1>3. /\ CallsTyped' /\ \A q \in Requests \ {r} : asks'[q] = asks[q]
      /\ asks'[r].pc = next /\ asks'[r].ask = asks[r].ask /\ asks'[r].answer = asks[r].answer
  BY <1>2, GotoFacts
<1>4. disk' = store /\ store' = store
  BY DEF R!Sync, R!Synced
<1>5. Sound(store)' /\ Sound(disk)' /\ Grows(disk, store)' /\ Grows(store, store') /\ Grows(disk, disk')
  <2>1. Sound(store) /\ Grows(disk, store)
    BY DEF RegistryInv
  <2>. QED BY <1>4, <2>1, GrowsNot DEF Sound, TablesTyped, StageOf, NamedEnd, EndOf, Latest, Budgeted,
                                      Revisions, Recs, Unret
<1>6. CallOf(r)'
  <2>1. asks[r].answer = None /\ None # "COMMITTED"
    BY <1>1 DEF CallOf, R!RegistryAssumption, R!Stages
  <2>2. asks[r].pc = "attempted" => Attempted(disk', asks[r].ask.id) /\ asks[r].ask.kind = "admit"
    BY <1>1, <1>4 DEF CallOf
  <2>3. asks[r].pc \in {"admitted", "withdrawn"} => Settled(disk', asks[r].ask.id) /\ asks[r].ask.kind # "read"
    BY <1>1, <1>4 DEF CallOf
  <2>4. asks[r].pc = "prepared" => asks[r].ask.kind = "prepare"
    BY <1>1 DEF CallOf
  <2>5. CASE asks[r].pc = "attempted"
    BY <1>1, <1>3, <2>1, <2>2, <2>5 DEF CallOf, Attempted
  <2>6. CASE asks[r].pc # "attempted"
    BY <1>1, <1>3, <2>1, <2>3, <2>4, <2>6 DEF CallOf, Settled
  <2>. QED BY <2>5, <2>6
<1>. QED BY <1>3, <1>5, <1>6, OneCall

\* A call that ends with something else than a commit says nothing more.
LEMMA EndKeeps ==
  ASSUME R!RegistryAssumption, RegistryInv, NEW r \in Requests, asks[r].pc # "idle", UNCHANGED <<store, disk>>,
         NEW what, R!Reply(r, what),
         what = "COMMITTED" /\ asks[r].ask.kind \in {"admit", "withdraw"} => Settled(disk, asks[r].ask.id)
  PROVE  RegistryInv'
<1>1. asks[r].ask \in R!Asks /\ asks[r].ask # None
  BY AskedOf
<1>2. /\ CallsTyped' /\ \A q \in Requests \ {r} : asks'[q] = asks[q]
      /\ asks'[r].pc = "end" /\ asks'[r].ask = asks[r].ask /\ asks'[r].answer = what
  BY ReplyFacts DEF RegistryInv
<1>3. CallOf(r)'
  BY <1>1, <1>2 DEF CallOf, Settled
<1>. QED BY <1>2, <1>3, QuietCall

\* A call that goes on after a look at the tables.
LEMMA LookFacts ==
  ASSUME CallsTyped, NEW r \in Requests, NEW pc \in Steps, NEW seen,
         asks' = [asks EXCEPT ![r].pc = pc, ![r].seen = seen]
  PROVE  /\ CallsTyped' /\ \A q \in Requests \ {r} : asks'[q] = asks[q]
         /\ asks'[r].pc = pc /\ asks'[r].ask = asks[r].ask /\ asks'[r].seen = seen /\ asks'[r].answer = asks[r].answer
<1>. DEFINE new == [pc |-> pc, ask |-> asks[r].ask, seen |-> seen, answer |-> asks[r].answer]
<1>1. asks[r] = [pc |-> asks[r].pc, ask |-> asks[r].ask, seen |-> asks[r].seen, answer |-> asks[r].answer]
  BY DEF CallsTyped
<1>2. [asks[r] EXCEPT !.pc = pc, !.seen = seen] = new
  <2>1. PICK q, n : q = asks[r] /\ n = [q EXCEPT !.pc = pc, !.seen = seen]
    OBVIOUS
  <2>2. PICK was, ask, saw, answer : q = [pc |-> was, ask |-> ask, seen |-> saw, answer |-> answer]
    BY <1>1, <2>1
  <2>3. q.ask = ask /\ q.answer = answer
    BY <2>2
  <2>4. n = new
    BY <2>1, <2>2, <2>3, TwoFields
  <2>. QED BY <2>1, <2>4
<1>3. asks' = [asks EXCEPT ![r] = new] /\ DOMAIN asks = Requests
  BY <1>2 DEF CallsTyped
<1>4. asks' = [q \in Requests |-> IF q = r THEN new ELSE asks[q]]
  BY <1>3
<1>. QED BY <1>4 DEF CallsTyped

LEMMA StatusKeeps ==
  ASSUME R!RegistryAssumption, RegistryInv, NEW r \in Requests, R!Status(r)
  PROVE  RegistryInv'
<1>. DEFINE row == store.row[asks[r].ask.id]
<1>1. asks[r].ask \in R!Asks /\ asks[r].ask # None /\ CallOf(r) /\ asks[r].pc = "status" /\ UNCHANGED <<store, disk>>
  BY AskedOf DEF RegistryInv, R!Status
<1>2. CASE row # None /\ row.tag = "COMMITTED" /\ asks' = [asks EXCEPT ![r].pc = "decoded", ![r].seen = row]
  <2>1. /\ CallsTyped' /\ \A q \in Requests \ {r} : asks'[q] = asks[q]
        /\ asks'[r].pc = "decoded" /\ asks'[r].ask = asks[r].ask /\ asks'[r].seen = row /\ asks'[r].answer = asks[r].answer
    <3>. HIDE DEF row
    <3>. QED BY <1>2, LookFacts DEF RegistryInv, Steps
  <2>2. CallOf(r)'
    <3>1. asks[r].answer = None /\ None # "COMMITTED" /\ asks[r].ask.kind # "read"
      BY <1>1 DEF CallOf, R!RegistryAssumption, R!Stages
    <3>2. asks'[r].ask.kind \in {"admit", "withdraw"} => Settled(disk', asks'[r].ask.id)
      BY <1>1, <2>1 DEF CallOf, Settled
    <3>. HIDE DEF row
    <3>3. asks'[r].pc = "decoded" /\ asks'[r].ask # None /\ asks'[r].ask.kind # "read" /\ asks'[r].seen # None /\ asks'[r].answer = None
      BY <1>1, <1>2, <2>1, <3>1
    <3>. QED BY <3>1, <3>2, <3>3 DEF CallOf, Settled
  <2>. QED BY <1>1, <2>1, <2>2, QuietCall
<1>3. CASE ~(row # None /\ row.tag = "COMMITTED") /\ R!Reply(r, IF row = None THEN "NOT_FOUND_DATA" ELSE row.tag)
  <2>. DEFINE what == IF row = None THEN "NOT_FOUND_DATA" ELSE row.tag
  <2>1. what # "COMMITTED" /\ R!Reply(r, what)
    BY <1>3
  <2>. HIDE DEF what
  <2>. QED BY <1>1, <2>1, EndKeeps
<1>. QED BY <1>2, <1>3 DEF R!Status

LEMMA AnswerKeeps ==
  ASSUME R!RegistryAssumption, RegistryInv, NEW r \in Requests, R!Answer(r)
  PROVE  RegistryInv'
<1>1. /\ CallOf(r) /\ asks[r].pc = "decoded" /\ UNCHANGED <<store, disk>> /\ R!Reply(r, asks[r].seen.tag)
      /\ asks[r].ask.kind \in {"admit", "withdraw"} => Settled(disk, asks[r].ask.id)
  BY DEF RegistryInv, R!Answer, CallOf
<1>2. PICK what : what = asks[r].seen.tag
  OBVIOUS
<1>3. R!Reply(r, what)
  BY <1>1, <1>2
<1>. QED BY <1>1, <1>3, EndKeeps

LEMMA ReadKeeps ==
  ASSUME R!RegistryAssumption, RegistryInv, NEW r \in Requests, R!Read(r)
  PROVE  RegistryInv'
<1>1. /\ asks[r].ask \in R!Asks /\ asks[r].ask # None /\ CallOf(r) /\ asks[r].pc \in {"read", "reread"}
      /\ UNCHANGED <<store, disk>> /\ asks[r].ask.kind = "read"
  BY AskedOf DEF RegistryInv, R!Read, CallOf
<1>2. CASE asks' = [asks EXCEPT ![r].pc = "reread", ![r].seen = R!Captured(asks[r].ask.id)]
  <2>1. /\ CallsTyped' /\ \A q \in Requests \ {r} : asks'[q] = asks[q]
        /\ asks'[r].pc = "reread" /\ asks'[r].ask = asks[r].ask /\ asks'[r].answer = asks[r].answer
    BY <1>2, LookFacts DEF RegistryInv, Steps
  <2>2. CallOf(r)'
    <3>1. asks[r].answer = None /\ None # "COMMITTED"
      BY <1>1 DEF CallOf, R!RegistryAssumption, R!Stages
    <3>. QED BY <1>1, <2>1, <3>1 DEF CallOf
  <2>. QED BY <1>1, <2>1, <2>2, QuietCall
<1>3. CASE R!Reply(r, "principal")
  BY <1>1, <1>3, EndKeeps
<1>. QED BY <1>2, <1>3 DEF R!Read

LEMMA AbandonKeeps ==
  ASSUME R!RegistryAssumption, RegistryInv, NEW r \in Requests, R!Abandon(r)
  PROVE  RegistryInv'
BY EndKeeps DEF R!Abandon

LEMMA FlushKeeps ==
  ASSUME R!RegistryAssumption, RegistryInv, disk' = store, UNCHANGED <<store, asks>>
  PROVE  RegistryInv'
<1>1. Sound(store)' /\ Sound(disk)' /\ Grows(disk, store)' /\ Grows(disk, disk')
  <2>1. Sound(store) /\ Grows(disk, store)
    BY DEF RegistryInv
  <2>. QED BY <2>1, GrowsNot DEF Sound, TablesTyped, StageOf, NamedEnd, EndOf, Latest, Budgeted,
                                      Revisions, Recs, Unret
<1>2. CallsTyped'
  BY DEF RegistryInv, CallsTyped
<1>3. ASSUME NEW q \in Requests
      PROVE  CallOf(q)'
  <2>1. CallOf(q) /\ asks[q].ask \in R!Asks \cup {None} /\ asks'[q] = asks[q]
    BY DEF RegistryInv, CallsTyped
  <2>2. asks[q].pc = "verify" => Attempted(disk', asks[q].ask.id)
    BY <1>1, <2>1, AskedFacts DEF CallOf, Grows
  <2>3. (asks[q].pc \in {"status", "decoded"} \/ asks[q].answer = "COMMITTED")
        /\ asks[q].ask.kind \in {"admit", "withdraw"} =>
          Settled(disk', asks[q].ask.id)
    <3>1. asks[q].pc \in {"status", "decoded"} \/ asks[q].answer = "COMMITTED" => asks[q].ask # None
      BY <2>1 DEF CallOf, R!RegistryAssumption, R!Stages
    <3>2. asks[q].ask # None => asks[q].ask.id \in Intents \cup Withdrawals
      BY <2>1, AskedFacts
    <3>. QED BY <1>1, <2>1, <3>1, <3>2 DEF CallOf, Grows
  <2>. QED BY <2>1, <2>2, <2>3 DEF CallOf, Attempted, Settled
<1>. QED BY <1>1, <1>2, <1>3 DEF RegistryInv

LEMMA RestartFacts ==
  ASSUME CallsTyped, R!Restart, NEW r \in Requests
  PROVE  /\ asks[r].pc \in {"idle", "end"} => asks'[r] = asks[r]
         /\ asks[r].pc \notin {"idle", "end"} =>
              asks'[r] = [pc |-> "end", ask |-> asks[r].ask, seen |-> asks[r].seen, answer |-> "none"]
<1>1. PICK q, n : q = asks[r] /\ n = [q EXCEPT !.pc = "end", !.answer = "none"]
  OBVIOUS
<1>2. PICK was, ask, saw, answer : q = [pc |-> was, ask |-> ask, seen |-> saw, answer |-> answer]
  <2>1. asks[r] = [pc |-> asks[r].pc, ask |-> asks[r].ask, seen |-> asks[r].seen, answer |-> asks[r].answer]
    BY DEF CallsTyped
  <2>. QED BY <1>1, <2>1
<1>3. q.ask = ask /\ q.seen = saw
  BY <1>2
<1>4. n = [pc |-> "end", ask |-> asks[r].ask, seen |-> asks[r].seen, answer |-> "none"]
  BY <1>1, <1>2, <1>3, TwoFields
<1>5. asks'[r] = IF asks[r].pc \in {"idle", "end"} THEN asks[r] ELSE [asks[r] EXCEPT !.pc = "end", !.answer = "none"]
  BY DEF R!Restart
<1>. QED BY <1>1, <1>4, <1>5

\* What a restart finds is sound, and every call that was under way has ended
\* without an answer.
LEMMA RestartKeeps ==
  ASSUME R!RegistryAssumption, RegistryInv, R!Restart
  PROVE  RegistryInv'
<1>1. store' = disk /\ disk' = disk
  BY DEF R!Restart
<1>2. Sound(store)' /\ Sound(disk)' /\ Grows(disk, store)'
  <2>1. Sound(disk)
    BY DEF RegistryInv
  <2>. QED BY <1>1, <2>1, GrowsNot DEF Sound, TablesTyped, StageOf, NamedEnd, EndOf, Latest, Budgeted,
                                      Revisions, Recs, Unret
<1>3. CallsTyped /\ \A r \in Requests : asks[r].pc \in Steps /\ asks[r].ask \in R!Asks \cup {None}
  BY DEF RegistryInv, CallsTyped
<1>4. ASSUME NEW r \in Requests
      PROVE  /\ asks[r].pc \in {"idle", "end"} => asks'[r] = asks[r]
             /\ asks[r].pc \notin {"idle", "end"} =>
                  asks'[r] = [pc |-> "end", ask |-> asks[r].ask, seen |-> asks[r].seen, answer |-> "none"]
  BY <1>3, RestartFacts
<1>5. CallsTyped'
  <2>1. asks' = [r \in Requests |-> asks'[r]]
    BY DEF R!Restart
  <2>2. ASSUME NEW r \in Requests
        PROVE  /\ asks'[r] = [pc |-> asks'[r].pc, ask |-> asks'[r].ask, seen |-> asks'[r].seen, answer |-> asks'[r].answer]
               /\ asks'[r].pc \in Steps /\ asks'[r].ask \in R!Asks \cup {None}
    <3>1. /\ asks[r] = [pc |-> asks[r].pc, ask |-> asks[r].ask, seen |-> asks[r].seen, answer |-> asks[r].answer]
          /\ asks[r].pc \in Steps /\ asks[r].ask \in R!Asks \cup {None}
      BY <1>3 DEF CallsTyped
    <3>2. CASE asks[r].pc \in {"idle", "end"}
      BY <1>4, <3>1, <3>2
    <3>3. CASE asks[r].pc \notin {"idle", "end"}
      <4>1. /\ asks'[r] = [pc |-> "end", ask |-> asks[r].ask, seen |-> asks[r].seen, answer |-> "none"]
            /\ asks[r].ask \in R!Asks \cup {None}
        BY <1>4, <3>1, <3>3
      <4>. QED BY <4>1 DEF Steps
    <3>. QED BY <3>2, <3>3
  <2>. QED BY <2>1, <2>2 DEF CallsTyped
<1>6. ASSUME NEW r \in Requests
      PROVE  CallOf(r)'
  <2>1. CallOf(r) /\ (asks[r].pc # "idle" => asks[r].ask # None)
    BY AskedOf DEF RegistryInv
  <2>2. CASE asks[r].pc \in {"idle", "end"}
    <3>1. asks'[r] = asks[r] /\ disk' = disk
      BY <1>1, <1>4, <2>2
    <3>2. asks[r].answer = "COMMITTED" /\ asks[r].ask.kind \in {"admit", "withdraw"} => Settled(disk', asks[r].ask.id)
      BY <2>1, <3>1 DEF CallOf
    <3>. QED BY <2>1, <2>2, <3>1, <3>2 DEF CallOf, Settled
  <2>3. CASE asks[r].pc \notin {"idle", "end"}
    <3>1. asks'[r] = [pc |-> "end", ask |-> asks[r].ask, seen |-> asks[r].seen, answer |-> "none"] /\ asks[r].ask # None
      BY <1>4, <2>1, <2>3
    <3>2. asks'[r].pc = "end" /\ asks'[r].ask = asks[r].ask /\ asks'[r].answer = "none"
      BY <3>1
    <3>. QED BY <3>1, <3>2 DEF CallOf
  <2>. QED BY <2>2, <2>3
<1>. QED BY <1>2, <1>5, <1>6 DEF RegistryInv

LEMMA RegistryInit ==
  ASSUME R!RegistryAssumption, R!Init
  PROVE  RegistryInv
<1>0. None \notin R!Stages /\ None \notin R!Row /\ None \notin Nat /\ MaxClaims \in Nat /\ None # "COMMITTED"
  BY DEF R!RegistryAssumption, R!Stages
<1>1. store = R!Initial /\ disk = R!Initial
  BY DEF R!Init
<1>2. Sound(R!Initial)
  <2>1. TablesTyped(R!Initial)
    BY DEF TablesTyped, R!Initial
  <2>2. \A i \in Intents : StageOf(R!Initial, i) /\ NamedEnd(R!Initial, i)
    BY <1>0 DEF StageOf, NamedEnd, R!Initial, R!Stages
  <2>3. \A w \in Withdrawals : EndOf(R!Initial, w)
    BY DEF EndOf, R!Initial
  <2>4. Recs(R!Initial) = {} /\ Unret(R!Initial) = {} /\ R!Initial.claims = {}
    BY DEF Recs, Unret, R!Initial
  <2>5. Latest(R!Initial) /\ Budgeted(R!Initial)
    BY <1>0, <2>4, FS_EmptySet DEF Latest, Budgeted
  <2>6. Revisions(R!Initial) \ {None} = {} /\ R!Initial.state = 0
    BY DEF Revisions, R!Initial
  <2>. QED BY <2>1, <2>2, <2>3, <2>5, <2>6 DEF Sound
<1>3. CallsTyped
  BY DEF R!Init, CallsTyped, Steps
<1>4. \A r \in Requests : CallOf(r)
  BY <1>0 DEF R!Init, CallOf
<1>. QED BY <1>1, <1>2, <1>3, <1>4, GrowsNot DEF RegistryInv

LEMMA NothingKeeps ==
  ASSUME RegistryInv, UNCHANGED <<store, disk, asks>>
  PROVE  RegistryInv'
<1>1. Sound(store)' /\ Sound(disk)' /\ Grows(disk, store)'
  BY DEF RegistryInv, Sound, TablesTyped, StageOf, NamedEnd, EndOf, Latest, Budgeted, Revisions, Recs, Unret
<1>2. CallsTyped'
  BY DEF RegistryInv, CallsTyped
<1>3. ASSUME NEW r \in Requests
      PROVE  CallOf(r)'
  <2>1. CallOf(r)
    BY DEF RegistryInv
  <2>2. /\ asks[r].pc = "attempted" => Attempted(store', asks[r].ask.id)
        /\ asks[r].pc = "verify" => Attempted(disk', asks[r].ask.id)
        /\ asks[r].pc \in {"admitted", "withdrawn"} => Settled(store', asks[r].ask.id)
        /\ (asks[r].pc \in {"status", "decoded"} \/ asks[r].answer = "COMMITTED") /\ asks[r].ask.kind \in {"admit", "withdraw"} =>
             Settled(disk', asks[r].ask.id)
    BY <2>1 DEF CallOf
  <2>. QED BY <2>1, <2>2 DEF CallOf, Settled, Attempted
<1>. QED BY <1>1, <1>2, <1>3 DEF RegistryInv

LEMMA RegistryNext ==
  ASSUME R!RegistryAssumption, RegistryInv, [R!Next]_(R!vars)
  PROVE  RegistryInv'
<1>1. CASE UNCHANGED R!vars
  BY <1>1, NothingKeeps DEF R!vars
<1>2. ASSUME NEW r \in Requests,
             \/ R!Ask(r) \/ R!Prepare(r) \/ R!Attempt(r) \/ R!Commit(r) \/ R!Withdraw(r) \/ R!Sync(r)
             \/ R!Status(r) \/ R!Answer(r) \/ R!Read(r) \/ R!Abandon(r)
      PROVE  RegistryInv'
  BY <1>2, AskKeeps, PrepareKeeps, AttemptKeeps, CommitKeeps, WithdrawKeeps, SyncKeeps, StatusKeeps, AnswerKeeps,
     ReadKeeps, AbandonKeeps
<1>3. CASE R!Flush
  BY <1>3, FlushKeeps DEF R!Flush
<1>4. CASE R!Close
  BY <1>4, NothingKeeps DEF R!Close
<1>5. CASE R!Restart
  BY <1>5, RestartKeeps
<1>. QED BY <1>1, <1>2, <1>3, <1>4, <1>5 DEF R!Next

\* What the invariant says in the properties' words.
LEMMA RegistryKept ==
  ASSUME R!RegistryAssumption, RegistryInv
  PROVE  R!Kept
<1>1. R!AnswersKept
  <2>1. ASSUME NEW r \in Requests
        PROVE  /\ asks[r].answer = "COMMITTED" /\ asks[r].ask.kind \in {"admit", "withdraw"} =>
                    /\ disk.row[asks[r].ask.id] # None
                    /\ disk.row[asks[r].ask.id].tag \in {"COMMITTED", "RETIRED"}
               /\ asks[r].pc = "verify" => disk.stage[asks[r].ask.id] \notin {None, "PREPARED"}
    <3>1. CallOf(r)
      BY DEF RegistryInv
    <3>. QED BY <3>1 DEF CallOf, Settled, Attempted
  <2>. QED BY <2>1 DEF R!AnswersKept
<1>2. Recs(store) = R!Recorded /\ Unret(store) = R!Unretired /\ Sound(store)
  BY DEF Recs, Unret, R!Recorded, R!Unretired, RegistryInv
<1>3. R!Cardinality(store.claims) + 3 * R!Cardinality(R!Unretired) <= MaxClaims
  BY <1>2, CardOf DEF Sound, Budgeted
<1>4. \A i \in R!Unretired : \A j \in R!Recorded \ {i} :
        IntentOf[i].principal = IntentOf[j].principal => IntentOf[j].epoch < IntentOf[i].epoch
  BY <1>2 DEF Sound, Latest
<1>5. R!Cardinality(Revisions(store) \ {None}) = store.state
  <2>1. store.state \in Nat /\ Revisions(store) \ {None} = 1 .. store.state
    BY <1>2 DEF Sound, TablesTyped
  <2>2. Cardinality(1 .. store.state) = store.state
    BY <2>1, FS_Interval
  <2>. QED BY <2>1, <2>2, CardOf
<1>6. ASSUME NEW i \in R!Recorded
      PROVE  /\ store.stage[i] = "COMMITTED" => store.principal[i] # None
             /\ store.stage[i] = "RETIRED" <=> store.retired[i] # None
  <2>1. StageOf(store, i)
    BY <1>2 DEF Sound, R!Recorded
  <2>. QED BY <2>1 DEF StageOf
<1>7. R!Withdrawable
  BY <1>3, <1>4, <1>5, <1>6 DEF R!Withdrawable, Revisions
<1>. QED BY <1>1, <1>7 DEF R!Kept

LEMMA RegistryAnswers ==
  ASSUME R!RegistryAssumption, RegistryInv, [R!Next]_(R!vars)
  PROVE  R!AnswersNow
<1>. SUFFICES ASSUME NEW r \in Requests, asks[r].answer = None, asks'[r].answer \in {"principal", "COMMITTED"}
              PROVE  store.row[asks[r].ask.id].tag = "COMMITTED"
  BY DEF R!AnswersNow
<1>0. CallsTyped /\ None \notin R!Stages /\ None \notin R!Row /\ Sound(store) /\ asks'[r].answer # asks[r].answer
  BY DEF RegistryInv, R!RegistryAssumption, R!Stages
<1>1. ASSUME NEW q \in Requests, NEW pc \in Steps, R!Goto(q, pc)
      PROVE  FALSE
  BY <1>0, <1>1, GotoFacts
<1>2. ASSUME NEW q \in Requests, NEW what, R!Reply(q, what)
      PROVE  q = r /\ what = asks'[r].answer
  BY <1>0, <1>2, ReplyFacts
<1>3. ASSUME NEW q \in Requests, NEW pc \in Steps, NEW seen, asks' = [asks EXCEPT ![q].pc = pc, ![q].seen = seen]
      PROVE  FALSE
  BY <1>0, <1>3, LookFacts
<1>4. ASSUME NEW q \in Requests, R!Ask(q)
      PROVE  FALSE
  BY <1>0, <1>4, AskFacts
<1>5. ASSUME NEW q \in Requests, R!Prepare(q) \/ R!Attempt(q) \/ R!Commit(q) \/ R!Withdraw(q)
      PROVE  FALSE
  BY <1>1, <1>5 DEF R!Prepare, R!Attempt, R!Commit, R!Withdraw, Steps
<1>6. ASSUME NEW q \in Requests, R!Sync(q)
      PROVE  FALSE
  BY <1>1, <1>6 DEF R!Sync, Steps
<1>7. ASSUME NEW q \in Requests, R!Status(q)
      PROVE  FALSE
  <2>. DEFINE row == store.row[asks[q].ask.id]
  <2>1. CASE row # None /\ row.tag = "COMMITTED" /\ asks' = [asks EXCEPT ![q].pc = "decoded", ![q].seen = row]
    <3>. HIDE DEF row
    <3>. QED BY <1>3, <2>1 DEF Steps
  <2>2. CASE ~(row # None /\ row.tag = "COMMITTED") /\ R!Reply(q, IF row = None THEN "NOT_FOUND_DATA" ELSE row.tag)
    <3>. DEFINE what == IF row = None THEN "NOT_FOUND_DATA" ELSE row.tag
    <3>1. asks[q].ask.id \in Intents \cup Withdrawals
      BY <1>7, AskedOf, AskedFacts DEF R!Status
    <3>2. row # None => row \in R!Row
      BY <1>0, <3>1 DEF Sound, TablesTyped
    <3>3. what \notin {"principal", "COMMITTED"}
      BY <2>2, <3>2 DEF R!Row
    <3>4. R!Reply(q, what)
      BY <2>2
    <3>. HIDE DEF what
    <3>. QED BY <1>2, <3>3, <3>4
  <2>. QED BY <1>7, <2>1, <2>2 DEF R!Status
<1>8. ASSUME NEW q \in Requests, R!Answer(q)
      PROVE  store.row[asks[r].ask.id].tag = "COMMITTED"
  <2>1. PICK what : what = asks[q].seen.tag
    OBVIOUS
  <2>2. R!Reply(q, what) /\ store.row[asks[q].ask.id] = asks[q].seen /\ asks[q].pc = "decoded" /\ CallOf(q)
    BY <1>8, <2>1 DEF R!Answer, R!IsStill, RegistryInv
  <2>3. q = r /\ what \in {"principal", "COMMITTED"}
    BY <1>2, <2>2
  <2>4. asks[q].ask.id \in Intents \cup Withdrawals
    BY <2>2, AskedOf, AskedFacts
  <2>5. asks[q].seen # None /\ asks[q].seen \in R!Row
    BY <1>0, <2>2, <2>4 DEF Sound, TablesTyped, CallOf
  <2>6. what = "COMMITTED"
    BY <2>1, <2>3, <2>5 DEF R!Row
  <2>. QED BY <2>1, <2>2, <2>3, <2>6
<1>9. ASSUME NEW q \in Requests, R!Read(q)
      PROVE  store.row[asks[r].ask.id].tag = "COMMITTED"
  <2>1. CASE asks' = [asks EXCEPT ![q].pc = "reread", ![q].seen = R!Captured(asks[q].ask.id)]
    BY <1>3, <2>1 DEF Steps
  <2>2. CASE R!Reply(q, "principal")
    <3>1. q = r
      BY <1>2, <2>2
    <3>2. CallOf(q) /\ asks[q].pc \in {"read", "reread"} /\ store.stage[asks[q].ask.id] = "COMMITTED"
      BY <1>9 DEF RegistryInv, R!Read
    <3>3. asks[q].ask.id \in Intents
      BY <3>2, AskedOf, AskedFacts DEF CallOf
    <3>. QED BY <1>0, <3>1, <3>2, <3>3 DEF Sound, StageOf
  <2>. QED BY <1>9, <2>1, <2>2 DEF R!Read
<1>10. ASSUME NEW q \in Requests, R!Abandon(q)
       PROVE  FALSE
  BY <1>2, <1>10 DEF R!Abandon
<1>11. ASSUME R!Restart
       PROVE  FALSE
  <2>1. CASE asks[r].pc \in {"idle", "end"}
    BY <1>0, <1>11, <2>1, RestartFacts
  <2>2. CASE asks[r].pc \notin {"idle", "end"}
    <3>1. asks'[r] = [pc |-> "end", ask |-> asks[r].ask, seen |-> asks[r].seen, answer |-> "none"]
      BY <1>0, <1>11, <2>2, RestartFacts
    <3>2. asks'[r].answer = "none"
      BY <3>1
    <3>. QED BY <3>2
  <2>. QED BY <2>1, <2>2
<1>12. CASE R!Flush \/ R!Close \/ UNCHANGED R!vars
  BY <1>0, <1>12 DEF R!Flush, R!Close, R!vars
<1>. QED BY <1>4, <1>5, <1>6, <1>7, <1>8, <1>9, <1>10, <1>11, <1>12 DEF R!Next

(***************************************************************************)
(* A commit that was answered is on the disk, for good, and no proof is    *)
(* verified for an attempt that a restart gives back; every intent can be  *)
(* withdrawn, however many claims the others have spent.                   *)
(***************************************************************************)
THEOREM CommitsAreKept ==
  ASSUME R!RegistryAssumption
  PROVE  R!Spec => []AnswersKept
<1>1. R!Init => RegistryInv
  BY RegistryInit
<1>2. RegistryInv /\ [R!Next]_(R!vars) => RegistryInv'
  BY RegistryNext
<1>3. RegistryInv => AnswersKept
  BY RegistryKept DEF AnswersKept
<1>. QED BY <1>1, <1>2, <1>3, PTL DEF R!Spec

\* A call is answered with a principal only at a moment at which it is one,
\* whatever happened since the call had looked.
THEOREM NoAnswerIsLate ==
  ASSUME R!RegistryAssumption
  PROVE  R!Spec => NoLateAnswer
<1>1. R!Init => RegistryInv
  BY RegistryInit
<1>2. RegistryInv /\ [R!Next]_(R!vars) => RegistryInv'
  BY RegistryNext
<1>3. RegistryInv /\ [R!Next]_(R!vars) => [R!AnswersNow]_(R!vars)
  BY RegistryAnswers
<1>. QED BY <1>1, <1>2, <1>3, PTL DEF R!Spec, NoLateAnswer, R!NoLateAnswer

(***************************************************************************)
(* The push coordinator.  What the file says is the same at every commit,  *)
(* so it is proved of a file d: a job is at the place its revision counts, *)
(* with a spent claim for every stage before; what hangs on a retired      *)
(* parent has ended.  A key's row counts the claims it verified.           *)
(***************************************************************************)
FileTyped(d) ==
  /\ d = [parents |-> d.parents, children |-> d.children, jobs |-> d.jobs, claims |-> d.claims,
          counters |-> d.counters]
  /\ d.parents \in [Parents -> {None, "live", "retired"}]
  /\ d.children \in [Children -> P!Child \cup {None}] /\ d.jobs \in [Jobs -> P!Job \cup {None}]
  /\ d.claims \in [Jobs -> [P!StageSet -> P!Claim \cup {None}]]
  /\ d.counters \in [Keys -> P!Counter \cup {None}]

IsSpent(d, j, stage) == d.claims[j][stage] # None /\ d.claims[j][stage].outcome \in {"COMMITTED", "SUBMIT_SPENT"}

\* The revision of a job is its place, and that of a claim the one it was
\* reserved at; exactly the stages before have been spent.
JobAt(d, j) ==
  LET row == d.jobs[j]
  IN /\ row # None => /\ row.revision \in 1 .. 6 /\ row.phase \in {P!Phases[row.revision], "RETIRED"}
                      /\ \A stage \in P!StageSet : IsSpent(d, j, stage) <=> P!Place(stage) < row.revision
     /\ \A stage \in P!StageSet : d.claims[j][stage] # None =>
          row # None /\ d.claims[j][stage].revision = P!Place(stage)

Ended(d, p) ==
  d.parents[p] = "retired" =>
    /\ \A j \in Jobs : d.jobs[j] # None /\ d.jobs[j].parent = p =>
         /\ d.jobs[j].phase = "RETIRED"
         /\ \A s \in P!StageSet : d.claims[j][s] = None \/ d.claims[j][s].outcome # "RESERVED"
    /\ \A c \in Children : d.children[c] # None /\ d.children[c].parent = p => d.children[c].retired

\* The claims that were verified with a key, and the counters it was accepted
\* with.
VerifiedBy(d, k) ==
  {c \in Jobs \X {"verify_key", "verify_target"} :
     /\ d.jobs[c[1]] # None /\ d.jobs[c[1]].key = k
     /\ d.claims[c[1]][c[2]] # None /\ d.claims[c[1]][c[2]].outcome = "COMMITTED"}
KeyAt(d, k, accepted) ==
  /\ IsFiniteSet(VerifiedBy(d, k)) /\ IsFiniteSet(accepted)
  /\ Cardinality(VerifiedBy(d, k)) = Cardinality(accepted)
  /\ IF d.counters[k] = None THEN VerifiedBy(d, k) = {}
     ELSE /\ d.counters[k].revision = Cardinality(VerifiedBy(d, k))
          /\ \A v \in accepted : v \in Nat /\ v <= d.counters[k].counter

FileInv(d) == FileTyped(d) /\ (\A j \in Jobs : JobAt(d, j)) /\ (\A p \in Parents : Ended(d, p))

\* What was spent in d or bound in it is so in e.
Keeps(d, e) ==
  /\ \A j \in Jobs, stage \in P!StageSet : IsSpent(d, j, stage) => IsSpent(e, j, stage)
  /\ \A c \in Children : d.children[c] # None => e.children[c] # None

\* Nothing was verified between d and e.
SameKeys(d, e) == e.counters = d.counters /\ \A k \in Keys : VerifiedBy(e, k) = VerifiedBy(d, k)

\* A job's payload is returned while its handle is there, and the handle is
\* there once after the last stage.
TypedMem(m) ==
  /\ m = [retired |-> m.retired, cont |-> m.cont, utc |-> m.utc, observed |-> m.observed, handles |-> m.handles]
  /\ m.handles \in [Jobs -> Admissions \cup {None}]
Submitted(told, j) == \E x \in told : x.job = j /\ x.what = "submit"
Holds(d, x) ==
  IF x.what \in Children THEN d.children[x.what] # None
  ELSE x.job \in Jobs /\ x.what \in P!StageSet /\ IsSpent(d, x.job, x.what)

PayloadOnce(j) ==
  /\ mem.handles[j] # None => Submitted(answers, j) /\ given[j] = 0 /\ mem.handles[j].job = j
  /\ given[j] \in {0, 1}
  /\ given[j] = 1 => Submitted(answers, j) /\ \A stage \in P!StageSet : IsSpent(file, j, stage)

ClockTyped(t) == t = [cont |-> t.cont, utc |-> t.utc, boot |-> t.boot] /\ t.utc \in Int

PushInv ==
  /\ ClockTyped(clock) /\ FileInv(file) /\ TypedMem(mem) /\ steps \subseteq P!Step
  /\ \A x \in answers : Holds(file, x)
  /\ given \in [Jobs -> Nat] /\ \A j \in Jobs : PayloadOnce(j)
  /\ proofs \in [Keys -> SUBSET Nat] /\ \A k \in Keys : KeyAt(file, k, proofs[k])

LEMMA PushCard ==
  ASSUME NEW S
  PROVE  P!Cardinality(S) = Cardinality(S)
BY DEF P!Cardinality, Cardinality

LEMMA Places ==
  /\ P!StageSet = {"prepare_key", "verify_key", "prepare_target", "verify_target", "submit"}
  /\ P!Place("prepare_key") = 1 /\ P!Place("verify_key") = 2 /\ P!Place("prepare_target") = 3
  /\ P!Place("verify_target") = 4 /\ P!Place("submit") = 5
  /\ P!Phases[1] = "RESERVED" /\ P!Phases[2] = "KEY_PREPARED" /\ P!Phases[3] = "KEY_VERIFIED"
  /\ P!Phases[4] = "TARGET_PREPARED" /\ P!Phases[5] = "TARGET_VERIFIED" /\ P!Phases[6] = "SUBMIT_SPENT"
<1>1. /\ DOMAIN P!Stages = 1 .. 5 /\ P!Stages[1] = "prepare_key" /\ P!Stages[2] = "verify_key"
      /\ P!Stages[3] = "prepare_target" /\ P!Stages[4] = "verify_target" /\ P!Stages[5] = "submit"
  BY DEF P!Stages
<1>2. 1 .. 5 = {1, 2, 3, 4, 5}
  OBVIOUS
<1>3. P!StageSet = {P!Stages[i] : i \in DOMAIN P!Stages}
  BY DEF P!StageSet, P!ToSet
<1>4. P!StageSet = {"prepare_key", "verify_key", "prepare_target", "verify_target", "submit"}
  BY <1>1, <1>2, <1>3
<1>5. P!Place("prepare_key") = 1
  BY <1>1, <1>2 DEF P!Place
<1>6. P!Place("verify_key") = 2
  BY <1>1, <1>2 DEF P!Place
<1>7. P!Place("prepare_target") = 3
  BY <1>1, <1>2 DEF P!Place
<1>8. P!Place("verify_target") = 4
  BY <1>1, <1>2 DEF P!Place
<1>9. P!Place("submit") = 5
  BY <1>1, <1>2 DEF P!Place
<1>. QED BY <1>4, <1>5, <1>6, <1>7, <1>8, <1>9 DEF P!Phases

\* The phases are as many names as there are places.
LEMMA PhaseNames ==
  /\ \A stage \in P!StageSet : P!Place(stage) \in 1 .. 5
  /\ \A s, t \in P!StageSet : P!Place(s) = P!Place(t) => s = t
  /\ \A n \in 1 .. 6 : P!Phases[n] \in P!ToSet(P!Phases) /\ P!Phases[n] # "RETIRED"
  /\ \A m, n \in 1 .. 6 : P!Phases[m] = P!Phases[n] => m = n
<1>1. 1 .. 6 = {1, 2, 3, 4, 5, 6}
  OBVIOUS
<1>2. \A stage \in P!StageSet : P!Place(stage) \in 1 .. 5
  BY Places
<1>3. \A s, t \in P!StageSet : P!Place(s) = P!Place(t) => s = t
  BY Places
<1>4. DOMAIN P!Phases = 1 .. 6
  BY DEF P!Phases
<1>5. \A n \in 1 .. 6 : P!Phases[n] \in P!ToSet(P!Phases)
  BY <1>4 DEF P!ToSet
<1>6. \A n \in 1 .. 6 : P!Phases[n] # "RETIRED"
  BY <1>1, Places
<1>7. \A m, n \in 1 .. 6 : P!Phases[m] = P!Phases[n] => m = n
  BY <1>1, Places
<1>. QED BY <1>2, <1>3, <1>5, <1>6, <1>7

LEMMA KeepsNot ==
  ASSUME NEW d
  PROVE  Keeps(d, d) /\ SameKeys(d, d)
BY DEF Keeps, SameKeys

LEMMA KeepsFurther ==
  ASSUME NEW d, NEW e, NEW f, Keeps(d, e), Keeps(e, f)
  PROVE  Keeps(d, f)
BY DEF Keeps

LEMMA SameKeyAt ==
  ASSUME NEW d, NEW e, NEW k \in Keys, NEW accepted, SameKeys(d, e), KeyAt(d, k, accepted)
  PROVE  KeyAt(e, k, accepted)
BY DEF SameKeys, KeyAt

LEMMA Admitted ==
  ASSUME P!PushAssumption, NEW a \in Admissions
  PROVE  /\ a.job \in Jobs /\ a.parent \in Parents /\ a.epoch \in Nat /\ a.scope \in STRING /\ a.deadline \in Nat
         /\ a # None
BY DEF P!PushAssumption, P!Admission

LEMMA PutFile ==
  ASSUME P!PushAssumption, NEW d, FileInv(d), NEW p \in Parents, d.parents[p] = None,
         NEW e, e = [d EXCEPT !.parents[p] = "live"]
  PROVE  FileInv(e) /\ Keeps(d, e) /\ SameKeys(d, e)
<1>1. /\ e.parents = [d.parents EXCEPT ![p] = "live"] /\ e.children = d.children /\ e.jobs = d.jobs
      /\ e.claims = d.claims /\ e.counters = d.counters
  BY DEF FileInv, FileTyped
<1>2. FileTyped(e)
  BY <1>1 DEF FileInv, FileTyped
<1>3. \A q \in Parents : e.parents[q] = IF q = p THEN "live" ELSE d.parents[q]
  BY <1>1 DEF FileInv, FileTyped
<1>4. \A q \in Parents : Ended(e, q)
  BY <1>1, <1>3 DEF FileInv, Ended
<1>5. \A j \in Jobs : JobAt(e, j)
  BY <1>1 DEF FileInv, JobAt, IsSpent
<1>6. Keeps(d, e)
  BY <1>1 DEF Keeps, IsSpent
<1>7. SameKeys(d, e)
  BY <1>1 DEF SameKeys, VerifiedBy
<1>. QED BY <1>2, <1>4, <1>5, <1>6, <1>7 DEF FileInv

LEMMA BoundFile ==
  ASSUME P!PushAssumption, NEW d, FileInv(d), NEW p \in Parents, NEW c \in Children, NEW expiry \in Nat,
         P!MayBind(d, c, p, expiry), NEW e,
         e = [d EXCEPT !.children[c] = [parent |-> p, expires |-> expiry, retired |-> FALSE]]
  PROVE  FileInv(e) /\ Keeps(d, e) /\ SameKeys(d, e) /\ e.children[c] # None
<1>. DEFINE row == [parent |-> p, expires |-> expiry, retired |-> FALSE]
<1>1. /\ e.parents = d.parents /\ e.children = [d.children EXCEPT ![c] = row] /\ e.jobs = d.jobs
      /\ e.claims = d.claims /\ e.counters = d.counters
  BY DEF FileInv, FileTyped
<1>2. row \in P!Child /\ row # None
  <2>1. row \in P!Child
    BY DEF P!Child
  <2>. QED BY <2>1 DEF P!PushAssumption
<1>3. FileTyped(e)
  BY <1>1, <1>2 DEF FileInv, FileTyped
<1>4. \A x \in Children : e.children[x] = IF x = c THEN row ELSE d.children[x]
  BY <1>1 DEF FileInv, FileTyped
<1>5. d.parents[p] = "live" /\ d.children[c] = None
  BY DEF P!MayBind, P!LiveParent
<1>6. \A q \in Parents : Ended(e, q)
  BY <1>1, <1>4, <1>5 DEF FileInv, Ended
<1>7. \A j \in Jobs : JobAt(e, j)
  BY <1>1 DEF FileInv, JobAt, IsSpent
<1>8. Keeps(d, e)
  BY <1>1, <1>4, <1>5 DEF Keeps, IsSpent
<1>9. SameKeys(d, e)
  BY <1>1 DEF SameKeys, VerifiedBy
<1>. QED BY <1>2, <1>3, <1>4, <1>6, <1>7, <1>8, <1>9 DEF FileInv

LEMMA CreatedFile ==
  ASSUME P!PushAssumption, NEW d, FileInv(d), NEW a \in Admissions, P!MayCreate(d, a), NEW e, e = P!Created(d, a)
  PROVE  FileInv(e) /\ Keeps(d, e) /\ SameKeys(d, e)
<1>. DEFINE row == [parent |-> a.parent, epoch |-> a.epoch, scope |-> a.scope, deadline |-> a.deadline,
                    phase |-> P!Phases[1], revision |-> 1, key |-> None]
<1>1. /\ e.parents = d.parents /\ e.children = d.children /\ e.jobs = [d.jobs EXCEPT ![a.job] = row]
      /\ e.claims = d.claims /\ e.counters = d.counters
  BY DEF FileInv, FileTyped, P!Created
<1>2. row \in P!Job /\ row # None
  <2>1. row \in P!Job
    BY Admitted, PhaseNames DEF P!Job
  <2>. QED BY <2>1 DEF P!PushAssumption
<1>3. FileTyped(e)
  <2>. HIDE DEF row
  <2>1. e.jobs \in [Jobs -> P!Job \cup {None}]
    BY <1>1, <1>2 DEF FileInv, FileTyped
  <2>. QED BY <1>1, <2>1 DEF FileInv, FileTyped, P!Created
<1>4. \A j \in Jobs : e.jobs[j] = IF j = a.job THEN row ELSE d.jobs[j]
  BY <1>1 DEF FileInv, FileTyped
<1>5. d.parents[a.parent] = "live" /\ d.jobs[a.job] = None
  BY DEF P!MayCreate, P!ParentFits, P!LiveParent, P!Binding
<1>6. \A q \in Parents : Ended(e, q)
  BY <1>1, <1>4, <1>5 DEF FileInv, Ended
<1>7. ASSUME NEW j \in Jobs
      PROVE  JobAt(e, j)
  <2>1. JobAt(d, j)
    BY DEF FileInv
  <2>2. CASE j = a.job
    <3>1. \A stage \in P!StageSet : e.claims[j][stage] = None
      BY <1>1, <1>5, <2>1, <2>2 DEF JobAt
    <3>2. e.jobs[j] = row
      BY <1>4, <2>2
    <3>3. row.revision = 1 /\ row.phase = P!Phases[1]
      OBVIOUS
    <3>4. \A stage \in P!StageSet : ~(P!Place(stage) < 1)
      BY PhaseNames
    <3>. QED BY <3>1, <3>2, <3>3, <3>4 DEF JobAt, IsSpent
  <2>3. CASE j # a.job
    BY <1>1, <1>4, <2>1, <2>3 DEF JobAt, IsSpent
  <2>. QED BY <2>2, <2>3
<1>8. Keeps(d, e)
  BY <1>1 DEF Keeps, IsSpent
<1>9. SameKeys(d, e)
  <2>1. a.job \in Jobs /\ None \notin Keys
    BY Admitted DEF P!PushAssumption
  <2>2. ASSUME NEW k \in Keys
        PROVE  VerifiedBy(e, k) = VerifiedBy(d, k)
    <3>1. ASSUME NEW c \in Jobs \X {"verify_key", "verify_target"}
          PROVE  (e.jobs[c[1]] # None /\ e.jobs[c[1]].key = k) <=> (d.jobs[c[1]] # None /\ d.jobs[c[1]].key = k)
      BY <1>4, <1>5, <2>1
    <3>. QED BY <1>1, <3>1 DEF VerifiedBy
  <2>. QED BY <1>1, <2>2 DEF SameKeys
<1>. QED BY <1>3, <1>6, <1>7, <1>8, <1>9 DEF FileInv

LEMMA ReservedFile ==
  ASSUME P!PushAssumption, NEW d, FileInv(d), NEW a \in Admissions, NEW stage \in P!StageSet,
         P!MayReserve(d, a, stage), NEW e, e = P!Reserved(d, a, stage)
  PROVE  FileInv(e) /\ Keeps(d, e) /\ SameKeys(d, e)
<1>. DEFINE row == [revision |-> d.jobs[a.job].revision, outcome |-> "RESERVED"]
<1>0. a.job \in Jobs /\ a.parent \in Parents
  BY Admitted
<1>1. /\ e.parents = d.parents /\ e.children = d.children /\ e.jobs = d.jobs
      /\ e.claims = [d.claims EXCEPT ![a.job] = [d.claims[a.job] EXCEPT ![stage] = row]] /\ e.counters = d.counters
  BY DEF FileInv, FileTyped, P!Reserved
<1>2. /\ d.jobs[a.job] # None /\ d.jobs[a.job].parent = a.parent /\ d.claims[a.job][stage] = None
      /\ d.jobs[a.job].phase = P!Phases[P!Place(stage)] /\ d.parents[a.parent] = "live"
  BY DEF P!MayReserve, P!JobFits, P!ParentFits, P!LiveParent, P!Binding
<1>3. JobAt(d, a.job) /\ d.jobs[a.job].revision = P!Place(stage)
  <2>1. JobAt(d, a.job)
    BY <1>0 DEF FileInv
  <2>2. P!Place(stage) \in 1 .. 6 /\ d.jobs[a.job].revision \in 1 .. 6
    BY <1>2, <2>1, PhaseNames DEF JobAt
  <2>3. P!Phases[d.jobs[a.job].revision] = P!Phases[P!Place(stage)]
    BY <1>2, <2>1, <2>2, PhaseNames DEF JobAt
  <2>. QED BY <2>1, <2>2, <2>3, PhaseNames
<1>4. row \in P!Claim /\ row # None
  <2>1. row.revision \in Nat \ {0}
    BY <1>3, PhaseNames
  <2>2. row \in P!Claim
    BY <2>1 DEF P!Claim
  <2>. QED BY <2>2 DEF P!PushAssumption
<1>5. \A j \in Jobs, s \in P!StageSet : e.claims[j][s] = IF j = a.job /\ s = stage THEN row ELSE d.claims[j][s]
  BY <1>0, <1>1 DEF FileInv, FileTyped
<1>6. FileTyped(e)
  <2>1. d.claims \in [Jobs -> [P!StageSet -> P!Claim \cup {None}]]
    BY DEF FileInv, FileTyped
  <2>2. [d.claims[a.job] EXCEPT ![stage] = row] \in [P!StageSet -> P!Claim \cup {None}]
    BY <1>0, <1>4, <2>1
  <2>3. e.claims \in [Jobs -> [P!StageSet -> P!Claim \cup {None}]]
    BY <1>1, <2>1, <2>2
  <2>. QED BY <1>1, <2>3 DEF FileInv, FileTyped, P!Reserved
<1>7. \A j \in Jobs, s \in P!StageSet : IsSpent(e, j, s) <=> IsSpent(d, j, s)
  BY <1>2, <1>4, <1>5 DEF IsSpent
<1>8. ASSUME NEW j \in Jobs
      PROVE  JobAt(e, j)
  <2>1. JobAt(d, j)
    BY DEF FileInv
  <2>2. ASSUME NEW s \in P!StageSet, e.claims[j][s] # None
        PROVE  e.jobs[j] # None /\ e.claims[j][s].revision = P!Place(s)
    <3>1. CASE j = a.job /\ s = stage
      BY <1>1, <1>2, <1>3, <1>5, <3>1
    <3>2. CASE ~(j = a.job /\ s = stage)
      BY <1>1, <1>5, <2>1, <2>2, <3>2 DEF JobAt
    <3>. QED BY <3>1, <3>2
  <2>. QED BY <1>1, <1>7, <2>1, <2>2 DEF JobAt
<1>9. ASSUME NEW q \in Parents
      PROVE  Ended(e, q)
  <2>1. Ended(d, q)
    BY DEF FileInv
  <2>2. d.parents[q] = "retired" => q # a.parent
    BY <1>2
  <2>. QED BY <1>1, <1>2, <1>5, <2>1, <2>2 DEF Ended
<1>10. Keeps(d, e)
  BY <1>1, <1>7 DEF Keeps
<1>11. SameKeys(d, e)
  <2>1. ASSUME NEW c \in Jobs \X {"verify_key", "verify_target"}
        PROVE  (e.claims[c[1]][c[2]] # None /\ e.claims[c[1]][c[2]].outcome = "COMMITTED") <=>
               (d.claims[c[1]][c[2]] # None /\ d.claims[c[1]][c[2]].outcome = "COMMITTED")
    <3>1. c[1] \in Jobs /\ c[2] \in P!StageSet
      BY Places
    <3>. QED BY <1>2, <1>5, <3>1
  <2>2. \A k \in Keys : VerifiedBy(e, k) = VerifiedBy(d, k)
    BY <1>1, <2>1 DEF VerifiedBy
  <2>. QED BY <1>1, <2>2 DEF SameKeys
<1>. QED BY <1>6, <1>8, <1>9, <1>10, <1>11 DEF FileInv

LEMMA RetiredFile ==
  ASSUME P!PushAssumption, NEW d, FileInv(d), NEW p \in Parents, NEW e, e = P!RetiredIn(d, p)
  PROVE  FileInv(e) /\ Keeps(d, e) /\ SameKeys(d, e)
<1>. DEFINE Of(j) == d.jobs[j] # None /\ d.jobs[j].parent = p
            Child(c) == IF d.children[c] # None /\ d.children[c].parent = p
                          THEN [d.children[c] EXCEPT !.retired = TRUE] ELSE d.children[c]
            Job(j) == IF Of(j) THEN [d.jobs[j] EXCEPT !.phase = "RETIRED"] ELSE d.jobs[j]
            Claim(j, s) == IF Of(j) /\ d.claims[j][s] # None /\ d.claims[j][s].outcome = "RESERVED"
                             THEN [d.claims[j][s] EXCEPT !.outcome = "RETIRED"] ELSE d.claims[j][s]
<1>1. CASE d.parents[p] = None
  BY <1>1, KeepsNot DEF P!RetiredIn
<1>2. CASE d.parents[p] # None
  <2>1. /\ e.parents = [d.parents EXCEPT ![p] = "retired"] /\ e.counters = d.counters
        /\ e.children = [c \in Children |-> Child(c)] /\ e.jobs = [j \in Jobs |-> Job(j)]
        /\ e.claims = [j \in Jobs |-> [s \in P!StageSet |-> Claim(j, s)]]
    BY <1>2 DEF FileInv, FileTyped, P!RetiredIn
  <2>0. e = [parents |-> e.parents, children |-> e.children, jobs |-> e.jobs, claims |-> e.claims,
             counters |-> e.counters]
    BY <1>2 DEF FileInv, FileTyped, P!RetiredIn
  <2>2. ASSUME NEW c \in Children
        PROVE  /\ Child(c) \in P!Child \cup {None} /\ (Child(c) = None <=> d.children[c] = None)
               /\ Child(c) # None => Child(c).parent = d.children[c].parent
               /\ Child(c) # None => (Child(c).retired = d.children[c].retired \/ Child(c).retired)
               /\ d.children[c] # None /\ d.children[c].parent = p => Child(c).retired
    <3>1. d.children[c] \in P!Child \cup {None} /\ None \notin P!Child
      BY DEF FileInv, FileTyped, P!PushAssumption
    <3>. QED BY <3>1 DEF P!Child
  <2>3. ASSUME NEW j \in Jobs
        PROVE  /\ Job(j) \in P!Job \cup {None} /\ (Job(j) = None <=> d.jobs[j] = None)
               /\ Job(j) # None => /\ Job(j).parent = d.jobs[j].parent /\ Job(j).revision = d.jobs[j].revision
                                   /\ Job(j).key = d.jobs[j].key
                                   /\ Job(j).phase = IF Of(j) THEN "RETIRED" ELSE d.jobs[j].phase
    <3>1. d.jobs[j] \in P!Job \cup {None} /\ None \notin P!Job
      BY DEF FileInv, FileTyped, P!PushAssumption
    <3>. QED BY <3>1 DEF P!Job
  <2>4. ASSUME NEW j \in Jobs, NEW s \in P!StageSet
        PROVE  /\ Claim(j, s) \in P!Claim \cup {None} /\ (Claim(j, s) = None <=> d.claims[j][s] = None)
               /\ Claim(j, s) # None =>
                    /\ Claim(j, s).revision = d.claims[j][s].revision
                    /\ Claim(j, s).outcome =
                         IF Of(j) /\ d.claims[j][s].outcome = "RESERVED" THEN "RETIRED" ELSE d.claims[j][s].outcome
    <3>1. d.claims[j][s] \in P!Claim \cup {None} /\ None \notin P!Claim
      BY DEF FileInv, FileTyped, P!PushAssumption
    <3>. QED BY <3>1 DEF P!Claim
  <2>. HIDE DEF Child, Job, Claim
  <2>5. FileTyped(e)
    <3>1. e.parents \in [Parents -> {None, "live", "retired"}]
      BY <2>1 DEF FileInv, FileTyped
    <3>2. e.children \in [Children -> P!Child \cup {None}] /\ e.jobs \in [Jobs -> P!Job \cup {None}]
      BY <2>1, <2>2, <2>3
    <3>3. e.claims \in [Jobs -> [P!StageSet -> P!Claim \cup {None}]]
      BY <2>1, <2>4
    <3>. QED BY <2>0, <2>1, <3>1, <3>2, <3>3 DEF FileInv, FileTyped
  <2>6. /\ \A j \in Jobs : e.jobs[j] = Job(j)
        /\ \A c \in Children : e.children[c] = Child(c)
        /\ \A j \in Jobs, s \in P!StageSet : e.claims[j][s] = Claim(j, s)
        /\ \A q \in Parents : e.parents[q] = IF q = p THEN "retired" ELSE d.parents[q]
    BY <2>1 DEF FileInv, FileTyped
  <2>7. \A j \in Jobs, s \in P!StageSet : IsSpent(e, j, s) <=> IsSpent(d, j, s)
    BY <2>4, <2>6 DEF IsSpent
  <2>8. ASSUME NEW j \in Jobs
        PROVE  JobAt(e, j)
    <3>1. JobAt(d, j)
      BY DEF FileInv
    <3>2. \A s \in P!StageSet : e.claims[j][s] # None => e.jobs[j] # None /\ e.claims[j][s].revision = P!Place(s)
      BY <2>3, <2>4, <2>6, <3>1 DEF JobAt
    <3>3. e.jobs[j] # None =>
            /\ d.jobs[j] # None /\ e.jobs[j].revision = d.jobs[j].revision
            /\ e.jobs[j].phase \in {d.jobs[j].phase, "RETIRED"}
      BY <2>3, <2>6
    <3>. QED BY <2>7, <3>1, <3>2, <3>3 DEF JobAt
  <2>9. ASSUME NEW q \in Parents
        PROVE  Ended(e, q)
    <3>1. Ended(d, q)
      BY DEF FileInv
    <3>2. CASE q = p
      <4>1. ASSUME NEW j \in Jobs, e.jobs[j] # None, e.jobs[j].parent = q
            PROVE  /\ e.jobs[j].phase = "RETIRED"
                   /\ \A s \in P!StageSet : e.claims[j][s] = None \/ e.claims[j][s].outcome # "RESERVED"
        BY <2>3, <2>4, <2>6, <3>2, <4>1
      <4>2. ASSUME NEW c \in Children, e.children[c] # None, e.children[c].parent = q
            PROVE  e.children[c].retired
        BY <2>2, <2>6, <3>2, <4>2
      <4>. QED BY <4>1, <4>2 DEF Ended
    <3>3. CASE q # p /\ d.parents[q] = "retired"
      <4>1. ASSUME NEW j \in Jobs, e.jobs[j] # None, e.jobs[j].parent = q
            PROVE  /\ e.jobs[j].phase = "RETIRED"
                   /\ \A s \in P!StageSet : e.claims[j][s] = None \/ e.claims[j][s].outcome # "RESERVED"
        BY <2>3, <2>4, <2>6, <3>1, <3>3, <4>1 DEF Ended
      <4>2. ASSUME NEW c \in Children, e.children[c] # None, e.children[c].parent = q
            PROVE  e.children[c].retired
        BY <2>2, <2>6, <3>1, <3>3, <4>2 DEF Ended
      <4>. QED BY <4>1, <4>2 DEF Ended
    <3>4. CASE q # p /\ d.parents[q] # "retired"
      BY <2>6, <3>4 DEF Ended
    <3>. QED BY <3>2, <3>3, <3>4
  <2>10. Keeps(d, e)
    BY <2>2, <2>6, <2>7 DEF Keeps
  <2>11. SameKeys(d, e)
    <3>1. ASSUME NEW k \in Keys
          PROVE  VerifiedBy(e, k) = VerifiedBy(d, k)
      <4>1. ASSUME NEW c \in Jobs \X {"verify_key", "verify_target"}
            PROVE  /\ (e.jobs[c[1]] # None /\ e.jobs[c[1]].key = k) <=> (d.jobs[c[1]] # None /\ d.jobs[c[1]].key = k)
                   /\ (e.claims[c[1]][c[2]] # None /\ e.claims[c[1]][c[2]].outcome = "COMMITTED") <=>
                      (d.claims[c[1]][c[2]] # None /\ d.claims[c[1]][c[2]].outcome = "COMMITTED")
        <5>1. c[1] \in Jobs /\ c[2] \in P!StageSet
          BY Places
        <5>. QED BY <2>3, <2>4, <2>6, <5>1
      <4>. QED BY <4>1 DEF VerifiedBy
    <3>. QED BY <2>1, <3>1 DEF SameKeys
  <2>. QED BY <2>5, <2>8, <2>9, <2>10, <2>11 DEF FileInv
<1>. QED BY <1>1, <1>2

\* What a completion finds.
LEMMA CompletedFinds ==
  ASSUME P!PushAssumption, NEW d, FileInv(d), NEW s \in P!Step, P!MayComplete(d, s)
  PROVE  /\ s.adm \in Admissions /\ s.adm.job \in Jobs /\ s.adm.parent \in Parents /\ s.stage \in P!StageSet
         /\ d.jobs[s.adm.job] # None /\ d.jobs[s.adm.job] \in P!Job /\ d.jobs[s.adm.job].parent = s.adm.parent
         /\ d.parents[s.adm.parent] = "live" /\ d.jobs[s.adm.job].revision = P!Place(s.stage)
         /\ d.claims[s.adm.job][s.stage] # None /\ d.claims[s.adm.job][s.stage] \in P!Claim
         /\ d.claims[s.adm.job][s.stage].outcome = "RESERVED"
         /\ P!Verifies(s.stage) <=> s.proof # None
         /\ s.proof # None => /\ s.proof \in P!Proof /\ s.proof.key \in Keys /\ s.proof.value \in Nat
                              /\ P!CounterFits(d, s)
<1>1. s.adm \in Admissions /\ s.stage \in P!StageSet /\ s.proof \in P!Proof \cup {None}
  BY DEF P!Step
<1>2. s.adm.job \in Jobs /\ s.adm.parent \in Parents
  BY <1>1, Admitted
<1>3. /\ d.jobs[s.adm.job] # None /\ d.jobs[s.adm.job].parent = s.adm.parent /\ d.parents[s.adm.parent] = "live"
      /\ d.claims[s.adm.job][s.stage] # None /\ d.claims[s.adm.job][s.stage].outcome = "RESERVED"
      /\ d.jobs[s.adm.job].revision = d.claims[s.adm.job][s.stage].revision
      /\ P!Verifies(s.stage) <=> s.proof # None
      /\ s.proof # None => P!CounterFits(d, s)
  BY DEF P!MayComplete, P!JobFits, P!ParentFits, P!LiveParent, P!Binding
<1>4. JobAt(d, s.adm.job)
  BY <1>2 DEF FileInv
<1>5. d.jobs[s.adm.job].revision = P!Place(s.stage)
  BY <1>1, <1>3, <1>4 DEF JobAt
<1>6. d.jobs[s.adm.job] \in P!Job /\ d.claims[s.adm.job][s.stage] \in P!Claim
  BY <1>1, <1>2, <1>3 DEF FileInv, FileTyped
<1>7. s.proof # None => s.proof \in P!Proof /\ s.proof.key \in Keys /\ s.proof.value \in Nat
  BY <1>1 DEF P!Proof, P!PushAssumption
<1>. QED BY <1>1, <1>2, <1>3, <1>5, <1>6, <1>7

LEMMA CompletedRows ==
  ASSUME P!PushAssumption, NEW d, FileInv(d), NEW s \in P!Step, P!MayComplete(d, s), NEW e, e = P!Completed(d, s)
  PROVE  /\ FileTyped(e) /\ e.parents = d.parents /\ e.children = d.children /\ e.counters = P!Counted(d, s)
         /\ \A j \in Jobs \ {s.adm.job} : e.jobs[j] = d.jobs[j]
         /\ LET row == e.jobs[s.adm.job]
            IN /\ row # None /\ row.parent = d.jobs[s.adm.job].parent
               /\ row.revision = d.jobs[s.adm.job].revision + 1 /\ row.phase = P!Phases[row.revision]
               /\ row.key = IF s.stage = "verify_key" THEN s.proof.key ELSE d.jobs[s.adm.job].key
         /\ \A j \in Jobs, t \in P!StageSet : ~(j = s.adm.job /\ t = s.stage) => e.claims[j][t] = d.claims[j][t]
         /\ LET c == e.claims[s.adm.job][s.stage]
            IN /\ c # None /\ c.revision = d.claims[s.adm.job][s.stage].revision
               /\ c.outcome = IF s.stage = "submit" THEN "SUBMIT_SPENT" ELSE "COMMITTED"
<1>. DEFINE a == s.adm
            key == IF s.stage = "verify_key" THEN s.proof.key ELSE d.jobs[a.job].key
            row == [d.jobs[a.job] EXCEPT !.phase = P!Phases[P!Place(s.stage) + 1],
                                         !.revision = d.jobs[a.job].revision + 1, !.key = key]
            outcome == IF s.stage = "submit" THEN "SUBMIT_SPENT" ELSE "COMMITTED"
            claim == [d.claims[a.job][s.stage] EXCEPT !.outcome = outcome]
<1>1. /\ a \in Admissions /\ a.job \in Jobs /\ a.parent \in Parents /\ s.stage \in P!StageSet
      /\ d.jobs[a.job] \in P!Job /\ d.jobs[a.job].revision = P!Place(s.stage)
      /\ d.claims[a.job][s.stage] \in P!Claim
      /\ P!Verifies(s.stage) <=> s.proof # None
      /\ s.proof # None => /\ s.proof \in P!Proof /\ s.proof.key \in Keys /\ s.proof.value \in Nat
                           /\ P!CounterFits(d, s)
  BY CompletedFinds
<1>2. /\ e.parents = d.parents /\ e.children = d.children /\ e.counters = P!Counted(d, s)
      /\ e.jobs = [d.jobs EXCEPT ![a.job] = row]
      /\ e.claims = [d.claims EXCEPT ![a.job] = [d.claims[a.job] EXCEPT ![s.stage] = claim]]
  BY DEF FileInv, FileTyped, P!Completed
<1>3. e = [parents |-> e.parents, children |-> e.children, jobs |-> e.jobs, claims |-> e.claims,
           counters |-> e.counters]
  BY DEF FileInv, FileTyped, P!Completed
<1>4. P!Place(s.stage) + 1 \in 1 .. 6 /\ P!Phases[P!Place(s.stage) + 1] \in P!ToSet(P!Phases)
  <2>1. P!Place(s.stage) \in 1 .. 5
    BY <1>1, PhaseNames
  <2>2. P!Place(s.stage) + 1 \in 1 .. 6
    BY <2>1
  <2>. QED BY <2>2, PhaseNames
<1>5. /\ row \in P!Job /\ row.parent = d.jobs[a.job].parent /\ row.key = key
      /\ row.revision = d.jobs[a.job].revision + 1 /\ row.phase = P!Phases[row.revision]
  <2>1. key \in Keys \cup {None}
    BY <1>1 DEF P!Verifies, P!Job
  <2>2. PICK phase, rev, n : /\ phase = P!Phases[P!Place(s.stage) + 1] /\ rev = d.jobs[a.job].revision + 1
                             /\ n = row
    OBVIOUS
  <2>. HIDE DEF key
  <2>3. n = [d.jobs[a.job] EXCEPT !.phase = phase, !.revision = rev, !.key = key]
    BY <2>2
  <2>. HIDE DEF row
  <2>4. rev \in Nat \ {0} /\ phase \in P!ToSet(P!Phases)
    <3>1. phase \in P!ToSet(P!Phases)
      BY <1>4, <2>2
    <3>2. rev = P!Place(s.stage) + 1
      BY <1>1, <2>2
    <3>3. rev \in 1 .. 6
      BY <1>4, <3>2
    <3>. QED BY <3>1, <3>3
  <2>5. n \in P!Job /\ n.parent = d.jobs[a.job].parent /\ n.key = key /\ n.revision = rev /\ n.phase = phase
    <3>1. PICK old, ke : old = d.jobs[a.job] /\ ke = key
      OBVIOUS
    <3>2. old \in P!Job /\ ke \in Keys \cup {None}
      BY <1>1, <2>1, <3>1
    <3>3. n = [old EXCEPT !.phase = phase, !.revision = rev, !.key = ke]
      BY <2>3, <3>1, Zenon
    <3>4. PICK p, ep, sc, dl, ph, re, k : old = [parent |-> p, epoch |-> ep, scope |-> sc, deadline |-> dl, phase |-> ph,
                                                 revision |-> re, key |-> k]
      BY <3>2 DEF P!Job
    <3>5. n = [parent |-> p, epoch |-> ep, scope |-> sc, deadline |-> dl, phase |-> phase, revision |-> rev, key |-> ke]
      BY <3>3, <3>4, Zenon
    <3>6. p \in Parents /\ ep \in Nat /\ sc \in STRING /\ dl \in Nat
      BY <3>2, <3>4 DEF P!Job
    <3>7. n \in P!Job
      BY <2>4, <3>2, <3>5, <3>6 DEF P!Job
    <3>8. n.parent = old.parent /\ n.key = ke /\ n.revision = rev /\ n.phase = phase
      BY <3>4, <3>5
    <3>. QED BY <3>1, <3>7, <3>8
  <2>. QED BY <1>1, <2>2, <2>5
<1>6. claim \in P!Claim /\ claim.revision = d.claims[a.job][s.stage].revision /\ claim.outcome = outcome
  <2>1. outcome \in {"COMMITTED", "SUBMIT_SPENT"}
    OBVIOUS
  <2>. HIDE DEF outcome
  <2>. QED BY <1>1, <2>1 DEF P!Claim
<1>7. row # None /\ claim # None
  BY <1>5, <1>6 DEF P!PushAssumption
<1>8. P!Counted(d, s) \in [Keys -> P!Counter \cup {None}]
  <2>1. d.counters \in [Keys -> P!Counter \cup {None}]
    BY DEF FileInv, FileTyped
  <2>2. CASE s.proof = None
    BY <2>1, <2>2 DEF P!Counted
  <2>3. CASE s.proof # None
    <3>. DEFINE k == s.proof.key
                v == s.proof.value
                new == [scope |-> a.scope, counter |-> v,
                        revision |-> IF d.counters[k] = None THEN 1 ELSE d.counters[k].revision + 1]
    <3>1. P!Counted(d, s) = [d.counters EXCEPT ![k] = new]
      BY <2>3 DEF P!Counted
    <3>2. k \in Keys /\ v \in Nat /\ a.scope \in STRING
      BY <1>1, <2>3, Admitted
    <3>3. d.counters[k] # None => d.counters[k].revision \in Nat
      BY <2>1, <3>2 DEF P!Counter
    <3>4. new \in P!Counter
      BY <3>2, <3>3 DEF P!Counter
    <3>. HIDE DEF new
    <3>. QED BY <2>1, <3>1, <3>4
  <2>. QED BY <2>2, <2>3
<1>. HIDE DEF key, row, outcome, claim
<1>9. e.jobs \in [Jobs -> P!Job \cup {None}]
  BY <1>2, <1>5 DEF FileInv, FileTyped
<1>10. e.claims \in [Jobs -> [P!StageSet -> P!Claim \cup {None}]]
  <2>1. d.claims \in [Jobs -> [P!StageSet -> P!Claim \cup {None}]]
    BY DEF FileInv, FileTyped
  <2>2. [d.claims[a.job] EXCEPT ![s.stage] = claim] \in [P!StageSet -> P!Claim \cup {None}]
    BY <1>1, <1>6, <2>1
  <2>. QED BY <1>2, <2>1, <2>2
<1>11. FileTyped(e)
  <2>1. e.parents \in [Parents -> {None, "live", "retired"}] /\ e.children \in [Children -> P!Child \cup {None}]
    BY <1>2 DEF FileInv, FileTyped
  <2>. QED BY <1>2, <1>3, <1>8, <1>9, <1>10, <2>1 DEF FileTyped
<1>12. e.jobs[a.job] = row /\ \A j \in Jobs \ {a.job} : e.jobs[j] = d.jobs[j]
  BY <1>1, <1>2 DEF FileInv, FileTyped
<1>13. /\ e.claims[a.job][s.stage] = claim
       /\ \A j \in Jobs, t \in P!StageSet : ~(j = a.job /\ t = s.stage) => e.claims[j][t] = d.claims[j][t]
  BY <1>1, <1>2 DEF FileInv, FileTyped
<1>. QED BY <1>2, <1>5, <1>6, <1>7, <1>11, <1>12, <1>13 DEF key, outcome

LEMMA CompletedFile ==
  ASSUME P!PushAssumption, NEW d, FileInv(d), NEW s \in P!Step, P!MayComplete(d, s), NEW e, e = P!Completed(d, s)
  PROVE  /\ FileInv(e) /\ Keeps(d, e) /\ IsSpent(e, s.adm.job, s.stage) /\ ~IsSpent(d, s.adm.job, s.stage)
         /\ e.jobs[s.adm.job].parent = s.adm.parent
<1>. DEFINE j == s.adm.job
<1>1. /\ j \in Jobs /\ s.adm.parent \in Parents /\ s.stage \in P!StageSet
      /\ d.jobs[j] # None /\ d.jobs[j].parent = s.adm.parent
      /\ d.parents[s.adm.parent] = "live" /\ d.jobs[j].revision = P!Place(s.stage)
      /\ d.claims[j][s.stage] # None /\ d.claims[j][s.stage].outcome = "RESERVED"
  BY CompletedFinds
<1>2. /\ FileTyped(e) /\ e.parents = d.parents /\ e.children = d.children
      /\ \A i \in Jobs \ {j} : e.jobs[i] = d.jobs[i]
      /\ e.jobs[j] # None /\ e.jobs[j].parent = d.jobs[j].parent /\ e.jobs[j].revision = d.jobs[j].revision + 1
      /\ e.jobs[j].phase = P!Phases[e.jobs[j].revision]
      /\ \A i \in Jobs, t \in P!StageSet : ~(i = j /\ t = s.stage) => e.claims[i][t] = d.claims[i][t]
      /\ e.claims[j][s.stage] # None /\ e.claims[j][s.stage].revision = d.claims[j][s.stage].revision
      /\ e.claims[j][s.stage].outcome \in {"COMMITTED", "SUBMIT_SPENT"}
  BY CompletedRows
<1>. HIDE DEF j
<1>3. \A i \in Jobs, t \in P!StageSet : IsSpent(e, i, t) <=> IsSpent(d, i, t) \/ (i = j /\ t = s.stage)
  BY <1>2 DEF IsSpent
<1>4. ~IsSpent(d, j, s.stage)
  BY <1>1 DEF IsSpent
<1>5. ASSUME NEW i \in Jobs
      PROVE  JobAt(e, i)
  <2>1. JobAt(d, i)
    BY DEF FileInv
  <2>2. CASE i # j
    <3>1. e.jobs[i] = d.jobs[i] /\ \A t \in P!StageSet : e.claims[i][t] = d.claims[i][t]
      BY <1>2, <2>2
    <3>2. \A t \in P!StageSet : IsSpent(e, i, t) <=> IsSpent(d, i, t)
      BY <1>3, <2>2
    <3>. QED BY <2>1, <3>1, <3>2 DEF JobAt
  <2>3. CASE i = j
    <3>1. P!Place(s.stage) \in 1 .. 5 /\ \A t \in P!StageSet : P!Place(t) \in 1 .. 5 /\ (P!Place(t) = P!Place(s.stage) => t = s.stage)
      BY <1>1, PhaseNames
    <3>2. e.jobs[j].revision = P!Place(s.stage) + 1
      BY <1>1, <1>2
    <3>3. ASSUME NEW t \in P!StageSet
          PROVE  IsSpent(e, j, t) <=> P!Place(t) < e.jobs[j].revision
      <4>1. IsSpent(d, j, t) <=> P!Place(t) < P!Place(s.stage)
        BY <1>1, <2>1, <2>3 DEF JobAt
      <4>2. t = s.stage => P!Place(t) = P!Place(s.stage)
        OBVIOUS
      <4>3. IsSpent(e, j, t) <=> IsSpent(d, j, t) \/ t = s.stage
        BY <1>1, <1>3
      <4>. QED BY <3>1, <3>2, <4>1, <4>2, <4>3
    <3>4. ASSUME NEW t \in P!StageSet, e.claims[j][t] # None
          PROVE  e.claims[j][t].revision = P!Place(t)
      <4>1. d.claims[j][t] # None => d.claims[j][t].revision = P!Place(t)
        BY <2>1, <2>3 DEF JobAt
      <4>. QED BY <1>1, <1>2, <3>4, <4>1
    <3>5. e.jobs[j].revision \in 1 .. 6
      BY <3>1, <3>2
    <3>. QED BY <1>2, <2>3, <3>3, <3>4, <3>5 DEF JobAt
  <2>. QED BY <2>2, <2>3
<1>6. ASSUME NEW q \in Parents
      PROVE  Ended(e, q)
  <2>1. Ended(d, q)
    BY DEF FileInv
  <2>2. d.parents[q] = "retired" => q # s.adm.parent
    BY <1>1
  <2>3. ASSUME NEW i \in Jobs, e.jobs[i] # None, e.jobs[i].parent = q, q # s.adm.parent
        PROVE  i # j
    BY <1>1, <1>2, <2>3
  <2>4. ASSUME NEW i \in Jobs \ {j}
        PROVE  e.jobs[i] = d.jobs[i] /\ \A t \in P!StageSet : e.claims[i][t] = d.claims[i][t]
    BY <1>2
  <2>5. e.parents[q] = d.parents[q] /\ e.children = d.children
    BY <1>2
  <2>. QED BY <2>1, <2>2, <2>3, <2>4, <2>5 DEF Ended
<1>7. Keeps(d, e)
  BY <1>2, <1>3 DEF Keeps
<1>8. IsSpent(e, j, s.stage) /\ e.jobs[j].parent = s.adm.parent
  BY <1>1, <1>2, <1>3
<1>. QED BY <1>2, <1>4, <1>5, <1>6, <1>7, <1>8 DEF FileInv, j

\* Without a proof no key is touched; with one, its key counts one more.
OneMore(d, e, s) ==
  /\ s.proof = None => SameKeys(d, e)
  /\ s.proof # None =>
       /\ \A k \in Keys \ {s.proof.key} : e.counters[k] = d.counters[k] /\ VerifiedBy(e, k) = VerifiedBy(d, k)
       /\ VerifiedBy(e, s.proof.key) = VerifiedBy(d, s.proof.key) \cup {<<s.adm.job, s.stage>>}
       /\ <<s.adm.job, s.stage>> \notin VerifiedBy(d, s.proof.key)

LEMMA CompletedKeys ==
  ASSUME P!PushAssumption, NEW d, FileInv(d), NEW s \in P!Step, P!MayComplete(d, s), NEW e, e = P!Completed(d, s)
  PROVE  OneMore(d, e, s)
<1>. DEFINE j == s.adm.job
<1>1. /\ j \in Jobs /\ s.stage \in P!StageSet /\ d.jobs[j] # None /\ d.jobs[j].revision = P!Place(s.stage)
      /\ d.claims[j][s.stage] # None /\ d.claims[j][s.stage].outcome = "RESERVED"
      /\ P!Verifies(s.stage) <=> s.proof # None
      /\ s.proof # None => s.proof.key \in Keys /\ P!CounterFits(d, s)
  BY CompletedFinds
<1>2. /\ \A i \in Jobs \ {j} : e.jobs[i] = d.jobs[i]
      /\ e.jobs[j] # None /\ e.jobs[j].key = IF s.stage = "verify_key" THEN s.proof.key ELSE d.jobs[j].key
      /\ \A i \in Jobs, t \in P!StageSet : ~(i = j /\ t = s.stage) => e.claims[i][t] = d.claims[i][t]
      /\ e.claims[j][s.stage] # None
      /\ e.claims[j][s.stage].outcome = IF s.stage = "submit" THEN "SUBMIT_SPENT" ELSE "COMMITTED"
      /\ e.counters = P!Counted(d, s)
  BY CompletedRows
<1>. HIDE DEF j
<1>3. {"verify_key", "verify_target"} \subseteq P!StageSet
  BY Places
<1>4. CASE s.proof = None
  <2>1. s.stage # "verify_key" /\ s.stage # "verify_target"
    BY <1>1, <1>4 DEF P!Verifies
  <2>2. ASSUME NEW c \in Jobs \X {"verify_key", "verify_target"}
        PROVE  /\ e.claims[c[1]][c[2]] = d.claims[c[1]][c[2]]
               /\ (e.jobs[c[1]] # None <=> d.jobs[c[1]] # None)
               /\ (d.jobs[c[1]] # None => e.jobs[c[1]].key = d.jobs[c[1]].key)
    BY <1>1, <1>2, <1>3, <2>1
  <2>3. \A k \in Keys : VerifiedBy(e, k) = VerifiedBy(d, k)
    BY <2>2 DEF VerifiedBy
  <2>4. e.counters = d.counters
    BY <1>2, <1>4 DEF P!Counted
  <2>. QED BY <1>4, <2>3, <2>4 DEF SameKeys, OneMore
<1>5. CASE s.proof # None
  <2>. DEFINE k == s.proof.key
  <2>1. s.stage \in {"verify_key", "verify_target"} /\ k \in Keys
    BY <1>1, <1>5 DEF P!Verifies
  <2>2. s.stage = "verify_target" => d.jobs[j].key = k
    BY <1>1, <1>5 DEF P!CounterFits, j
  <2>3. ASSUME NEW t \in {"verify_key", "verify_target"}, d.claims[j][t] # None, d.claims[j][t].outcome = "COMMITTED"
        PROVE  s.stage = "verify_target" /\ t = "verify_key"
    <3>1. JobAt(d, j) /\ t \in P!StageSet
      BY <1>1, <1>3 DEF FileInv
    <3>2. IsSpent(d, j, t)
      BY <2>3 DEF IsSpent
    <3>3. P!Place(t) < P!Place(s.stage)
      BY <1>1, <3>1, <3>2 DEF JobAt
    <3>. QED BY <2>1, <3>3, Places
  <2>4. e.jobs[j].key = k /\ e.claims[j][s.stage].outcome = "COMMITTED" /\ e.claims[j][s.stage] # None
    BY <1>2, <2>1, <2>2
  <2>. HIDE DEF k
  <2>5. ASSUME NEW q \in Keys, NEW i \in Jobs, NEW t \in {"verify_key", "verify_target"}
        PROVE  (e.jobs[i] # None /\ e.jobs[i].key = q /\ e.claims[i][t] # None /\ e.claims[i][t].outcome = "COMMITTED") <=>
               \/ d.jobs[i] # None /\ d.jobs[i].key = q /\ d.claims[i][t] # None /\ d.claims[i][t].outcome = "COMMITTED"
               \/ q = k /\ i = j /\ t = s.stage
    <3>1. CASE i # j
      BY <1>2, <1>3, <3>1
    <3>2. CASE i = j /\ t = s.stage
      BY <1>1, <1>2, <2>4, <3>2
    <3>3. CASE i = j /\ t # s.stage
      <4>1. e.claims[i][t] = d.claims[i][t]
        BY <1>1, <1>2, <1>3, <3>3
      <4>2. CASE d.claims[j][t] # None /\ d.claims[j][t].outcome = "COMMITTED"
        <5>1. s.stage = "verify_target"
          BY <2>3, <4>2
        <5>. QED BY <1>1, <1>2, <2>2, <2>4, <3>3, <4>1, <5>1
      <4>3. CASE ~(d.claims[j][t] # None /\ d.claims[j][t].outcome = "COMMITTED")
        BY <3>3, <4>1, <4>3
      <4>. QED BY <4>2, <4>3
    <3>. QED BY <3>1, <3>2, <3>3
  <2>6. ASSUME NEW q \in Keys
        PROVE  VerifiedBy(e, q) = VerifiedBy(d, q) \cup (IF q = k THEN {<<j, s.stage>>} ELSE {})
    <3>1. ASSUME NEW c
          PROVE  c \in VerifiedBy(e, q) <=> c \in VerifiedBy(d, q) \/ (q = k /\ c = <<j, s.stage>>)
      <4>1. CASE c \in Jobs \X {"verify_key", "verify_target"}
        <5>1. c[1] \in Jobs /\ c[2] \in {"verify_key", "verify_target"} /\ c = <<c[1], c[2]>>
          BY <4>1
        <5>2. c = <<j, s.stage>> <=> c[1] = j /\ c[2] = s.stage
          BY <5>1
        <5>. QED BY <2>5, <4>1, <5>1, <5>2 DEF VerifiedBy
      <4>2. CASE c \notin Jobs \X {"verify_key", "verify_target"}
        <5>1. c # <<j, s.stage>>
          BY <1>1, <2>1, <4>2
        <5>. QED BY <4>2, <5>1 DEF VerifiedBy
      <4>. QED BY <4>1, <4>2
    <3>. QED BY <3>1
  <2>7. <<j, s.stage>> \notin VerifiedBy(d, k)
    BY <1>1 DEF VerifiedBy
  <2>8. \A q \in Keys \ {k} : e.counters[q] = d.counters[q]
    <3>1. d.counters \in [Keys -> P!Counter \cup {None}]
      BY DEF FileInv, FileTyped
    <3>. QED BY <1>2, <1>5, <3>1 DEF P!Counted, k
  <2>9. \A q \in Keys \ {k} : VerifiedBy(e, q) = VerifiedBy(d, q)
    BY <2>6
  <2>10. VerifiedBy(e, k) = VerifiedBy(d, k) \cup {<<j, s.stage>>}
    BY <2>1, <2>6 DEF k
  <2>. QED BY <1>5, <2>7, <2>8, <2>9, <2>10 DEF k, j, OneMore
<1>. QED BY <1>4, <1>5 DEF j

LEMMA CompletedCounter ==
  ASSUME P!PushAssumption, NEW d, FileInv(d), NEW s \in P!Step, P!MayComplete(d, s), NEW e, e = P!Completed(d, s),
         s.proof # None, NEW accepted, KeyAt(d, s.proof.key, accepted)
  PROVE  KeyAt(e, s.proof.key, accepted \cup {s.proof.value}) /\ e.counters # d.counters
<1>. DEFINE k == s.proof.key
            v == s.proof.value
<1>1. k \in Keys /\ v \in Nat /\ P!CounterFits(d, s) /\ P!Verifies(s.stage)
  BY CompletedFinds
<1>2. /\ VerifiedBy(e, k) = VerifiedBy(d, k) \cup {<<s.adm.job, s.stage>>}
      /\ <<s.adm.job, s.stage>> \notin VerifiedBy(d, k)
  BY CompletedKeys DEF OneMore
<1>3. IsFiniteSet(VerifiedBy(d, k)) /\ IsFiniteSet(accepted) /\ Cardinality(VerifiedBy(d, k)) = Cardinality(accepted)
  BY DEF KeyAt
<1>4. IsFiniteSet(VerifiedBy(e, k)) /\ Cardinality(VerifiedBy(e, k)) = Cardinality(VerifiedBy(d, k)) + 1
  BY <1>2, <1>3, FS_AddElement
<1>5. Cardinality(accepted) \in Nat
  BY <1>3, FS_CardinalityType
<1>6. d.counters \in [Keys -> P!Counter \cup {None}] /\ e.counters = P!Counted(d, s) /\ None \notin P!Counter
  BY CompletedRows DEF FileInv, FileTyped, P!PushAssumption
<1>7. CASE d.counters[k] = None
  <2>1. VerifiedBy(d, k) = {} /\ Cardinality(VerifiedBy(d, k)) = 0
    BY <1>7, FS_EmptySet DEF KeyAt
  <2>2. accepted = {}
    BY <1>3, <2>1, FS_EmptySet
  <2>3. e.counters[k] = [scope |-> s.adm.scope, counter |-> v, revision |-> 1]
    BY <1>1, <1>6, <1>7 DEF P!Counted
  <2>4. e.counters[k] # None
    <3>1. e.counters[k] \in P!Counter
      <4>1. s.adm.scope \in STRING
        BY CompletedFinds, Admitted
      <4>. QED BY <1>1, <2>3, <4>1 DEF P!Counter
    <3>. QED BY <1>6, <3>1
  <2>5. e.counters[k].revision = 1 /\ e.counters[k].counter = v
    BY <2>3
  <2>6. accepted \cup {v} = {v} /\ IsFiniteSet({v}) /\ Cardinality({v}) = 1
    BY <2>2, FS_Singleton
  <2>7. e.counters # d.counters
    BY <1>7, <2>4
  <2>. HIDE DEF k, v
  <2>8. \A u \in accepted \cup {v} : u \in Nat /\ u <= e.counters[k].counter
    BY <1>1, <2>2, <2>5
  <2>9. e.counters[k].revision = Cardinality(VerifiedBy(e, k))
    BY <1>4, <2>1, <2>5
  <2>10. /\ Cardinality(VerifiedBy(e, k)) = Cardinality(accepted \cup {v})
         /\ IsFiniteSet(accepted \cup {v})
    BY <1>4, <2>1, <2>6
  <2>11. KeyAt(e, k, accepted \cup {v})
    BY <1>4, <2>4, <2>8, <2>9, <2>10 DEF KeyAt
  <2>. QED BY <2>7, <2>11 DEF k, v
<1>8. CASE d.counters[k] # None
  <2>1. /\ d.counters[k] \in P!Counter /\ d.counters[k].counter \in Nat /\ d.counters[k].revision \in Nat
        /\ v > d.counters[k].counter
    BY <1>1, <1>6, <1>8 DEF P!CounterFits, P!Counter
  <2>2. e.counters[k] = [scope |-> s.adm.scope, counter |-> v, revision |-> d.counters[k].revision + 1]
    BY <1>1, <1>6, <1>8 DEF P!Counted
  <2>3. e.counters[k].counter = v /\ e.counters[k].revision = d.counters[k].revision + 1 /\ e.counters[k] # None
    <3>1. e.counters[k] \in P!Counter /\ e.counters[k].counter = v /\ e.counters[k].revision = d.counters[k].revision + 1
      <4>1. s.adm.scope \in STRING
        BY CompletedFinds, Admitted
      <4>. HIDE DEF k, v
      <4>. QED BY <1>1, <2>1, <2>2, <4>1 DEF P!Counter
    <3>. QED BY <1>6, <3>1
  <2>4. /\ d.counters[k].revision = Cardinality(VerifiedBy(d, k))
        /\ \A u \in accepted : u \in Nat /\ u <= d.counters[k].counter
    BY <1>8 DEF KeyAt
  <2>5. v \notin accepted
    BY <1>1, <2>1, <2>4
  <2>6. IsFiniteSet(accepted \cup {v}) /\ Cardinality(accepted \cup {v}) = Cardinality(accepted) + 1
    BY <1>3, <2>5, FS_AddElement
  <2>7. \A u \in accepted \cup {v} : u \in Nat /\ u <= e.counters[k].counter
    BY <1>1, <2>1, <2>3, <2>4
  <2>8. e.counters # d.counters
    BY <2>1, <2>3
  <2>9. e.counters[k].revision = Cardinality(VerifiedBy(e, k))
    BY <1>4, <2>3, <2>4
  <2>10. Cardinality(VerifiedBy(e, k)) = Cardinality(accepted \cup {v})
    BY <1>3, <1>4, <2>6
  <2>. QED BY <1>4, <2>3, <2>6, <2>7, <2>8, <2>9, <2>10 DEF KeyAt
<1>. QED BY <1>7, <1>8

LEMMA RetiresFile ==
  ASSUME P!PushAssumption, NEW d, FileInv(d), NEW p \in Parents, NEW e, e \in {d, P!RetiredIn(d, p)}
  PROVE  FileInv(e) /\ Keeps(d, e) /\ SameKeys(d, e)
<1>1. CASE e = d
  BY <1>1, KeepsNot
<1>2. CASE e = P!RetiredIn(d, p)
  BY <1>2, RetiredFile
<1>. QED BY <1>1, <1>2

LEMMA SameKeysFurther ==
  ASSUME NEW d, NEW e, NEW f, SameKeys(d, e), SameKeys(e, f)
  PROVE  SameKeys(d, f)
BY DEF SameKeys

\* What the guard and the fence leave of the memory.
LEMMA FenceKeeps ==
  ASSUME NEW m, TypedMem(m), NEW p, NEW n, n = P!Fence(m, p)
  PROVE  TypedMem(n) /\ n.handles = m.handles /\ n.observed = m.observed /\ n.retired = m.retired \cup {p}
BY DEF TypedMem, P!Fence

LEMMA GuardKeeps ==
  ASSUME NEW m, TypedMem(m), NEW a, NEW t, NEW n, n = P!Guarded(m, a, t)
  PROVE  /\ TypedMem(n) /\ n.handles = m.handles /\ n.observed = m.observed
         /\ P!Passes(m, a, t) => n.retired = m.retired
<1>. DEFINE seen == IF P!Fresh(m, t) THEN [m EXCEPT !.cont = t.cont, !.utc = t.utc] ELSE m
<1>1. TypedMem(seen) /\ seen.handles = m.handles /\ seen.observed = m.observed /\ seen.retired = m.retired
  BY DEF TypedMem
<1>. HIDE DEF seen
<1>2. n = IF P!Passes(m, a, t) THEN seen ELSE P!Fence(seen, a.parent)
  BY DEF P!Guarded, seen
<1>3. CASE P!Passes(m, a, t)
  BY <1>1, <1>2, <1>3
<1>4. CASE ~P!Passes(m, a, t)
  BY <1>1, <1>2, <1>4, FenceKeeps
<1>. QED BY <1>3, <1>4

LEMMA ReadingTyped ==
  ASSUME ClockTyped(clock), NEW t, t \in P!Readings
  PROVE  ClockTyped(t)
<1>1. CASE t = clock
  BY <1>1
<1>2. CASE t # clock
  <2>1. \/ \E c : t = [clock EXCEPT !.cont = c]
        \/ \E u \in 0 .. MaxTime : t = [clock EXCEPT !.utc = u]
    BY <1>2 DEF P!Readings, P!Ticks
  <2>2. \A c : ClockTyped([clock EXCEPT !.cont = c])
    BY DEF ClockTyped
  <2>3. \A u \in 0 .. MaxTime : u \in Int
    OBVIOUS
  <2>4. \A u \in Int : ClockTyped([clock EXCEPT !.utc = u])
    BY DEF ClockTyped
  <2>. QED BY <2>1, <2>2, <2>3, <2>4
<1>. QED BY <1>1, <1>2

LEMMA PayloadKept ==
  ASSUME NEW j \in Jobs, PayloadOnce(j), Keeps(file, file'), answers \subseteq answers', given'[j] = given[j],
         mem'.handles[j] \in {None, mem.handles[j]}
  PROVE  PayloadOnce(j)'
<1>1. Submitted(answers, j) => Submitted(answers', j)
  BY DEF Submitted
<1>2. \A stage \in P!StageSet : IsSpent(file, j, stage) => IsSpent(file', j, stage)
  BY DEF Keeps
<1>. QED BY <1>1, <1>2 DEF PayloadOnce

LEMMA HoldsKept ==
  ASSUME NEW d, NEW e, Keeps(d, e), NEW x, Holds(d, x)
  PROVE  Holds(e, x)
BY DEF Keeps, Holds

\* A step that verifies nothing, hands out no payload and takes no handle.
LEMMA QuietStep ==
  ASSUME PushInv, ClockTyped(clock'), FileInv(file'), Keeps(file, file'), SameKeys(file, file'), TypedMem(mem'),
         steps' \subseteq P!Step, answers \subseteq answers', \A x \in answers' \ answers : Holds(file', x),
         given' = given, proofs' = proofs, \A j \in Jobs : mem'.handles[j] \in {None, mem.handles[j]}
  PROVE  PushInv'
<1>1. \A x \in answers' : Holds(file', x)
  BY HoldsKept DEF PushInv
<1>2. \A j \in Jobs : PayloadOnce(j)'
  BY PayloadKept DEF PushInv
<1>3. \A k \in Keys : KeyAt(file', k, proofs'[k])
  BY SameKeyAt DEF PushInv
<1>. QED BY <1>1, <1>2, <1>3 DEF PushInv

\* The same, of a step that leaves the clock, the answers and the handles alone.
LEMMA FileStep ==
  ASSUME PushInv, FileInv(file'), Keeps(file, file'), SameKeys(file, file'), TypedMem(mem'),
         mem'.handles = mem.handles, steps' \subseteq P!Step, ClockTyped(clock'), UNCHANGED <<answers, given, proofs>>
  PROVE  PushInv'
<1>1. \A j \in Jobs : mem'.handles[j] \in {None, mem.handles[j]}
  OBVIOUS
<1>2. answers \subseteq answers' /\ \A x \in answers' \ answers : Holds(file', x)
  OBVIOUS
<1>. QED BY <1>1, <1>2, QuietStep

LEMMA RefuseKeeps ==
  ASSUME P!PushAssumption, PushInv, NEW a \in Admissions, P!Refuse(a)
  PROVE  PushInv'
<1>1. TypedMem(mem') /\ mem'.handles = mem.handles
  BY GuardKeeps DEF P!Refuse, PushInv
<1>2. UNCHANGED <<file, steps, clock, answers, given, proofs>>
  BY DEF P!Refuse
<1>3. FileInv(file') /\ Keeps(file, file') /\ SameKeys(file, file') /\ ClockTyped(clock') /\ steps' \subseteq P!Step
  BY <1>2, KeepsNot DEF PushInv
<1>. QED BY <1>1, <1>2, <1>3, FileStep

LEMMA PutParentKeeps ==
  ASSUME P!PushAssumption, PushInv, NEW p \in Parents, P!PutParent(p)
  PROVE  PushInv'
<1>1. file' = file \/ file' = [file EXCEPT !.parents[p] = "live"]
  BY DEF P!PutParent, P!Commits, P!Unknown
<1>2. file.parents[p] = None /\ UNCHANGED <<mem, steps, clock, answers, given, proofs>>
  BY DEF P!PutParent
<1>3. FileInv(file') /\ Keeps(file, file') /\ SameKeys(file, file')
  BY <1>1, <1>2, KeepsNot, PutFile DEF PushInv
<1>. QED BY <1>2, <1>3, FileStep DEF PushInv

LEMMA BeginKeeps ==
  ASSUME P!PushAssumption, PushInv, NEW a \in Admissions, P!Begin(a)
  PROVE  PushInv'
<1>. DEFINE m == P!Guarded(mem, a, clock)
<1>1. /\ file' = file \/ file' = P!Created(file, a)
      /\ (clock' \in P!Readings /\ mem' = P!Guarded(m, a, clock')) \/ (mem' = m /\ clock' = clock)
      /\ P!MayCreate(file, a) /\ UNCHANGED <<steps, answers, given, proofs>>
  BY DEF P!Begin, P!Commits, P!Unknown
<1>2. FileInv(file') /\ Keeps(file, file') /\ SameKeys(file, file')
  BY <1>1, KeepsNot, CreatedFile DEF PushInv
<1>3. TypedMem(m) /\ m.handles = mem.handles
  BY GuardKeeps DEF PushInv
<1>. HIDE DEF m
<1>4. TypedMem(mem') /\ mem'.handles = mem.handles
  BY <1>1, <1>3, GuardKeeps
<1>5. ClockTyped(clock') /\ steps' \subseteq P!Step
  BY <1>1, ReadingTyped DEF PushInv
<1>. QED BY <1>1, <1>2, <1>4, <1>5, FileStep

LEMMA ReserveKeeps ==
  ASSUME P!PushAssumption, PushInv, NEW a \in Admissions, NEW stage \in P!StageSet,
         NEW proof \in P!Proof \cup {None}, P!Reserve(a, stage, proof)
  PROVE  PushInv'
<1>. DEFINE m == P!Guarded(mem, a, clock)
            e == P!Reserved(file, a, stage)
            step == [adm |-> a, stage |-> stage, proof |-> proof]
<1>1. P!MayReserve(file, a, stage) /\ UNCHANGED <<answers, given, proofs>>
  BY DEF P!Reserve
<1>2. /\ file' = file \/ file' = e \/ file' \in {e, P!RetiredIn(e, a.parent)}
      /\ (clock' \in P!Readings /\ mem' = P!Guarded(m, a, clock')) \/ (mem' = m /\ clock' = clock)
      /\ steps' = steps \/ steps' = steps \cup {step}
  BY DEF P!Reserve, P!Commits, P!Unknown, P!Retires
<1>3. FileInv(e) /\ Keeps(file, e) /\ SameKeys(file, e)
  BY <1>1, ReservedFile DEF PushInv
<1>4. TypedMem(m) /\ m.handles = mem.handles
  BY GuardKeeps DEF PushInv
<1>5. step \in P!Step
  BY DEF P!Step
<1>. HIDE DEF m, e, step
<1>6. FileInv(file') /\ Keeps(file, file') /\ SameKeys(file, file')
  <2>1. CASE file' = file
    BY <2>1, KeepsNot DEF PushInv
  <2>2. CASE file' \in {e, P!RetiredIn(e, a.parent)}
    <3>1. FileInv(file') /\ Keeps(e, file') /\ SameKeys(e, file')
      BY <1>3, <2>2, Admitted, RetiresFile
    <3>. QED BY <1>3, <3>1, KeepsFurther, SameKeysFurther
  <2>. QED BY <1>2, <2>1, <2>2
<1>7. TypedMem(mem') /\ mem'.handles = mem.handles
  BY <1>2, <1>4, GuardKeeps
<1>8. ClockTyped(clock') /\ steps' \subseteq P!Step
  BY <1>2, <1>5, ReadingTyped DEF PushInv
<1>. QED BY <1>1, <1>6, <1>7, <1>8, FileStep

\* A completion with a proof leaves every key with one row that counts what it
\* was accepted with.
CountsOn(d, e, s, accepted) ==
  /\ s.proof = None => SameKeys(d, e)
  /\ s.proof # None =>
       /\ s.proof.key \in Keys /\ s.proof.value \in Nat /\ e.counters # d.counters
       /\ \A k \in Keys :
            KeyAt(e, k, IF k = s.proof.key THEN accepted[k] \cup {s.proof.value} ELSE accepted[k])

AcceptedAfter(d, f, s, accepted) ==
  IF s.proof # None /\ f.counters # d.counters
    THEN [accepted EXCEPT ![s.proof.key] = @ \cup {s.proof.value}] ELSE accepted

LEMMA CompletedKeyAt ==
  ASSUME P!PushAssumption, NEW d, FileInv(d), NEW s \in P!Step, P!MayComplete(d, s), NEW e, e = P!Completed(d, s),
         NEW old, \A k \in Keys : KeyAt(d, k, old[k])
  PROVE  CountsOn(d, e, s, old)
<1>0. OneMore(d, e, s)
  BY CompletedKeys
<1>1. s.proof = None => SameKeys(d, e)
  BY <1>0 DEF OneMore
<1>2. ASSUME s.proof # None
      PROVE  /\ s.proof.key \in Keys /\ s.proof.value \in Nat /\ e.counters # d.counters
             /\ \A k \in Keys : KeyAt(e, k, IF k = s.proof.key THEN old[k] \cup {s.proof.value} ELSE old[k])
  <2>1. s.proof.key \in Keys /\ s.proof.value \in Nat
    BY <1>2, CompletedFinds
  <2>2. KeyAt(e, s.proof.key, old[s.proof.key] \cup {s.proof.value}) /\ e.counters # d.counters
    BY <1>2, <2>1, CompletedCounter
  <2>3. \A k \in Keys \ {s.proof.key} : e.counters[k] = d.counters[k] /\ VerifiedBy(e, k) = VerifiedBy(d, k)
    BY <1>0, <1>2 DEF OneMore
  <2>4. \A k \in Keys \ {s.proof.key} : KeyAt(e, k, old[k])
    BY <2>3 DEF KeyAt
  <2>. QED BY <2>1, <2>2, <2>4
<1>. QED BY <1>1, <1>2 DEF CountsOn

\* The counters after a completion, f, whatever became of its transaction.
LEMMA CompletedProofs ==
  ASSUME NEW d, NEW s, NEW e, NEW f, SameKeys(d, f) \/ SameKeys(e, f),
         NEW old, old \in [Keys -> SUBSET Nat], \A k \in Keys : KeyAt(d, k, old[k]),
         CountsOn(d, e, s, old), NEW new, new = AcceptedAfter(d, f, s, old)
  PROVE  new \in [Keys -> SUBSET Nat] /\ \A k \in Keys : KeyAt(f, k, new[k])
<1>. USE DEF CountsOn, AcceptedAfter
<1>1. CASE SameKeys(d, f)
  <2>1. new = old
    BY <1>1 DEF SameKeys
  <2>. QED BY <1>1, <2>1, SameKeyAt
<1>2. CASE SameKeys(e, f) /\ s.proof = None
  <2>1. SameKeys(d, f)
    BY <1>2, SameKeysFurther
  <2>2. new = old
    BY <1>2
  <2>. QED BY <2>1, <2>2, SameKeyAt
<1>3. CASE SameKeys(e, f) /\ s.proof # None
  <2>1. s.proof.key \in Keys /\ s.proof.value \in Nat
    BY <1>3
  <2>2. new = [old EXCEPT ![s.proof.key] = old[s.proof.key] \cup {s.proof.value}]
    BY <1>3 DEF SameKeys
  <2>3. /\ new \in [Keys -> SUBSET Nat]
        /\ \A k \in Keys : new[k] = IF k = s.proof.key THEN old[k] \cup {s.proof.value} ELSE old[k]
    BY <2>1, <2>2
  <2>4. \A k \in Keys : KeyAt(e, k, new[k])
    BY <1>3, <2>3
  <2>. QED BY <1>3, <2>3, <2>4, SameKeyAt
<1>. QED BY <1>1, <1>2, <1>3

\* A completion is answered when it is in the file, and so is the handle that
\* the last stage leaves; before, the job's payload cannot have been returned.
LEMMA CompleteKeeps ==
  ASSUME P!PushAssumption, PushInv, NEW s \in steps, P!Complete(s)
  PROVE  PushInv'
<1>. DEFINE a == s.adm
            m == P!Guarded(mem, a, clock)
            e == P!Completed(file, s)
            n == P!Guarded(m, a, clock')
            tried == P!Passes(mem, a, clock) /\ open /\ P!MayComplete(file, s)
            told == P!Told(a, s.stage)
<1>1. s \in P!Step /\ a \in Admissions /\ a.job \in Jobs /\ a.parent \in Parents /\ a # None /\ s.stage \in P!StageSet
  <2>1. s \in P!Step /\ a \in Admissions /\ s.stage \in P!StageSet
    BY DEF PushInv, P!Step
  <2>. QED BY <2>1, Admitted
<1>2. TypedMem(m) /\ m.handles = mem.handles
  BY GuardKeeps DEF PushInv
<1>3. TypedMem(n) /\ n.handles = mem.handles
  BY <1>2, GuardKeeps
<1>4. steps' \subseteq P!Step /\ given' = given
  BY DEF P!Complete, PushInv
<1>5. proofs' = IF tried /\ s.proof # None /\ file'.counters # file.counters
                  THEN [proofs EXCEPT ![s.proof.key] = @ \cup {s.proof.value}] ELSE proofs
  BY DEF P!Complete
<1>6. \/ /\ ~tried /\ mem' = P!Fence(m, a.parent) /\ file' \in {file, P!RetiredIn(file, a.parent)}
         /\ clock' = clock /\ answers' = answers
      \/ /\ tried /\ file' \in {file, e} /\ mem' = P!Fence(m, a.parent) /\ clock' = clock /\ answers' = answers
      \/ /\ tried /\ clock' \in P!Readings /\ file' = e /\ answers' = answers \cup {told}
         /\ mem' = IF s.stage = "submit" THEN [n EXCEPT !.handles[a.job] = a] ELSE n
      \/ /\ tried /\ clock' \in P!Readings /\ file' \in {e, P!RetiredIn(e, a.parent)} /\ mem' = n /\ answers' = answers
  BY DEF P!Complete, P!Commits, P!Unknown, P!Retires
<1>7. tried => /\ FileInv(e) /\ Keeps(file, e) /\ IsSpent(e, a.job, s.stage) /\ ~IsSpent(file, a.job, s.stage)
  BY <1>1, CompletedFile DEF PushInv
<1>8. tried => P!MayComplete(file, s)
  OBVIOUS
<1>9. told.job = a.job /\ told.what = s.stage
  BY DEF P!Told
<1>10. ASSUME NEW p, TypedMem(P!Fence(m, p)) \/ TRUE
       PROVE  TypedMem(P!Fence(m, p)) /\ P!Fence(m, p).handles = mem.handles
  BY <1>2, FenceKeeps
<1>11. e = P!Completed(file, s)
  OBVIOUS
<1>. HIDE DEF a, m, e, n, tried, told
<1>12. ClockTyped(clock')
  BY <1>6, ReadingTyped DEF PushInv
<1>13. CASE ~tried
  <2>1. /\ mem' = P!Fence(m, a.parent) /\ file' \in {file, P!RetiredIn(file, a.parent)} /\ answers' = answers
        /\ proofs' = proofs
    BY <1>5, <1>6, <1>13
  <2>2. FileInv(file') /\ Keeps(file, file') /\ SameKeys(file, file')
    BY <1>1, <2>1, RetiresFile DEF PushInv
  <2>. QED BY <1>4, <1>10, <1>12, <2>1, <2>2, FileStep
<1>14. CASE tried
  <2>1. FileInv(file') /\ Keeps(file, file') /\ (SameKeys(file, file') \/ (SameKeys(e, file') /\ Keeps(e, file')))
    <3>1. CASE file' = file
      BY <3>1, KeepsNot DEF PushInv
    <3>2. CASE file' \in {e, P!RetiredIn(e, a.parent)}
      <4>1. FileInv(file') /\ Keeps(e, file') /\ SameKeys(e, file')
        BY <1>1, <1>7, <1>14, <3>2, RetiresFile
      <4>. QED BY <1>7, <1>14, <4>1, KeepsFurther
    <3>. QED BY <1>6, <1>14, <3>1, <3>2
  <2>2. proofs' \in [Keys -> SUBSET Nat] /\ \A k \in Keys : KeyAt(file', k, proofs'[k])
    <3>1. /\ FileInv(file) /\ proofs \in [Keys -> SUBSET Nat] /\ \A k \in Keys : KeyAt(file, k, proofs[k])
      BY DEF PushInv
    <3>2. proofs' = IF s.proof # None /\ file'.counters # file.counters
                      THEN [proofs EXCEPT ![s.proof.key] = @ \cup {s.proof.value}] ELSE proofs
      BY <1>5, <1>14
    <3>3. SameKeys(file, file') \/ SameKeys(e, file')
      BY <2>1
    <3>4. CountsOn(file, e, s, proofs)
      BY <1>1, <1>8, <1>11, <1>14, <3>1, CompletedKeyAt
    <3>5. PICK f, new : f = file' /\ new = proofs'
      OBVIOUS
    <3>6. new \in [Keys -> SUBSET Nat] /\ \A k \in Keys : KeyAt(f, k, new[k])
      <4>1. new = AcceptedAfter(file, f, s, proofs)
        BY <3>2, <3>5 DEF AcceptedAfter
      <4>2. SameKeys(file, f) \/ SameKeys(e, f)
        BY <3>3, <3>5
      <4>. QED BY <3>1, <3>4, <4>1, <4>2, CompletedProofs
    <3>. QED BY <3>5, <3>6
  <2>3. /\ TypedMem(mem')
        /\ \/ mem'.handles = mem.handles /\ answers' = answers
           \/ /\ file' = e /\ answers' = answers \cup {told}
              /\ mem'.handles = IF s.stage = "submit" THEN [mem.handles EXCEPT ![a.job] = a] ELSE mem.handles
    <3>1. CASE mem' = P!Fence(m, a.parent) /\ answers' = answers
      BY <1>10, <3>1
    <3>2. CASE /\ file' = e /\ answers' = answers \cup {told}
               /\ mem' = IF s.stage = "submit" THEN [n EXCEPT !.handles[a.job] = a] ELSE n
      <4>1. CASE s.stage # "submit"
        BY <1>3, <3>2, <4>1
      <4>2. CASE s.stage = "submit"
        <5>1. mem'.handles = [mem.handles EXCEPT ![a.job] = a]
          BY <1>3, <3>2, <4>2 DEF TypedMem
        <5>2. mem'.handles \in [Jobs -> Admissions \cup {None}]
          BY <1>1, <5>1 DEF PushInv, TypedMem
        <5>3. mem' = [retired |-> mem'.retired, cont |-> mem'.cont, utc |-> mem'.utc, observed |-> mem'.observed,
                      handles |-> mem'.handles]
          BY <1>3, <3>2, <4>2 DEF TypedMem
        <5>. QED BY <3>2, <4>2, <5>1, <5>2, <5>3 DEF TypedMem
      <4>. QED BY <4>1, <4>2
    <3>3. CASE mem' = n /\ answers' = answers
      BY <1>3, <3>3
    <3>. QED BY <1>6, <1>14, <3>1, <3>2, <3>3
  <2>4. \A x \in answers' : Holds(file', x)
    <3>1. \A x \in answers : Holds(file', x)
      BY <2>1, HoldsKept DEF PushInv
    <3>2. file' = e => Holds(file', told)
      <4>1. s.stage \notin Children
        BY <1>1 DEF P!PushAssumption
      <4>. QED BY <1>1, <1>7, <1>9, <1>14, <4>1 DEF Holds
    <3>. QED BY <2>3, <3>1, <3>2
  <2>5. answers \subseteq answers'
    BY <2>3
  <2>6. ASSUME NEW j \in Jobs
        PROVE  PayloadOnce(j)'
    <3>1. CASE mem'.handles[j] = mem.handles[j]
      BY <1>4, <2>1, <2>5, <3>1, PayloadKept DEF PushInv
    <3>2. CASE mem'.handles[j] # mem.handles[j]
      <4>1. s.stage = "submit" /\ j = a.job /\ mem'.handles[j] = a /\ answers' = answers \cup {told} /\ file' = e
        BY <1>1, <2>3, <3>2 DEF PushInv, TypedMem
      <4>2. Submitted(answers', j)
        BY <1>9, <4>1 DEF Submitted
      <4>3. given[j] = 0
        <5>1. given[j] = 1 => IsSpent(file, j, "submit")
          BY <4>1, <1>1 DEF PushInv, PayloadOnce
        <5>. QED BY <1>7, <1>14, <4>1, <5>1 DEF PushInv, PayloadOnce
      <4>. QED BY <1>1, <1>4, <4>1, <4>2, <4>3 DEF PayloadOnce
    <3>. QED BY <3>1, <3>2
  <2>. QED BY <1>4, <1>12, <2>1, <2>2, <2>3, <2>4, <2>6 DEF PushInv
<1>. QED BY <1>13, <1>14

LEMMA BreakKeeps ==
  ASSUME P!PushAssumption, PushInv, NEW s \in steps, P!Break(s)
  PROVE  PushInv'
<1>1. /\ mem' = P!Fence(mem, s.adm.parent) /\ file' \in {file, P!RetiredIn(file, s.adm.parent)}
      /\ steps' = steps \ {s} /\ UNCHANGED <<clock, answers, given, proofs>>
  BY DEF P!Break, P!Retires
<1>2. s.adm.parent \in Parents
  <2>1. s.adm \in Admissions
    BY DEF PushInv, P!Step
  <2>. QED BY <2>1, Admitted
<1>3. FileInv(file') /\ Keeps(file, file') /\ SameKeys(file, file')
  BY <1>1, <1>2, RetiresFile DEF PushInv
<1>4. TypedMem(mem') /\ mem'.handles = mem.handles
  BY <1>1, FenceKeeps DEF PushInv
<1>5. steps' \subseteq P!Step /\ ClockTyped(clock')
  BY <1>1 DEF PushInv
<1>. QED BY <1>1, <1>3, <1>4, <1>5, FileStep

LEMMA BindChildKeeps ==
  ASSUME P!PushAssumption, PushInv, NEW a \in Admissions, NEW c \in Children, NEW expiry \in ChildExpiries,
         P!BindChild(a, c, expiry)
  PROVE  PushInv'
<1>. DEFINE m == P!Guarded(mem, a, clock)
            e == [file EXCEPT !.children[c] = [parent |-> a.parent, expires |-> expiry, retired |-> FALSE]]
<1>1. /\ P!MayBind(file, c, a.parent, expiry) /\ UNCHANGED <<steps, given, proofs>>
      /\ (clock' \in P!Readings /\ mem' = P!Guarded(m, a, clock')) \/ (mem' = m /\ clock' = clock)
      /\ (file' = e /\ answers' \in {answers, answers \cup {P!Told(a, c)}}) \/ (file' \in {file, e} /\ answers' = answers)
  BY DEF P!BindChild, P!Commits, P!Unknown
<1>2. FileInv(e) /\ Keeps(file, e) /\ SameKeys(file, e) /\ e.children[c] # None
  <2>1. a.parent \in Parents /\ expiry \in Nat
    BY Admitted DEF P!PushAssumption
  <2>. QED BY <1>1, <2>1, BoundFile DEF PushInv
<1>3. TypedMem(m) /\ m.handles = mem.handles
  BY GuardKeeps DEF PushInv
<1>. HIDE DEF m, e
<1>4. TypedMem(mem') /\ mem'.handles = mem.handles
  BY <1>1, <1>3, GuardKeeps
<1>5. FileInv(file') /\ Keeps(file, file') /\ SameKeys(file, file')
  BY <1>1, <1>2, KeepsNot DEF PushInv
<1>6. answers \subseteq answers' /\ \A x \in answers' \ answers : Holds(file', x)
  BY <1>1, <1>2 DEF Holds, P!Told
<1>7. ClockTyped(clock') /\ steps' \subseteq P!Step
  BY <1>1, ReadingTyped DEF PushInv
<1>8. \A j \in Jobs : mem'.handles[j] \in {None, mem.handles[j]}
  BY <1>4
<1>. QED BY <1>1, <1>4, <1>5, <1>6, <1>7, <1>8, QuietStep

LEMMA RetireParentKeeps ==
  ASSUME P!PushAssumption, PushInv, NEW p \in Parents, P!Retire(p)
  PROVE  PushInv'
<1>1. /\ mem' = P!Fence(mem, p) /\ file' \in {file, P!RetiredIn(file, p)}
      /\ UNCHANGED <<steps, clock, answers, given, proofs>>
  BY DEF P!Retire, P!Retires
<1>2. FileInv(file') /\ Keeps(file, file') /\ SameKeys(file, file')
  BY <1>1, RetiresFile DEF PushInv
<1>3. TypedMem(mem') /\ mem'.handles = mem.handles
  BY <1>1, FenceKeeps DEF PushInv
<1>4. steps' \subseteq P!Step /\ ClockTyped(clock')
  BY <1>1 DEF PushInv
<1>. QED BY <1>1, <1>2, <1>3, <1>4, FileStep

\* What an observation does to the handles, and what it needs to return the
\* payload.
LEMMA ObserveSteps ==
  ASSUME P!PushAssumption, PushInv, NEW a \in Admissions, P!Observe(a)
  PROVE  /\ mem.handles[a.job] # None /\ UNCHANGED <<steps, answers, proofs>>
         /\ file' \in {file, P!RetiredIn(file, a.parent)} /\ (clock' = clock \/ clock' \in P!Readings)
         /\ TypedMem(mem') /\ mem'.handles = [mem.handles EXCEPT ![a.job] = None]
         /\ \/ given' = given
            \/ /\ given' = [given EXCEPT ![a.job] = given[a.job] + 1]
               /\ P!MaySubmit(file, a) /\ P!MaySubmit(file', a)
               /\ \E n : TypedMem(n) /\ mem' = P!Guarded(n, a, clock') /\ P!Passes(n, a, clock')
<1>. DEFINE taken == [mem EXCEPT !.handles[a.job] = None]
            m == P!Guarded(taken, a, clock)
            n == [m EXCEPT !.observed = @ \cup {a.job}]
            own == mem.handles[a.job] = a
            ready == own /\ P!Passes(taken, a, clock) /\ open /\ P!MaySubmit(file, a) /\ a.job \notin m.observed
            handles == [mem.handles EXCEPT ![a.job] = None]
<1>1. TypedMem(taken) /\ taken.handles = handles
  <2>1. taken.handles = handles
    BY DEF PushInv, TypedMem
  <2>2. handles \in [Jobs -> Admissions \cup {None}]
    BY DEF PushInv, TypedMem
  <2>3. taken = [retired |-> taken.retired, cont |-> taken.cont, utc |-> taken.utc, observed |-> taken.observed,
                 handles |-> taken.handles]
    BY DEF PushInv, TypedMem
  <2>. QED BY <2>1, <2>2, <2>3 DEF TypedMem
<1>2. TypedMem(m) /\ m.handles = handles
  <2>. HIDE DEF taken
  <2>. QED BY <1>1, GuardKeeps
<1>3. TypedMem(n) /\ n.handles = handles
  <2>. HIDE DEF m
  <2>. QED BY <1>2 DEF TypedMem
<1>4. mem.handles[a.job] # None /\ UNCHANGED <<steps, answers, proofs>>
  BY DEF P!Observe
<1>5. \/ mem' \in {m, taken} /\ file' = file /\ clock' = clock /\ given' = given
      \/ /\ clock' \in P!Readings /\ file' \in {file, P!RetiredIn(file, a.parent)}
         /\ \/ mem' = n /\ given' = given
            \/ /\ ready /\ P!MaySubmit(file', a) /\ mem' = P!Guarded(n, a, clock')
               /\ given' = IF P!Passes(n, a, clock') THEN [given EXCEPT ![a.job] = @ + 1] ELSE given
  BY DEF P!Observe, P!Retires, P!Unknown
<1>6. ready => P!MaySubmit(file, a)
  OBVIOUS
<1>. HIDE DEF taken, m, n, own, ready, handles
<1>7. TypedMem(P!Guarded(n, a, clock')) /\ P!Guarded(n, a, clock').handles = handles
  BY <1>3, GuardKeeps
<1>8. TypedMem(mem') /\ mem'.handles = handles
  BY <1>1, <1>2, <1>3, <1>5, <1>7
<1>9. \/ given' = given
      \/ /\ given' = [given EXCEPT ![a.job] = given[a.job] + 1]
         /\ P!MaySubmit(file, a) /\ P!MaySubmit(file', a)
         /\ mem' = P!Guarded(n, a, clock') /\ P!Passes(n, a, clock')
  BY <1>5, <1>6
<1>. QED BY <1>3, <1>4, <1>5, <1>8, <1>9 DEF handles

LEMMA ObserveKeeps ==
  ASSUME P!PushAssumption, PushInv, NEW a \in Admissions, P!Observe(a)
  PROVE  PushInv'
<1>1. /\ mem.handles[a.job] # None /\ UNCHANGED <<steps, answers, proofs>>
      /\ file' \in {file, P!RetiredIn(file, a.parent)} /\ (clock' = clock \/ clock' \in P!Readings)
      /\ TypedMem(mem') /\ mem'.handles = [mem.handles EXCEPT ![a.job] = None]
      /\ \/ given' = given
         \/ given' = [given EXCEPT ![a.job] = given[a.job] + 1] /\ P!MaySubmit(file', a)
  BY ObserveSteps
<1>2. FileInv(file') /\ Keeps(file, file') /\ SameKeys(file, file')
  BY <1>1, Admitted, RetiresFile DEF PushInv
<1>3. ClockTyped(clock') /\ steps' \subseteq P!Step
  BY <1>1, ReadingTyped DEF PushInv
<1>4. a.job \in Jobs /\ mem.handles \in [Jobs -> Admissions \cup {None}]
  BY Admitted DEF PushInv, TypedMem
<1>5. CASE given' = given
  <2>1. \A j \in Jobs : mem'.handles[j] \in {None, mem.handles[j]}
    BY <1>1, <1>4
  <2>2. answers \subseteq answers' /\ \A x \in answers' \ answers : Holds(file', x)
    BY <1>1
  <2>3. proofs' = proofs
    BY <1>1
  <2>. QED BY <1>1, <1>2, <1>3, <1>5, <2>1, <2>2, <2>3, QuietStep
<1>6. CASE given' = [given EXCEPT ![a.job] = given[a.job] + 1] /\ P!MaySubmit(file', a)
  <2>1. /\ given[a.job] = 0 /\ Submitted(answers, a.job)
    BY <1>1, <1>4 DEF PushInv, PayloadOnce
  <2>2. given' \in [Jobs -> Nat] /\ given'[a.job] = 1 /\ \A j \in Jobs \ {a.job} : given'[j] = given[j]
    BY <1>4, <1>6, <2>1 DEF PushInv
  <2>3. \A stage \in P!StageSet : IsSpent(file', a.job, stage)
    <3>1. file'.jobs[a.job] # None /\ file'.jobs[a.job].phase = "SUBMIT_SPENT"
      BY <1>6 DEF P!MaySubmit, P!JobFits
    <3>2. JobAt(file', a.job)
      BY <1>2, <1>4 DEF FileInv
    <3>3. file'.jobs[a.job].revision \in 1 .. 6 /\ P!Phases[file'.jobs[a.job].revision] = P!Phases[6]
      BY <3>1, <3>2, Places DEF JobAt
    <3>4. file'.jobs[a.job].revision = 6
      BY <3>3, PhaseNames
    <3>5. \A stage \in P!StageSet : P!Place(stage) < 6
      BY PhaseNames
    <3>. QED BY <3>1, <3>2, <3>4, <3>5 DEF JobAt
  <2>4. ASSUME NEW j \in Jobs
        PROVE  PayloadOnce(j)'
    <3>1. CASE j = a.job
      <4>1. mem'.handles[j] = None
        BY <1>1, <1>4, <3>1
      <4>2. Submitted(answers', j)
        BY <1>1, <2>1, <3>1
      <4>. QED BY <2>2, <2>3, <3>1, <4>1, <4>2 DEF PayloadOnce
    <3>2. CASE j # a.job
      <4>1. mem'.handles[j] = mem.handles[j] /\ given'[j] = given[j] /\ answers \subseteq answers' /\ PayloadOnce(j)
        BY <1>1, <1>4, <2>2, <3>2 DEF PushInv
      <4>. QED BY <1>2, <4>1, PayloadKept
    <3>. QED BY <3>1, <3>2
  <2>5. \A x \in answers' : Holds(file', x)
    BY <1>1, <1>2, HoldsKept DEF PushInv
  <2>6. proofs' = proofs /\ \A k \in Keys : KeyAt(file', k, proofs'[k])
    BY <1>1, <1>2, SameKeyAt DEF PushInv
  <2>. QED BY <1>1, <1>2, <1>3, <2>2, <2>4, <2>5, <2>6 DEF PushInv
<1>. QED BY <1>1, <1>5, <1>6

LEMMA CloseTickKeep ==
  ASSUME P!PushAssumption, PushInv, P!Close \/ P!Tick
  PROVE  PushInv'
<1>1. UNCHANGED <<file, mem, steps, answers, given, proofs>> /\ (clock' = clock \/ clock' \in P!Readings)
  BY DEF P!Close, P!Tick, P!Readings
<1>2. FileInv(file') /\ Keeps(file, file') /\ SameKeys(file, file')
  BY <1>1, KeepsNot DEF PushInv
<1>3. ClockTyped(clock') /\ steps' \subseteq P!Step /\ TypedMem(mem') /\ mem'.handles = mem.handles
  BY <1>1, ReadingTyped DEF PushInv
<1>. QED BY <1>1, <1>2, <1>3, FileStep

LEMMA NoMemoryTyped ==
  TypedMem(P!NoMemory) /\ \A j \in Jobs : P!NoMemory.handles[j] = None
BY DEF TypedMem, P!NoMemory

LEMMA NewProcessKeeps ==
  ASSUME P!PushAssumption, PushInv, P!Restart
  PROVE  PushInv'
<1>1. /\ mem' = P!NoMemory /\ steps' = {} /\ UNCHANGED <<file, answers, given, proofs>>
      /\ clock' = clock \/ clock' = [clock EXCEPT !.cont = 0, !.boot = @ + 1]
  BY DEF P!Restart
<1>2. FileInv(file') /\ Keeps(file, file') /\ SameKeys(file, file')
  BY <1>1, KeepsNot DEF PushInv
<1>3. ClockTyped(clock')
  <2>1. CASE clock' = clock
    BY <2>1 DEF PushInv
  <2>2. CASE clock' = [clock EXCEPT !.cont = 0, !.boot = @ + 1]
    BY <2>2 DEF PushInv, ClockTyped
  <2>. QED BY <1>1, <2>1, <2>2
<1>4. TypedMem(mem') /\ \A j \in Jobs : mem'.handles[j] \in {None, mem.handles[j]}
  BY <1>1, NoMemoryTyped
<1>5. answers \subseteq answers' /\ (\A x \in answers' \ answers : Holds(file', x)) /\ steps' \subseteq P!Step
  BY <1>1
<1>6. given' = given /\ proofs' = proofs
  BY <1>1
<1>. QED BY <1>2, <1>3, <1>4, <1>5, <1>6, QuietStep

LEMMA PushStarts ==
  ASSUME P!PushAssumption, P!Init
  PROVE  PushInv
<1>1. /\ file = [parents |-> [p \in Parents |-> None], children |-> [c \in Children |-> None],
                 jobs |-> [j \in Jobs |-> None],
                 claims |-> [j \in Jobs |-> [s \in P!StageSet |-> None]], counters |-> [k \in Keys |-> None]]
      /\ mem = P!NoMemory /\ steps = {} /\ answers = {} /\ clock = [cont |-> 0, utc |-> 0, boot |-> 0]
      /\ given = [j \in Jobs |-> 0] /\ proofs = [k \in Keys |-> {}]
  BY DEF P!Init
<1>2. FileTyped(file)
  BY <1>1 DEF FileTyped
<1>3. \A j \in Jobs : JobAt(file, j)
  BY <1>1 DEF JobAt
<1>4. \A p \in Parents : file.parents[p] = None
  BY <1>1
<1>5. \A p \in Parents : Ended(file, p)
  BY <1>4 DEF Ended, P!PushAssumption
<1>6. ASSUME NEW k \in Keys
      PROVE  KeyAt(file, k, proofs[k])
  <2>1. VerifiedBy(file, k) = {}
    BY <1>1 DEF VerifiedBy
  <2>2. proofs[k] = {} /\ file.counters[k] = None
    BY <1>1
  <2>. QED BY <2>1, <2>2, FS_EmptySet DEF KeyAt
<1>7. \A j \in Jobs : PayloadOnce(j)
  <2>1. \A j \in Jobs : mem.handles[j] = None /\ given[j] = 0
    BY <1>1, NoMemoryTyped
  <2>. QED BY <2>1 DEF PayloadOnce
<1>8. ClockTyped(clock) /\ TypedMem(mem)
  BY <1>1, NoMemoryTyped DEF ClockTyped
<1>9. given \in [Jobs -> Nat] /\ proofs \in [Keys -> SUBSET Nat] /\ steps \subseteq P!Step /\ \A x \in answers : Holds(file, x)
  BY <1>1
<1>. QED BY <1>2, <1>3, <1>5, <1>6, <1>7, <1>8, <1>9 DEF PushInv, FileInv

LEMMA PushKeeps ==
  ASSUME P!PushAssumption, PushInv, [P!Next]_(P!vars)
  PROVE  PushInv'
<1>1. ASSUME NEW p \in Parents, P!PutParent(p) \/ P!Retire(p)
      PROVE  PushInv'
  BY <1>1, PutParentKeeps, RetireParentKeeps
<1>2. ASSUME NEW a \in Admissions, P!Refuse(a) \/ P!Begin(a) \/ P!Observe(a)
      PROVE  PushInv'
  BY <1>2, RefuseKeeps, BeginKeeps, ObserveKeeps
<1>3. ASSUME NEW a \in Admissions, NEW stage \in P!StageSet, NEW proof \in P!Proof \cup {None}, P!Reserve(a, stage, proof)
      PROVE  PushInv'
  BY <1>3, ReserveKeeps
<1>4. ASSUME NEW a \in Admissions, NEW c \in Children, NEW x \in ChildExpiries, P!BindChild(a, c, x)
      PROVE  PushInv'
  BY <1>4, BindChildKeeps
<1>5. ASSUME NEW s \in steps, P!Complete(s) \/ P!Break(s)
      PROVE  PushInv'
  BY <1>5, CompleteKeeps, BreakKeeps
<1>6. CASE P!Close \/ P!Tick
  BY <1>6, CloseTickKeep
<1>7. CASE P!Restart
  BY <1>7, NewProcessKeeps
<1>8. CASE UNCHANGED P!vars
  BY <1>8 DEF P!vars, PushInv, PayloadOnce
<1>. QED BY <1>1, <1>2, <1>3, <1>4, <1>5, <1>6, <1>7, <1>8 DEF P!Next

LEMMA PushHolds ==
  ASSUME P!PushAssumption
  PROVE  P!Spec => []PushInv
<1>1. P!Init => PushInv
  BY PushStarts
<1>2. PushInv /\ [P!Next]_(P!vars) => PushInv'
  BY PushKeeps
<1>. QED BY <1>1, <1>2, PTL DEF P!Spec

\* Retirement reaches everything that hangs on a parent, and what was answered
\* is in the file for good; a payload is returned once, after its five stages
\* (store.py and coordinator.py over restarts and lost acknowledgements).
THEOREM AnswersAreDurable ==
  ASSUME P!PushAssumption
  PROVE  P!Spec => []DurableTogether
<1>1. PushInv => DurableTogether
  <2>. SUFFICES ASSUME PushInv
                PROVE  P!DurableTogether
    BY DEF DurableTogether
  <2>1. P!RetiredTogether
    BY DEF PushInv, FileInv, Ended, P!RetiredTogether
  <2>2. \A x \in answers : IF x.what \in Children THEN file.children[x.what] # None
                           ELSE file.claims[x.job][x.what] # None /\ file.claims[x.job][x.what].outcome \in P!Spent
    BY DEF PushInv, Holds, IsSpent, P!Spent
  <2>3. ASSUME NEW j \in Jobs
        PROVE  given[j] <= 1 /\ (given[j] = 1 => /\ \E x \in answers : x.job = j /\ x.what = "submit"
                                                 /\ \A s \in P!StageSet : file.claims[j][s].outcome \in P!Spent)
    BY DEF PushInv, PayloadOnce, Submitted, IsSpent, P!Spent
  <2>. QED BY <2>1, <2>2, <2>3 DEF P!DurableTogether, P!AnswerDurable
<1>. QED BY <1>1, PushHolds, PTL

\* A key's counter is accepted once, over all jobs that verify with it
\* (complete_claim in store.py).
THEOREM CountersAreAcceptedOnce ==
  ASSUME P!PushAssumption
  PROVE  P!Spec => []CounterOnce
<1>1. PushInv => CounterOnce
  <2>. SUFFICES ASSUME PushInv, NEW k \in Keys
                PROVE  /\ P!Cardinality(VerifiedBy(file, k)) = P!Cardinality(proofs[k])
                       /\ IF file.counters[k] = None THEN VerifiedBy(file, k) = {}
                          ELSE /\ file.counters[k].revision = P!Cardinality(VerifiedBy(file, k))
                               /\ \A v \in proofs[k] : v <= file.counters[k].counter
    BY DEF CounterOnce, P!CounterOnce, VerifiedBy
  <2>1. KeyAt(file, k, proofs[k])
    BY DEF PushInv
  <2>. QED BY <2>1, PushCard DEF KeyAt
<1>. QED BY <1>1, PushHolds, PTL

LEMMA PositiveStep ==
  ASSUME P!PushAssumption, PushInv, [P!Next]_(P!vars)
  PROVE  P!KeepsCurrent
<1>1. ASSUME NEW s \in steps, P!Complete(s)
      PROVE  P!KeepsCurrent
  <2>. DEFINE a == s.adm
              m == P!Guarded(mem, a, clock)
              n == P!Guarded(m, a, clock')
              told == P!Told(a, s.stage)
  <2>1. given' = given /\ told.parent = a.parent
    BY <1>1 DEF P!Complete, P!Told
  <2>2. \/ answers' = answers
        \/ /\ P!Passes(m, a, clock') /\ answers' = answers \cup {told}
           /\ mem' = IF s.stage = "submit" THEN [n EXCEPT !.handles[a.job] = a] ELSE n
    BY <1>1 DEF P!Complete
  <2>3. TypedMem(m) /\ TypedMem(n) /\ (P!Passes(m, a, clock') => n.retired = m.retired)
    <3>1. TypedMem(m)
      BY GuardKeeps DEF PushInv
    <3>. HIDE DEF m
    <3>. QED BY <3>1, GuardKeeps
  <2>4. P!Passes(m, a, clock') => a.parent \notin m.retired
    BY DEF P!Passes, P!Late
  <2>. HIDE DEF a, m, n, told
  <2>5. (mem' = IF s.stage = "submit" THEN [n EXCEPT !.handles[a.job] = a] ELSE n) => mem'.retired = n.retired
    BY <2>3 DEF TypedMem
  <2>6. \A x \in answers' \ answers : x.parent \notin mem'.retired
    BY <2>1, <2>2, <2>3, <2>4, <2>5
  <2>. QED BY <2>1, <2>6 DEF P!KeepsCurrent
<1>2. ASSUME NEW a \in Admissions, NEW c \in Children, NEW x \in ChildExpiries, P!BindChild(a, c, x)
      PROVE  P!KeepsCurrent
  <2>. DEFINE m == P!Guarded(mem, a, clock)
  <2>1. /\ given' = given
        /\ \/ answers' = answers
           \/ P!Passes(m, a, clock') /\ answers' = answers \cup {P!Told(a, c)} /\ mem' = P!Guarded(m, a, clock')
    BY <1>2 DEF P!BindChild
  <2>2. TypedMem(m)
    BY GuardKeeps DEF PushInv
  <2>. HIDE DEF m
  <2>3. P!Passes(m, a, clock') => a.parent \notin P!Guarded(m, a, clock').retired
    BY <2>2, GuardKeeps DEF P!Passes, P!Late
  <2>. QED BY <2>1, <2>3 DEF P!KeepsCurrent, P!Told
<1>3. ASSUME NEW a \in Admissions, P!Observe(a)
      PROVE  P!KeepsCurrent
  <2>1. answers' = answers /\ a.job \in Jobs /\ given \in [Jobs -> Nat]
    BY <1>3, Admitted DEF P!Observe, PushInv
  <2>2. CASE given' = given
    BY <2>1, <2>2 DEF P!KeepsCurrent
  <2>3. CASE given' # given
    <3>1. /\ given' = [given EXCEPT ![a.job] = given[a.job] + 1]
          /\ P!MaySubmit(file, a) /\ P!MaySubmit(file', a) /\ (clock' = clock \/ clock' \in P!Readings)
      BY <1>3, <2>3, ObserveSteps
    <3>2. PICK n : TypedMem(n) /\ mem' = P!Guarded(n, a, clock') /\ P!Passes(n, a, clock')
      BY <1>3, <2>3, ObserveSteps
    <3>3. \A j \in Jobs : given'[j] # given[j] => j = a.job
      BY <2>1, <3>1
    <3>4. file.jobs[a.job].parent = a.parent /\ file.jobs[a.job].deadline = a.deadline /\ file'.parents[a.parent] = "live"
      BY <3>1 DEF P!MaySubmit, P!JobFits, P!ParentFits, P!LiveParent, P!Binding
    <3>5. a.parent \notin mem'.retired
      BY <3>2, GuardKeeps DEF P!Passes, P!Late
    <3>6. clock'.utc < a.deadline
      <4>1. clock'.utc \in Int /\ a.deadline \in Nat
        BY <3>1, Admitted, ReadingTyped DEF PushInv, ClockTyped
      <4>. QED BY <3>2, <4>1 DEF P!Passes, P!Late
    <3>. QED BY <2>1, <3>3, <3>4, <3>5, <3>6 DEF P!KeepsCurrent
  <2>. QED BY <2>2, <2>3
<1>4. ASSUME UNCHANGED <<answers, given>>
      PROVE  P!KeepsCurrent
  BY <1>4 DEF P!KeepsCurrent
<1>5. ASSUME NEW p \in Parents, P!PutParent(p) \/ P!Retire(p)
      PROVE  P!KeepsCurrent
  BY <1>4, <1>5 DEF P!PutParent, P!Retire
<1>6. ASSUME NEW a \in Admissions, P!Refuse(a) \/ P!Begin(a)
      PROVE  P!KeepsCurrent
  BY <1>4, <1>6 DEF P!Refuse, P!Begin
<1>7. ASSUME NEW a \in Admissions, NEW stage, NEW proof, P!Reserve(a, stage, proof)
      PROVE  P!KeepsCurrent
  BY <1>4, <1>7 DEF P!Reserve
<1>8. ASSUME NEW s \in steps, P!Break(s)
      PROVE  P!KeepsCurrent
  BY <1>4, <1>8 DEF P!Break
<1>9. CASE P!Close \/ P!Tick \/ P!Restart \/ UNCHANGED P!vars
  BY <1>4, <1>9 DEF P!Close, P!Tick, P!Restart, P!vars
<1>. QED BY <1>1, <1>2, <1>3, <1>5, <1>6, <1>7, <1>8, <1>9 DEF P!Next

\* Nothing positive leaves a parent that is retired, nor a payload a job whose
\* deadline has passed.
THEOREM PositivesAreCurrent ==
  ASSUME P!PushAssumption
  PROVE  P!Spec => PositiveIsCurrent
<1>1. PushInv /\ [P!Next]_(P!vars) => P!KeepsCurrent
  BY PositiveStep
<1>2. PushInv /\ [P!Next]_(P!vars) => [P!KeepsCurrent]_(P!vars)
  BY <1>1
<1>. QED BY <1>2, PushHolds, PTL DEF P!Spec, PositiveIsCurrent, P!PositiveIsCurrent
=============================================================================
