-------------------------- MODULE InstallationRegistry --------------------------
(***************************************************************************)
(* The registry of installation principals (src/coordinator/               *)
(* installation-registry/registry.ts): an intent is prepared, attempted    *)
(* once, committed with a proof of possession or withdrawn.  Between the   *)
(* transactions of a call, while it waits for the disk or for a            *)
(* verification, other calls run; the owner's port may refuse at any point *)
(* and the object may restart, with what the disk had.                     *)
(*                                                                         *)
(* An operation stands for the chain of records it was prepared with; only *)
(* the revision of the state counts here, not that of the ledger.          *)
(***************************************************************************)
EXTENDS Integers, FiniteSets

CONSTANTS
  Requests, AsksOf,   \* [Requests -> set of [kind, id]]
  Intents, IntentOf,  \* [Intents -> [principal, epoch, revision, claims]]
  Withdrawals, WithdrawalOf,  \* [Withdrawals -> [op, committed, revision, claims]]
  MaxIntents, MaxClaims,      \* ir_meta
  MaxCrashes,         \* bound: restarts
  None

VARIABLES
  store,    \* the tables, as the transactions left them
  disk,     \* what a restart finds
  closed,
  rq,       \* the calls
  crashes

vars == <<store, disk, closed, rq, crashes>>

Asks ==
  [kind : {"prepare", "admit", "read"}, id : Intents] \cup [kind : {"withdraw"}, id : Withdrawals] \cup
  [kind : {"status"}, id : Intents \cup Withdrawals]
Stages == {"PREPARED", "ATTEMPTED", "COMMITTED", "RETIRED"}
Row == [tag : {"RESERVED", "UNKNOWN", "COMMITTED", "RETIRED"}, revision : Nat, by : Withdrawals \cup {None}]

\* An operation, a challenge and a nonce for each intent and each withdrawal,
\* which is of an intent; no row or answer is the absent one.
RegistryAssumption ==
  /\ AsksOf \in [Requests -> SUBSET Asks] /\ Intents \cap Withdrawals = {}
  /\ \A i \in Intents : /\ IsFiniteSet(IntentOf[i].claims) /\ Cardinality(IntentOf[i].claims) = 3
                         /\ IntentOf[i].epoch \in Nat
  /\ \A w \in Withdrawals : /\ WithdrawalOf[w].op \in Intents /\ IsFiniteSet(WithdrawalOf[w].claims)
                             /\ Cardinality(WithdrawalOf[w].claims) = 3
  /\ {MaxIntents, MaxClaims} \subseteq Nat
  /\ None \notin Asks /\ None \notin Row /\ None \notin Nat /\ None \notin Stages \cup {"principal"} /\ None \notin Withdrawals

Goto(r, pc) == rq' = [rq EXCEPT ![r].pc = pc]
Reply(r, what) == rq' = [rq EXCEPT ![r].pc = "end", ![r].answer = what]

\* The positive fence, and the owner's, whose refusal is Abandon.
MayGoOn(r) == rq[r].ask.kind = "withdraw" \/ ~closed

IsCurrent(revision) == store.state = revision

\* The identity claims of an operation, its challenge and its nonce.
AreNew(c) == store.claims \cap c = {}

Ask(r) ==
  /\ rq[r].pc = "idle"
  /\ \E ask \in AsksOf[r] : rq' = [rq EXCEPT ![r].ask = ask, ![r].pc = ask.kind]
  /\ UNCHANGED <<store, disk, closed, crashes>>

(***************************************************************************)
(* prepare.                                                                *)
(***************************************************************************)
Recorded == {o \in Intents : store.stage[o] # None}
Unretired == {o \in Recorded : store.stage[o] # "RETIRED"}

\* Every intent spends three claims and keeps three for its one withdrawal.
HasRoomOnce ==
  Cardinality(Recorded) < MaxIntents /\ Cardinality(store.claims) + 3 * Cardinality(Unretired) + 3 <= MaxClaims

HasRoom ==
  /\ Cardinality(Recorded) < MaxIntents
  /\ Cardinality(store.claims) + 3 * Cardinality(Unretired) + 6 <= MaxClaims

\* The epoch that follows the last one of its principal, which is retired.
IsNext(i) ==
  LET before == {o \in Recorded : IntentOf[o].principal = IntentOf[i].principal}
  IN /\ before = {} => IntentOf[i].epoch = 1
     /\ before # {} =>
          \E o \in before : /\ \A p \in before : IntentOf[p].epoch <= IntentOf[o].epoch
                            /\ IntentOf[i].epoch = IntentOf[o].epoch + 1
                            /\ store.stage[o] = "RETIRED"

Prepare(r) ==
  LET i == rq[r].ask.id
      c == IntentOf[i].claims
  IN /\ rq[r].pc = "prepare" /\ MayGoOn(r)
     /\ IsCurrent(IntentOf[i].revision) /\ HasRoom /\ IsNext(i) /\ AreNew(c)
     /\ store' = [store EXCEPT !.claims = @ \cup c, !.stage[i] = "PREPARED",
                               !.row[i] = [tag |-> "RESERVED", revision |-> 0, by |-> None]]
     /\ Goto(r, "prepared") /\ UNCHANGED <<disk, closed, crashes>>

(***************************************************************************)
(* admit: the attempt is spent before the proof is verified.               *)
(***************************************************************************)
Attempt(r) ==
  LET i == rq[r].ask.id
  IN /\ rq[r].pc = "admit" /\ MayGoOn(r)
     /\ IsCurrent(IntentOf[i].revision) /\ store.stage[i] = "PREPARED"
     /\ store' = [store EXCEPT !.stage[i] = "ATTEMPTED", !.row[i].tag = "UNKNOWN"]
     /\ Goto(r, "attempted") /\ UNCHANGED <<disk, closed, crashes>>

MayCommit(i) ==
  /\ IsCurrent(IntentOf[i].revision) /\ store.stage[i] = "ATTEMPTED" /\ store.retired[i] = None

\* The proof holds; the principal appears with the revision it makes.
Commit(r) ==
  LET i == rq[r].ask.id
      revision == store.state + 1
  IN /\ rq[r].pc = "verify" /\ MayGoOn(r) /\ MayCommit(i)
     /\ store' = [store EXCEPT !.state = revision, !.principal[i] = revision, !.stage[i] = "COMMITTED",
                               !.row[i] = [@ EXCEPT !.tag = "COMMITTED", !.revision = revision]]
     /\ Goto(r, "admitted") /\ UNCHANGED <<disk, closed, crashes>>

(***************************************************************************)
(* withdrawOriginal, withdrawCommitted.                                    *)
(***************************************************************************)
\* A committed principal is withdrawn at the revision it was seen at.
MayWithdraw(w) ==
  LET x == WithdrawalOf[w]
  IN /\ store.stage[x.op] # None /\ store.retired[x.op] = None /\ AreNew(x.claims)
     /\ x.committed => IsCurrent(x.revision) /\ store.principal[x.op] # None

Withdraw(r) ==
  LET w == rq[r].ask.id
      x == WithdrawalOf[w]
      revision == store.state + 1
  IN /\ rq[r].pc = "withdraw"
     /\ \/ store.retired[x.op] = w /\ UNCHANGED store
        \/ /\ MayWithdraw(w)
           /\ store' = [store EXCEPT
                !.claims = @ \cup x.claims, !.state = revision, !.retired[x.op] = w, !.stage[x.op] = "RETIRED",
                !.row = [@ EXCEPT ![x.op] = [tag |-> "RETIRED", revision |-> revision, by |-> w],
                                  ![w] = [tag |-> "COMMITTED", revision |-> revision, by |-> None]]]
     /\ Goto(r, "withdrawn") /\ UNCHANGED <<disk, closed, crashes>>

(***************************************************************************)
(* The disk, and status at the end of each call.                           *)
(***************************************************************************)
Synced(r) == disk' = store

Sync(r) ==
  LET pc == rq[r].pc
  IN /\ pc \in {"prepared", "attempted", "admitted", "withdrawn"} /\ Synced(r)
     /\ pc = "prepared" => store.stage[rq[r].ask.id] = "PREPARED"
     /\ Goto(r, IF pc = "attempted" THEN "verify" ELSE "status")
     /\ UNCHANGED <<store, closed, crashes>>

\* A committed result is decoded before it is answered.
Status(r) ==
  LET row == store.row[rq[r].ask.id]
  IN /\ rq[r].pc = "status" /\ MayGoOn(r)
     /\ IF row # None /\ row.tag = "COMMITTED"
          THEN rq' = [rq EXCEPT ![r].pc = "decoded", ![r].seen = row]
          ELSE Reply(r, IF row = None THEN "NOT_FOUND_DATA" ELSE row.tag)
     /\ UNCHANGED <<store, disk, closed, crashes>>

IsStillAnything(r) == TRUE

\* No positive answer from before a withdrawal.
IsStill(r) == store.row[rq[r].ask.id] = rq[r].seen

Answer(r) ==
  /\ rq[r].pc = "decoded" /\ MayGoOn(r) /\ IsStill(r) /\ Reply(r, rq[r].seen.tag)
  /\ UNCHANGED <<store, disk, closed, crashes>>

\* readPrincipal, which looks twice.
Captured(i) == [revision |-> store.principal[i], at |-> store.state]

Read(r) ==
  LET i == rq[r].ask.id
  IN /\ rq[r].pc \in {"read", "reread"} /\ MayGoOn(r)
     /\ store.stage[i] = "COMMITTED" /\ store.retired[i] = None
     /\ IF rq[r].pc = "read"
          THEN rq' = [rq EXCEPT ![r].pc = "reread", ![r].seen = Captured(i)]
          ELSE rq[r].seen = Captured(i) /\ Reply(r, "principal")
     /\ UNCHANGED <<store, disk, closed, crashes>>

(***************************************************************************)
(* What else happens.                                                      *)
(***************************************************************************)
\* A check fails, the proof is wrong, the port refuses, the caller is gone.
Abandon(r) ==
  /\ rq[r].pc \notin {"idle", "end"} /\ Reply(r, "none")
  /\ UNCHANGED <<store, disk, closed, crashes>>

\* The runtime writes on its own account; after the last restart it is of no
\* account when.
Flush == crashes < MaxCrashes /\ disk' = store /\ UNCHANGED <<store, closed, rq, crashes>>

Close == ~closed /\ closed' = TRUE /\ UNCHANGED <<store, disk, rq, crashes>>

Restart ==
  /\ crashes < MaxCrashes /\ crashes' = crashes + 1
  /\ store' = disk /\ closed' = FALSE
  /\ rq' = [r \in Requests |-> IF rq[r].pc \in {"idle", "end"} THEN rq[r]
                                 ELSE [rq[r] EXCEPT !.pc = "end", !.answer = "none"]]
  /\ UNCHANGED disk

\* initialize was called.
Initial ==
  [state |-> 0, claims |-> {}, stage |-> [i \in Intents |-> None],
   row |-> [o \in Intents \cup Withdrawals |-> None],
   principal |-> [i \in Intents |-> None], retired |-> [i \in Intents |-> None]]

Init ==
  /\ store = Initial /\ disk = Initial /\ closed = FALSE /\ crashes = 0
  /\ rq = [r \in Requests |-> [pc |-> "idle", ask |-> None, seen |-> None, answer |-> None]]

Next ==
  \/ \E r \in Requests :
       \/ Ask(r) \/ Prepare(r) \/ Attempt(r) \/ Commit(r) \/ Withdraw(r) \/ Sync(r)
       \/ Status(r) \/ Answer(r) \/ Read(r) \/ Abandon(r)
  \/ Flush \/ Close \/ Restart

Spec == Init /\ [][Next]_vars

(***************************************************************************)
(* Properties.                                                             *)
(***************************************************************************)

\* Whoever was told that a principal was committed or withdrawn finds it so
\* after any restart; and no proof is verified for an intent whose attempt a
\* restart could give back.
AnswersKept ==
  \A r \in Requests :
    /\ rq[r].answer = "COMMITTED" /\ rq[r].ask.kind \in {"admit", "withdraw"} => 
         /\ disk.row[rq[r].ask.id] # None
         /\ disk.row[rq[r].ask.id].tag \in {"COMMITTED", "RETIRED"}
    /\ rq[r].pc = "verify" => disk.stage[rq[r].ask.id] \notin {None, "PREPARED"}

\* Every intent that is not retired can still be withdrawn, whatever was
\* prepared beside it; a principal has one such intent, its latest; each
\* change of the state has a revision of its own, and the tables agree on what
\* became of an intent.
Withdrawable ==
  LET changes == {store.principal[i] : i \in Intents} \cup
                 {store.row[w].revision : w \in {x \in Withdrawals : store.row[x] # None}}
  IN /\ Cardinality(store.claims) + 3 * Cardinality(Unretired) <= MaxClaims
     /\ \A i \in Unretired : \A j \in Recorded \ {i} :
          IntentOf[i].principal = IntentOf[j].principal => IntentOf[j].epoch < IntentOf[i].epoch
     /\ Cardinality(changes \ {None}) = store.state
     /\ \A i \in Recorded : /\ store.stage[i] = "COMMITTED" => store.principal[i] # None
                            /\ store.stage[i] = "RETIRED" <=> store.retired[i] # None

\* Nobody is answered with a principal that is no longer one at that moment.
AnswersNow ==
  \A r \in Requests :
    rq[r].answer = None /\ rq'[r].answer \in {"principal", "COMMITTED"} =>
      store.row[rq[r].ask.id].tag = "COMMITTED"
NoLateAnswer == [][AnswersNow]_vars

\* A commit that was answered is kept, and can still be withdrawn.
Kept == AnswersKept /\ Withdrawable
=============================================================================
