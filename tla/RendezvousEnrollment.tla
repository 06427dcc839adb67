------------------------- MODULE RendezvousEnrollment -------------------------
(***************************************************************************)
(* The object of one App Attest key (src/qualification/rendezvous,         *)
(* EnrollmentKeyState over ReceiptKeyStore): a challenge is issued, an     *)
(* attestation is verified against it and the key installed with its       *)
(* encrypted receipt, which is later read and encrypted anew.  While a     *)
(* call verifies, encrypts or awaits the alarm others run; issue and       *)
(* install commit in turn; the object restarts with its tables; the        *)
(* environment may name another policy or another receipt key.             *)
(*                                                                         *)
(* A call of issue stands for the challenge it draws.  The steps of the    *)
(* evidence verifier and the encryption are taken with the await they end. *)
(***************************************************************************)
EXTENDS Integers, FiniteSets

CONSTANTS
  Issues, Enrolls, Rotations,  \* the calls
  Bodies,         \* attestations
  ChallengeLife, KeyLife,
  PolicyEnd,      \* when the policy of the environment expires
  MaxCounter, MaxChanges, MaxRestarts, MaxTime,  \* bounds
  None

VARIABLES
  op,         \* enrollment_operation
  row,        \* key_state
  env,        \* ENROLLMENT_POLICY_REVISION and RECEIPT_ACTIVE_KEY
  busy,       \* the enrollment that is under way, with #intent
  calls,
  now,
  restarts,
  installed,  \* history: what was installed, by challenge
  ended       \* history: challenges whose key was deleted

\* A challenge ends before the key that it enrolls; no record and no answer is the
\* absent one.
EnrollmentAssumption ==
  /\ None # "registered"
  /\ Issues \cap Enrolls = {} /\ Issues \cap Rotations = {} /\ Enrolls \cap Rotations = {}
  /\ ChallengeLife \in Nat /\ KeyLife \in Nat /\ ChallengeLife <= KeyLife /\ PolicyEnd \in Nat
  /\ None \notin [id : Issues, status : {"challenge", "registered"}, expires : Nat, revision : Nat,
                  digest : Bodies \cup {None}, until : Nat]
  /\ None \notin [status : {"active", "revoked"}, expires : Nat, counter : Nat, revision : Nat, secret : Nat]

vars == <<op, row, env, busy, calls, now, restarts, installed, ended>>

\* The calls of the object.
Pending == Issues \cup Enrolls \cup Rotations
Earlier(a, b) == IF a <= b THEN a ELSE b
Step(c, pc) == calls' = [calls EXCEPT ![c].pc = pc]
Answer(c, what) == calls' = [calls EXCEPT ![c].pc = "end", ![c].answer = what]

IsPolicy == now < PolicyEnd
IsLive(o) == o # None /\ now < o.expires /\ o.revision = env.revision /\ IsPolicy

(***************************************************************************)
(* The tables as the cleanups leave them: a key that expired becomes a     *)
(* tombstone and takes the operation with it.                              *)
(***************************************************************************)
IsExpiring == row # None /\ row.status = "active" /\ now >= row.expires
Tombstone(r) == [r EXCEPT !.status = "revoked"]
SweptRow == IF IsExpiring THEN Tombstone(row) ELSE row
SweptOp == IF IsExpiring \/ (op # None /\ now >= op.expires) THEN None ELSE op

(***************************************************************************)
(* issueEnrollment.                                                        *)
(***************************************************************************)
Issue(c) ==
  /\ calls[c].pc = "idle" /\ IsPolicy
  /\ calls' = [calls EXCEPT ![c].pc = "issuing",
                 ![c].op = [id |-> c, status |-> "challenge", expires |-> Earlier(now + ChallengeLife, PolicyEnd),
                            revision |-> env.revision, digest |-> None, until |-> 0]]
  /\ UNCHANGED <<op, row, env, busy, now, restarts, installed, ended>>

IsLocked == \E c \in Enrolls : calls[c].pc = "committing"

\* A challenge that is open under the same policy is returned again.
Issued(c) ==
  LET draft == calls[c].op
      existing == SweptOp
  IN /\ calls[c].pc = "issuing" /\ ~IsLocked /\ IsLive(draft)
     /\ existing # None => existing.status = "challenge" /\ existing.revision = env.revision
     /\ op' = IF existing # None THEN existing ELSE draft
     /\ row' = SweptRow /\ Answer(c, op'.id)
     /\ UNCHANGED <<env, busy, now, restarts, installed, ended>>

(***************************************************************************)
(* enroll.                                                                 *)
(***************************************************************************)
\* The receipt of a registration: for the same request, while its key lives.
IsRegistered(id, body) ==
  /\ IsLive(op) /\ op.status = "registered" /\ op.id = id /\ op.digest = body
  /\ row # None /\ row.status = "active" /\ now < row.expires /\ op.until = row.expires

Repeat(c) ==
  /\ calls[c].pc = "idle" /\ busy = None /\ IsLive(op)
  /\ \E body \in Bodies :
       /\ IsRegistered(op.id, body)
       /\ calls' = [calls EXCEPT ![c].pc = "end", ![c].op = op, ![c].body = body,
                             ![c].answer = "registered", ![c].until = row.expires]
  /\ UNCHANGED <<op, row, env, busy, now, restarts, installed, ended>>

Begin(c) ==
  /\ calls[c].pc = "idle" /\ busy = None /\ IsLive(op) /\ op.status = "challenge"
  /\ \E body \in Bodies :
       calls' = [calls EXCEPT ![c].pc = "verify", ![c].op = op, ![c].body = body]
  /\ busy' = c
  /\ UNCHANGED <<op, row, env, now, restarts, installed, ended>>

\* The challenge that was read is still there, under the policy of its issue.
IsStill(c) == IsLive(op) /\ op = calls[c].op

\* The evidence holds until some time; the key lives from here.
Verified(c) ==
  /\ calls[c].pc = "verify" /\ IsStill(c)
  /\ \E valid \in now + 1 .. op.expires :
       calls' = [calls EXCEPT ![c].pc = "install", ![c].valid = valid, ![c].secret = env.secret,
                              ![c].until = now + KeyLife]
  /\ UNCHANGED <<op, row, env, busy, now, restarts, installed, ended>>

Lock(c) ==
  /\ calls[c].pc = "install" /\ ~IsLocked /\ Step(c, "committing")
  /\ UNCHANGED <<op, row, env, busy, now, restarts, installed, ended>>

MayInstallAgain(c) == IsLive(calls[c].op) /\ now < calls[c].valid

\* beforeInstallCommit: not even a tombstone is replaced.
MayInstall(c) ==
  /\ IsStill(c) /\ now < calls[c].valid /\ row = None
  /\ env.secret = calls[c].secret /\ now < calls[c].until

\* didInstallCommit: the challenge becomes the receipt of the registration.
Receipt(c) ==
  [calls[c].op EXCEPT !.status = "registered", !.digest = calls[c].body, !.until = calls[c].until]

Install(c) ==
  LET o == calls[c].op
  IN /\ calls[c].pc = "committing" /\ MayInstall(c)
     /\ row' = [status |-> "active", expires |-> calls[c].until, counter |-> 0, revision |-> 1,
                secret |-> calls[c].secret]
     /\ op' = Receipt(c)
     /\ installed' = installed \cup
          {[id |-> o.id, body |-> calls[c].body, until |-> calls[c].until, at |-> now,
            revision |-> env.revision, drawn |-> o.revision, expires |-> o.expires]}
     /\ Step(c, "arming")
     /\ UNCHANGED <<env, busy, now, restarts, ended>>

Enrolled(c) ==
  /\ calls[c].pc = "arming" /\ ~IsLocked /\ IsRegistered(calls[c].op.id, calls[c].body)
  /\ calls' = [calls EXCEPT ![c].pc = "end", ![c].answer = "registered", ![c].until = row.expires]
  /\ busy' = None
  /\ UNCHANGED <<op, row, env, now, restarts, installed, ended>>

(***************************************************************************)
(* The key afterwards: advanceInternal by an assertion, revokeInternal by  *)
(* a deletion, rotateInternal, and the alarm.                              *)
(***************************************************************************)
IsActive == row # None /\ row.status = "active" /\ now < row.expires

Advance ==
  /\ IsActive /\ row.counter < MaxCounter
  /\ row' = [row EXCEPT !.counter = @ + 1, !.revision = @ + 1]
  /\ UNCHANGED <<op, env, busy, calls, now, restarts, installed, ended>>

Revoke ==
  /\ row # None /\ row.status = "active"
  /\ row' = Tombstone(row) /\ op' = None
  /\ ended' = ended \cup {i.id : i \in {j \in installed : j.until = row.expires}}
  /\ UNCHANGED <<env, busy, calls, now, restarts, installed>>

\* The receipt opens with the active or the previous key.
Rotate(c) ==
  /\ calls[c].pc = "idle" /\ IsActive /\ row.secret \in {env.secret, env.secret - 1}
  /\ calls' = [calls EXCEPT ![c].pc = "encrypt", ![c].row = row, ![c].secret = env.secret]
  /\ UNCHANGED <<op, row, env, busy, now, restarts, installed, ended>>

IsReadUnrevised(c) == IsActive /\ now < calls[c].row.expires

\* The row that was read is written back whole (bound: within its 30 days).
IsRead(c) == IsActive /\ row.revision = calls[c].row.revision /\ now < calls[c].row.expires

Rotated(c) ==
  /\ calls[c].pc = "encrypt" /\ IsRead(c)
  /\ row' = [calls[c].row EXCEPT !.secret = calls[c].secret, !.revision = @ + 1]
  /\ Answer(c, "rotated")
  /\ UNCHANGED <<op, env, busy, now, restarts, installed, ended>>

Alarm ==
  /\ op' = SweptOp
  /\ row' = IF SweptRow # None /\ SweptRow.status = "revoked" /\ now >= row.expires + ChallengeLife
            THEN None ELSE SweptRow
  /\ <<op', row'>> # <<op, row>>
  /\ UNCHANGED <<env, busy, calls, now, restarts, installed, ended>>

\* A check or a write fails, or evidence is rejected or unavailable.
Refuse(c) ==
  /\ calls[c].pc \notin {"idle", "end"} /\ Answer(c, "refused")
  /\ busy' = IF busy = c THEN None ELSE busy
  /\ UNCHANGED <<op, row, env, now, restarts, installed, ended>>

Restart ==
  /\ restarts < MaxRestarts /\ restarts' = restarts + 1 /\ busy' = None
  /\ calls' = [c \in Pending |-> IF calls[c].pc \in {"idle", "end"} THEN calls[c]
                               ELSE [calls[c] EXCEPT !.pc = "end", !.answer = "lost"]]
  /\ UNCHANGED <<op, row, env, now, installed, ended>>

Change ==
  /\ env.revision + env.secret < MaxChanges
  /\ env' \in {[env EXCEPT !.revision = @ + 1], [env EXCEPT !.secret = @ + 1]}
  /\ UNCHANGED <<op, row, busy, calls, now, restarts, installed, ended>>

Tick ==
  /\ now < MaxTime /\ now' = now + 1
  /\ UNCHANGED <<op, row, env, busy, calls, restarts, installed, ended>>

Init ==
  /\ op = None /\ row = None /\ env = [revision |-> 0, secret |-> 0] /\ busy = None
  /\ calls = [c \in Pending |-> [pc |-> "idle", op |-> None, body |-> None, valid |-> 0, until |-> 0,
                               secret |-> 0, row |-> None, answer |-> None]]
  /\ now = 0 /\ restarts = 0 /\ installed = {} /\ ended = {}

Next ==
  \/ \E c \in Issues : Issue(c) \/ Issued(c)
  \/ \E c \in Enrolls : \/ Repeat(c) \/ Begin(c) \/ Verified(c) \/ Lock(c)
                        \/ Install(c) \/ Enrolled(c)
  \/ \E c \in Rotations : Rotate(c) \/ Rotated(c)
  \/ \E c \in Pending : Refuse(c)
  \/ Advance \/ Revoke \/ Alarm \/ Restart \/ Change \/ Tick

Spec == Init /\ [][Next]_vars

(***************************************************************************)
(* Properties.                                                             *)
(***************************************************************************)
\* A challenge installs at most one key, with one attestation, before it
\* expires and under the policy it was issued under; and no key is installed
\* over another one or over its tombstone, whatever calls overlap.
InstalledOnce ==
  \A i \in installed :
    /\ i.at < i.expires /\ i.revision = i.drawn
    /\ \A j \in installed \ {i} : j.id # i.id /\ (j.at >= i.until + ChallengeLife \/ i.at >= j.until + ChallengeLife)

\* docs/rendezvous/KEY_STATE_V1.md:27: an enrollment that was answered is the one
\* that was installed, with the same end; and one whose answer was lost can be
\* repeated: while its challenge lives, and unless its key was deleted, the
\* receipt of the registration is kept.
Repeatable ==
  /\ \A c \in Enrolls : calls[c].answer = "registered" =>
       \E i \in installed : /\ i.id = calls[c].op.id /\ i.body = calls[c].body
                            /\ i.until = calls[c].until
  /\ \A i \in installed : now < i.expires /\ i.id \notin ended /\ env.revision = i.revision /\ IsPolicy =>
       IsRegistered(i.id, i.body)

\* An enrollment takes effect once, and may be asked for again.
OneEnrollment == InstalledOnce /\ Repeatable

\* Encrypting the receipt anew writes back a row that was read before the
\* encryption: the counter of a key never falls, and a deletion is not undone.
KeepsKey ==
  row # None /\ row' # None /\ row'.expires = row.expires =>
    row'.counter >= row.counter /\ (row.status = "revoked" => row'.status = "revoked")
NeverUndone == [][KeepsKey]_vars
=============================================================================
