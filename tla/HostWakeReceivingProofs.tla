----------------------- MODULE HostWakeReceivingProofs -----------------------
(***************************************************************************)
(* Proofs about the receiving side of host app wake.  A statement may run  *)
(* long after its request has given it up, so that each is looked at on    *)
(* its own, whoever runs it: what it does to the rows of a purpose (Turn), *)
(* and what a request knows when it is about to run it (Requests).         *)
(***************************************************************************)
EXTENDS HostWakeReceiving, TLAPS

\* The kinds of request that come to each of their steps.
KindsAt(pc) ==
  IF pc \in {"native", "reserve", "bound", "insert", "publish", "confirm", "answered"} THEN {"issue"}
  ELSE IF pc \in {"intent", "bind", "finish"} THEN Positive
  ELSE IF pc = "public" THEN {"challenge", "complete"}
  ELSE IF pc = "job" THEN {"challenge"}
  ELSE IF pc \in {"claim", "verify", "commit"} THEN {"complete"}
  ELSE IF pc = "match" THEN {"register", "wake"}
  ELSE IF pc = "register" THEN {"register"}
  ELSE IF pc \in {"wake", "mark"} THEN {"wake"}
  ELSE IF pc \in {"withdraw_policy", "withdraw_all"} THEN {"withdraw", "policy_withdraw"}
  ELSE Kinds
Over == {"fail_proof", "fail_issuer", "fail_intent", "done"}

\* A request that gave up its statement writes only what its catch block can.
Shape(c) ==
  /\ calls[c].pc # "idle" => calls[c].purpose \in Purposes /\ calls[c].op \in Ops
                             /\ calls[c].kind \in Kinds /\ calls[c].kind \in KindsAt(calls[c].pc)
  /\ late[c] # None => calls[c].pc \in Over
  /\ calls[c].pc \in {"intent", "bind", "public", "claim", "verify"} => calls[c].counter = 0

\* The statement a request is about to run, or has given up.
Stage(c) == IF late[c] # None THEN late[c] ELSE calls[c].pc
\* What it brings to it.
Carries(c) ==
  LET q == calls[c]
      j == db.jobs[q.purpose]
  IN /\ Stage(c) = "reserve" => q.native \in Natives
     /\ Stage(c) = "commit" =>
          j # None /\ IF j.native = "attestation" THEN q.counter = 0 ELSE q.counter > q.seen

\* The rows a request has written.
Issues(c) ==
  LET q == calls[c]
      s == db.issuer[q.purpose]
      t == db.purpose[q.purpose]
  IN /\ q.pc \in {"bound", "insert", "publish", "confirm"} => s # None /\ s.claim = c
     /\ q.kind = "issue" /\ q.pc = "finish" => s # None /\ s.claim = c
     /\ q.pc \in {"publish", "confirm"} \/ (q.kind = "issue" /\ q.pc = "finish") => t # None /\ t.claim = c
     /\ q.pc = "acked" /\ q.kind = "revoke" => s # None /\ s.outcome = "withdrawn"
Requests == \A c \in Calls : Shape(c) /\ Carries(c) /\ Issues(c)

Closed(p) ==
  /\ db.purpose[p] = None \/ (db.purpose[p].withdrawn /\ ~db.purpose[p].token)
  /\ db.issuer[p] = None \/ db.issuer[p].outcome = "withdrawn"
  /\ db.jobs[p] = None \/ db.jobs[p].outcome = "withdrawn"
\* Whatever hangs on an issuer has one, and what is fenced off is closed.
Rooted ==
  \A p \in Purposes :
    /\ db.purpose[p] # None \/ db.jobs[p] # None => db.issuer[p] # None
    /\ p \in db.fence \/ db.auth = "withdrawn" => Closed(p)
    /\ db.issuer[p] # None /\ db.issuer[p].outcome = "withdrawn" => Closed(p)
    /\ db.reg[p] # None => calls[db.reg[p]].pc # "idle" /\ calls[db.reg[p]].purpose = p
KeyProved == db.key # None => db.verif[db.key.job] # None
IInv == TypeOK /\ Requests /\ Rooted /\ CounterOnce /\ KeyProved

-----------------------------------------------------------------------------
\* What a statement may do to the rows of a purpose: nothing, something while
\* nothing above is withdrawn, or close them.
Active(p) ==
  /\ p \notin db'.fence /\ db'.auth # "withdrawn"
  /\ db'.issuer[p] # None /\ db'.issuer[p].outcome # "withdrawn"
Untouched(p) ==
  /\ db'.issuer[p] = db.issuer[p] /\ db'.jobs[p] = db.jobs[p] /\ db'.purpose[p] = db.purpose[p]
  /\ p \in db'.fence => p \in db.fence
  /\ db'.auth = "withdrawn" => db.auth = "withdrawn"
RowsMove(p) == Untouched(p) \/ Active(p) \/ Closed(p)'
RootedRow(p) == db.purpose[p] # None \/ db.jobs[p] # None => db.issuer[p] # None

\* What never changes in a row.
Keeps(p) ==
  /\ db.issuer[p] # None =>
       /\ db'.issuer[p] # None /\ db'.issuer[p].claim = db.issuer[p].claim
       /\ db.issuer[p].outcome = "withdrawn" => db'.issuer[p].outcome = "withdrawn"
  /\ db.purpose[p] # None => db'.purpose[p] # None /\ db'.purpose[p].claim = db.purpose[p].claim
  /\ db.jobs[p] # None => db'.jobs[p] # None /\ db'.jobs[p].native = db.jobs[p].native
  /\ db.verif[p] # None => db'.verif[p] # None /\ db'.verif[p].counter = db.verif[p].counter
  /\ db.reg[p] # None => db'.reg[p] = db.reg[p]

\* What was settled.
SettledRow(p) ==
  /\ (db.issuer[p] # None /\ db.issuer[p].outcome # "reserved") =>
       db'.issuer[p] \in {db.issuer[p], [db.issuer[p] EXCEPT !.outcome = "withdrawn"]}
  /\ (db.jobs[p] # None /\ db.jobs[p].outcome \notin {"reserved", "verifying"}) =>
       db'.jobs[p] \in {db.jobs[p], [db.jobs[p] EXCEPT !.outcome = "withdrawn"]}
SettledIntent(r) ==
  (db.intents[r] # None /\ db.intents[r].outcome # "reserved") =>
    db'.intents[r] \in {db.intents[r], [db.intents[r] EXCEPT !.outcome = "withdrawn"]}

Turn ==
  /\ db' \in Tables
  /\ \A p \in Purposes : RowsMove(p) /\ RootedRow(p)' /\ Keeps(p) /\ SettledRow(p)
  /\ \A r \in Routes : SettledIntent(r)

\* What a statement leaves alone.
SameAbove == db'.auth = db.auth /\ db'.disabled = db.disabled /\ db'.fence = db.fence
SameNative == db'.policy = db.policy /\ db'.key = db.key
SameProof(p) == db'.verif[p] = db.verif[p] /\ db'.reg[p] = db.reg[p]

\* What most statements leave alone: the key, its proofs and policy, the
\* registrations and the wakes.
NativeSame ==
  /\ db'.key = db.key /\ \A p \in Purposes : db'.verif[p] = None <=> db.verif[p] = None
  /\ db'.policy = None <=> db.policy = None
  /\ db.policy # None => db'.policy.outcome = db.policy.outcome
Beside == NativeSame /\ db'.reg = db.reg /\ db'.wakes = db.wakes

LEMMA ConstantsFact ==
  /\ Window \in Nat /\ AuthExpiry \in Nat /\ PolicyExpiry \in Nat /\ MaxTime \in Nat
  /\ \A p \in Purposes : Expiry[p] \in Nat
BY ConstantsAssumption

LEMMA TablesFact ==
  ASSUME TypeOK
  PROVE  /\ db \in Tables /\ now \in Nat
         /\ \A p \in Purposes :
              /\ db.issuer[p] \in Issuer \cup {None} /\ db.jobs[p] \in Job \cup {None}
              /\ db.verif[p] \in Verification \cup {None} /\ db.purpose[p] \in Target \cup {None}
         /\ \A r \in Routes : db.intents[r] \in Intent \cup {None}
         /\ db.policy \in Policy \cup {None} /\ db.key \in Key \cup {None}
BY ConstantsFact DEF TypeOK, Tables

\* One intent is written.
LEMMA PutIntent ==
  ASSUME TypeOK, Rooted, NEW r, NEW row \in Intent, db' = [db EXCEPT !.intents[r] = row],
         r \in Routes => db.intents[r] = None \/ db.intents[r].outcome = "reserved"
  PROVE  Turn /\ Beside
<1>1. db' \in Tables
  BY DEF TypeOK, Tables
<1>2. \A p \in Purposes : Untouched(p) /\ SameProof(p) /\ db'.jobs = db.jobs /\ db'.issuer = db.issuer /\ db'.purpose = db.purpose
  BY DEF TypeOK, Tables, Untouched, SameProof
<1>3. \A x \in Routes : SettledIntent(x)
  BY NoneAssumption DEF SettledIntent, TypeOK, Tables
<1>4. Beside
  BY DEF Beside, NativeSame, TypeOK, Tables
<1>. QED BY <1>1, <1>2, <1>3, <1>4 DEF Turn, RowsMove, Keeps, SettledRow, RootedRow, Rooted, SameProof

\* One issuer is reserved or settled.
LEMMA PutIssuer ==
  ASSUME TypeOK, Rooted, NEW p \in Purposes, NEW row \in Issuer, db' = [db EXCEPT !.issuer[p] = row],
         row.outcome # "withdrawn", p \notin db.fence, db.auth # "withdrawn",
         db.issuer[p] = None \/ (db.issuer[p].outcome = "reserved" /\ db.issuer[p].claim = row.claim)
  PROVE  Turn /\ Beside
<1>1. db' \in Tables
  BY DEF TypeOK, Tables
<1>2. /\ db'.jobs = db.jobs /\ db'.purpose = db.purpose /\ db'.verif = db.verif /\ db'.reg = db.reg /\ SameAbove
      /\ db'.issuer[p] = row /\ \A r \in Purposes : r # p => db'.issuer[r] = db.issuer[r]
      /\ db'.intents = db.intents
  BY DEF TypeOK, Tables, SameAbove
<1>3. row # None
  BY NoneAssumption
<1>4. Active(p) /\ \A r \in Purposes : r # p => Untouched(r)
  BY <1>2, <1>3 DEF Active, Untouched, SameAbove
<1>5. \A r \in Purposes : Keeps(r) /\ SettledRow(r) /\ RootedRow(r)'
  BY <1>2, <1>3 DEF Keeps, SettledRow, RootedRow, Rooted
<1>6. Beside
  BY DEF Beside, NativeSame, TypeOK, Tables
<1>. QED BY <1>1, <1>2, <1>4, <1>5, <1>6 DEF Turn, RowsMove, SettledIntent

LEMMA NoTurn ==
  ASSUME TypeOK, Rooted, db' = db
  PROVE  Turn /\ Beside
BY DEF Beside, NativeSame, TypeOK, Turn, RowsMove, Untouched, RootedRow, Rooted, Keeps, SettledRow, SettledIntent

\* Nothing above an issuer or a job that is not withdrawn is withdrawn.
LEMMA Alive ==
  ASSUME Rooted, NEW p \in Purposes,
         \/ db.issuer[p] # None /\ db.issuer[p].outcome # "withdrawn"
         \/ db.jobs[p] # None /\ db.jobs[p].outcome # "withdrawn"
  PROVE  /\ p \notin db.fence /\ db.auth # "withdrawn"
         /\ db.issuer[p] # None /\ db.issuer[p].outcome # "withdrawn"
BY DEF Rooted, Closed

\* One job is reserved, claimed or settled.
LEMMA PutJob ==
  ASSUME TypeOK, Rooted, NEW p \in Purposes, NEW row \in Job, db' \in Tables,
         db.issuer[p] # None, db.issuer[p].outcome # "withdrawn",
         db'.jobs = [db.jobs EXCEPT ![p] = row], db'.issuer = db.issuer, db'.purpose = db.purpose,
         db'.reg = db.reg, db'.intents = db.intents, SameAbove,
         db.jobs[p] = None \/ (db.jobs[p].outcome \in {"reserved", "verifying"} /\ db.jobs[p].native = row.native),
         \A r \in Purposes : db.verif[r] # None => db'.verif[r] = db.verif[r]
  PROVE  Turn
<1>1. db'.jobs[p] = row /\ row # None /\ \A r \in Purposes : r # p => db'.jobs[r] = db.jobs[r]
  BY NoneAssumption DEF TypeOK, Tables
<1>2. p \notin db.fence /\ db.auth # "withdrawn"
  BY Alive
<1>3. Active(p) /\ \A r \in Purposes : r # p => Untouched(r)
  BY <1>1, <1>2 DEF Active, Untouched, SameAbove
<1>4. \A r \in Purposes : Keeps(r) /\ SettledRow(r) /\ RootedRow(r)'
  BY <1>1 DEF Keeps, SettledRow, RootedRow, Rooted
<1>. QED BY <1>1, <1>3, <1>4 DEF Turn, RowsMove, SettledIntent

\* One purpose is inserted, or given its token and registration.
LEMMA PutTarget ==
  ASSUME TypeOK, Rooted, NEW p \in Purposes, NEW row \in Target, db' \in Tables,
         db.issuer[p] # None, db.issuer[p].outcome # "withdrawn",
         db'.purpose = [db.purpose EXCEPT ![p] = row], db'.issuer = db.issuer, db'.jobs = db.jobs,
         db'.intents = db.intents, SameAbove,
         db.purpose[p] = None \/ db.purpose[p].claim = row.claim,
         \A r \in Purposes : db.verif[r] # None => db'.verif[r] # None /\ db'.verif[r].counter = db.verif[r].counter,
         \A r \in Purposes : db.reg[r] # None => db'.reg[r] = db.reg[r]
  PROVE  Turn
<1>1. db'.purpose[p] = row /\ row # None /\ \A r \in Purposes : r # p => db'.purpose[r] = db.purpose[r]
  BY NoneAssumption DEF TypeOK, Tables
<1>2. p \notin db.fence /\ db.auth # "withdrawn"
  BY Alive
<1>3. Active(p) /\ \A r \in Purposes : r # p => Untouched(r)
  BY <1>1, <1>2 DEF Active, Untouched, SameAbove
<1>4. \A r \in Purposes : Keeps(r) /\ SettledRow(r) /\ RootedRow(r)'
  BY <1>1 DEF Keeps, SettledRow, RootedRow, Rooted
<1>. QED BY <1>1, <1>3, <1>4 DEF Turn, RowsMove, SettledIntent

\* What has no part in the rows of a purpose.
LEMMA PutElse ==
  ASSUME TypeOK, Rooted, db' \in Tables, db'.issuer = db.issuer, db'.jobs = db.jobs, db'.purpose = db.purpose,
         db'.intents = db.intents, db'.fence = db.fence, db'.auth = db.auth \/ db'.auth # "withdrawn",
         db'.verif = db.verif, db'.reg = db.reg
  PROVE  Turn
<1>1. \A p \in Purposes : Untouched(p)
  BY DEF Untouched
<1>2. \A p \in Purposes : Keeps(p) /\ SettledRow(p) /\ RootedRow(p)'
  BY DEF Keeps, SettledRow, RootedRow, Rooted
<1>. QED BY <1>1, <1>2 DEF Turn, RowsMove, SettledIntent

-----------------------------------------------------------------------------
\* The rows of the purposes ps are closed.
ClosedDb(ps, fence, auth) == [Withdrawn(db, ps) EXCEPT !.fence = fence, !.auth = auth]
LEMMA WithdrawnFact ==
  ASSUME TypeOK, Rooted, NEW ps \in SUBSET Purposes, NEW fence \in SUBSET Purposes,
         NEW auth \in {None, "authorized", "expired", "withdrawn"},
         db' = ClosedDb(ps, fence, auth),
         fence \subseteq db.fence \cup ps, auth = db.auth \/ (auth = "withdrawn" /\ ps = Purposes)
  PROVE  Turn /\ SameNative /\ db'.verif = db.verif /\ db'.reg = db.reg /\ db'.wakes = db.wakes
         /\ \A p \in ps : Closed(p)'
<1> DEFINE W == Withdrawn(db, ps)
           issuer == [p \in Purposes |->
             IF p \in ps /\ db.issuer[p] # None THEN [db.issuer[p] EXCEPT !.outcome = "withdrawn"] ELSE db.issuer[p]]
           jobs == [p \in Purposes |->
             IF p \in ps /\ db.jobs[p] # None THEN [db.jobs[p] EXCEPT !.outcome = "withdrawn"] ELSE db.jobs[p]]
           intents == [r \in Routes |->
             IF r[1] \in ps /\ db.intents[r] # None THEN [db.intents[r] EXCEPT !.outcome = "withdrawn"] ELSE db.intents[r]]
           purpose == [p \in Purposes |->
             IF p \in ps /\ db.issuer[p] # None /\ db.purpose[p] # None
               THEN [db.purpose[p] EXCEPT !.withdrawn = TRUE, !.token = FALSE] ELSE db.purpose[p]]
<1>1. W = [db EXCEPT !.issuer = issuer, !.jobs = jobs, !.intents = intents, !.purpose = purpose]
  BY DEF Withdrawn, TypeOK, Tables
<1>2. /\ issuer \in [Purposes -> Issuer \cup {None}] /\ jobs \in [Purposes -> Job \cup {None}]
      /\ purpose \in [Purposes -> Target \cup {None}]
  BY TablesFact DEF Issuer, Job, Target
<1>3. intents \in [Routes -> Intent \cup {None}]
  BY TablesFact DEF Intent
<1>4. /\ \A p \in Purposes :
           /\ issuer[p] = IF p \in ps /\ db.issuer[p] # None THEN [db.issuer[p] EXCEPT !.outcome = "withdrawn"] ELSE db.issuer[p]
           /\ jobs[p] = IF p \in ps /\ db.jobs[p] # None THEN [db.jobs[p] EXCEPT !.outcome = "withdrawn"] ELSE db.jobs[p]
           /\ purpose[p] = IF p \in ps /\ db.issuer[p] # None /\ db.purpose[p] # None
               THEN [db.purpose[p] EXCEPT !.withdrawn = TRUE, !.token = FALSE] ELSE db.purpose[p]
      /\ \A r \in Routes : intents[r] \in {db.intents[r], [db.intents[r] EXCEPT !.outcome = "withdrawn"]}
  OBVIOUS
<1>. HIDE DEF issuer, jobs, intents, purpose
<1>5. db' = [db EXCEPT !.issuer = issuer, !.jobs = jobs, !.intents = intents, !.purpose = purpose,
                       !.fence = fence, !.auth = auth]
  BY <1>1 DEF ClosedDb, TypeOK, Tables
<1>6. /\ db' \in Tables /\ db'.issuer = issuer /\ db'.jobs = jobs /\ db'.intents = intents /\ db'.purpose = purpose
      /\ db'.fence = fence /\ db'.auth = auth /\ SameNative /\ db'.verif = db.verif /\ db'.reg = db.reg /\ db'.wakes = db.wakes
  BY <1>2, <1>3, <1>5 DEF TypeOK, Tables, SameNative
\* The rows that are closed.
<1>7. \A row \in Issuer : LET t == [row EXCEPT !.outcome = "withdrawn"]
         IN t \in Issuer /\ t # None /\ t.outcome = "withdrawn" /\ t.claim = row.claim
  BY NoneAssumption DEF Issuer
<1>8. \A row \in Job : LET t == [row EXCEPT !.outcome = "withdrawn"]
         IN t \in Job /\ t # None /\ t.outcome = "withdrawn" /\ t.native = row.native
  BY NoneAssumption DEF Job
<1>9. \A row \in Target : LET t == [row EXCEPT !.withdrawn = TRUE, !.token = FALSE]
         IN t \in Target /\ t # None /\ t.withdrawn /\ ~t.token /\ t.claim = row.claim
  BY NoneAssumption DEF Target
<1>10. ASSUME NEW p \in Purposes
       PROVE  /\ db'.issuer[p] = None <=> db.issuer[p] = None
              /\ db.issuer[p] # None => db'.issuer[p].claim = db.issuer[p].claim
              /\ db.issuer[p] # None /\ (p \in ps \/ db.issuer[p].outcome = "withdrawn") => db'.issuer[p].outcome = "withdrawn"
  <2>1. CASE p \in ps /\ db.issuer[p] # None
    <3>1. db.issuer[p] \in Issuer /\ db'.issuer[p] = [db.issuer[p] EXCEPT !.outcome = "withdrawn"]
      BY <1>4, <1>6, <2>1, TablesFact
    <3>. QED BY <1>7, <2>1, <3>1
  <2>2. CASE ~(p \in ps /\ db.issuer[p] # None)
    <3>1. db'.issuer[p] = db.issuer[p]
      BY <1>4, <1>6, <2>2
    <3>. QED BY <2>2, <3>1
  <2>. QED BY <2>1, <2>2
<1>11. ASSUME NEW p \in Purposes
       PROVE  /\ db'.jobs[p] = None <=> db.jobs[p] = None
              /\ db.jobs[p] # None => db'.jobs[p].native = db.jobs[p].native
              /\ db.jobs[p] # None /\ p \in ps => db'.jobs[p].outcome = "withdrawn"
  <2>1. CASE p \in ps /\ db.jobs[p] # None
    <3>1. db.jobs[p] \in Job /\ db'.jobs[p] = [db.jobs[p] EXCEPT !.outcome = "withdrawn"]
      BY <1>4, <1>6, <2>1, TablesFact
    <3>. QED BY <1>8, <2>1, <3>1
  <2>2. CASE ~(p \in ps /\ db.jobs[p] # None)
    <3>1. db'.jobs[p] = db.jobs[p]
      BY <1>4, <1>6, <2>2
    <3>. QED BY <2>2, <3>1
  <2>. QED BY <2>1, <2>2
<1>12. ASSUME NEW p \in Purposes
       PROVE  /\ db'.purpose[p] = None <=> db.purpose[p] = None
              /\ db.purpose[p] # None => db'.purpose[p].claim = db.purpose[p].claim
              /\ db.purpose[p] # None /\ p \in ps => db'.purpose[p].withdrawn /\ ~db'.purpose[p].token
  <2>0. db.purpose[p] # None => db.issuer[p] # None
    BY DEF Rooted
  <2>1. CASE p \in ps /\ db.purpose[p] # None
    <3>1. db.purpose[p] \in Target /\ db'.purpose[p] = [db.purpose[p] EXCEPT !.withdrawn = TRUE, !.token = FALSE]
      BY <1>4, <1>6, <2>0, <2>1, TablesFact
    <3>. QED BY <1>9, <2>1, <3>1
  <2>2. CASE ~(p \in ps /\ db.purpose[p] # None)
    <3>1. db'.purpose[p] = db.purpose[p]
      BY <1>4, <1>6, <2>2
    <3>. QED BY <2>2, <3>1
  <2>. QED BY <2>1, <2>2
<1>13. \A p \in ps : Closed(p)'
  BY <1>10, <1>11, <1>12 DEF Closed
<1>14. \A p \in Purposes : p \notin ps => Untouched(p)
  BY <1>4, <1>6 DEF Untouched
<1>15. \A p \in Purposes : Keeps(p)
  BY <1>6, <1>10, <1>11, <1>12 DEF Keeps
<1>16. \A p \in Purposes : SettledRow(p)
  BY <1>4, <1>6 DEF SettledRow
<1>17. \A p \in Purposes : RootedRow(p)'
  BY <1>10, <1>11, <1>12 DEF RootedRow, Rooted
<1>18. \A r \in Routes : SettledIntent(r)
  BY <1>4, <1>6 DEF SettledIntent
<1>. QED BY <1>6, <1>13, <1>14, <1>15, <1>16, <1>17, <1>18 DEF Turn, RowsMove

-----------------------------------------------------------------------------
\* The statements, one by one.
LEMMA IntentedTurn ==
  ASSUME TypeOK, Rooted, NEW c \in Calls, NEW at \in Nat, calls[c].purpose \in Purposes, db' = Intended(c, at)
  PROVE  Turn /\ Beside
<1> DEFINE until == Smallest(Deadline(c), AuthExpiry)
           row == [claim |-> c, bound |-> FALSE, until |-> until,
                   outcome |-> IF at >= Deadline(c) \/ now >= until THEN "expired" ELSE "reserved"]
<1>1. calls[c].captured \in Nat
  BY DEF TypeOK, Call
<1>2. row \in Intent
  <2>1. until \in Nat
    BY <1>1, ConstantsFact DEF Smallest, Deadline
  <2>. HIDE DEF until
  <2>. QED BY <2>1 DEF Intent
<1>3. db' = db \/ (db' = [db EXCEPT !.intents[Route(c)] = row] /\ db.intents[Route(c)] = None)
  BY DEF Intended
<1>. HIDE DEF row
<1>. QED BY <1>2, <1>3, PutIntent, NoTurn

LEMMA SettledIntentTurn ==
  ASSUME TypeOK, Rooted, NEW c \in Calls, NEW row \in Intent, HoldsIntent(db, c),
         db' = [db EXCEPT !.intents[Route(c)] = row]
  PROVE  Turn /\ Beside
BY PutIntent DEF HoldsIntent

LEMMA BoundIntentTurn ==
  ASSUME TypeOK, Rooted, NEW c \in Calls, NEW at \in Nat, db' = BoundIntent(c, at)
  PROVE  Turn /\ Beside
<1>1. CASE db' = db
  BY <1>1, NoTurn
<1>2. CASE db' # db
  <2>1. HoldsIntent(db, c) /\ db' = [db EXCEPT !.intents[Route(c)].bound = TRUE]
    BY <1>2 DEF BoundIntent
  <2>2. Route(c) \in Routes
    BY <1>2, <2>1 DEF TypeOK, Tables
  <2> DEFINE row == [db.intents[Route(c)] EXCEPT !.bound = TRUE]
  <2>3. row \in Intent
    BY <2>1, <2>2, TablesFact DEF HoldsIntent, Intent
  <2>4. db' = [db EXCEPT !.intents[Route(c)] = row]
    BY <2>1 DEF TypeOK, Tables
  <2>. HIDE DEF row
  <2>. QED BY <2>1, <2>3, <2>4, SettledIntentTurn
<1>. QED BY <1>1, <1>2

LEMMA FinishedIntentTurn ==
  ASSUME TypeOK, Rooted, NEW c \in Calls, NEW outcome \in {"completed", "unknown"}, db' = FinishedIntent(c, outcome)
  PROVE  Turn /\ Beside
<1>1. CASE db' = db
  BY <1>1, NoTurn
<1>2. CASE db' # db
  <2> DEFINE o == IF now >= db.intents[Route(c)].until THEN "expired" ELSE outcome
             row == [db.intents[Route(c)] EXCEPT !.outcome = o]
  <2>1. HoldsIntent(db, c) /\ db' = [db EXCEPT !.intents[Route(c)].outcome = o]
    BY <1>2 DEF FinishedIntent
  <2>2. o \in {"completed", "unknown", "expired"}
    OBVIOUS
  <2>. HIDE DEF o
  <2>3. Route(c) \in Routes
    BY <1>2, <2>1 DEF TypeOK, Tables
  <2>4. row \in Intent
    BY <2>1, <2>2, <2>3, TablesFact DEF HoldsIntent, Intent
  <2>5. db' = [db EXCEPT !.intents[Route(c)] = row]
    BY <2>1 DEF TypeOK, Tables
  <2>. HIDE DEF row
  <2>. QED BY <2>1, <2>4, <2>5, SettledIntentTurn
<1>. QED BY <1>1, <1>2

LEMMA ReservedIssuerTurn ==
  ASSUME TypeOK, Rooted, NEW c \in Calls, NEW at \in Nat, calls[c].purpose \in Purposes,
         calls[c].op \in Ops, calls[c].native \in Natives, db' = ReservedIssuer(c, at)
  PROVE  Turn /\ Beside
<1> DEFINE p == calls[c].purpose
           row == [op |-> calls[c].op, native |-> calls[c].native, claim |-> c, until |-> Deadline(c),
                   outcome |-> IF at >= Deadline(c) \/ at >= Expiry[p] THEN "expired" ELSE "reserved"]
<1>1. calls[c].captured \in Nat /\ Deadline(c) \in Nat
  BY ConstantsFact DEF TypeOK, Call, Deadline
<1>2. row \in Issuer /\ row.outcome # "withdrawn"
  BY <1>1 DEF Issuer
<1>3. \/ db' = db
      \/ db' = [db EXCEPT !.issuer[p] = row] /\ db.issuer[p] = None /\ p \notin db.fence /\ db.auth = "authorized"
  BY DEF ReservedIssuer, Live
<1>. HIDE DEF row
<1>. QED BY <1>2, <1>3, PutIssuer, NoTurn

LEMMA FinishedIssuerTurn ==
  ASSUME TypeOK, Rooted, NEW c \in Calls, NEW at \in Nat, NEW outcome \in {"issued", "unknown"},
         calls[c].purpose \in Purposes, db' = FinishedIssuer(c, outcome, at)
  PROVE  Turn /\ Beside
<1> DEFINE p == calls[c].purpose
           o == IF now >= db.issuer[p].until \/ now >= Expiry[p] THEN "expired" ELSE outcome
           row == [db.issuer[p] EXCEPT !.outcome = o]
<1>1. CASE db' = db
  BY <1>1, NoTurn
<1>2. CASE db' # db
  <2>1. HoldsIssuer(db, c) /\ db' = [db EXCEPT !.issuer[p].outcome = o]
    BY <1>2 DEF FinishedIssuer
  <2>2. o \in {"issued", "unknown", "expired"}
    OBVIOUS
  <2>. HIDE DEF o
  <2>3. db.issuer[p] \in Issuer /\ db.issuer[p].outcome = "reserved" /\ db.issuer[p] # None
    BY <2>1, TablesFact DEF HoldsIssuer
  <2>4. row \in Issuer /\ row.outcome = o /\ row.claim = db.issuer[p].claim
    BY <2>2, <2>3 DEF Issuer
  <2>5. db' = [db EXCEPT !.issuer[p] = row]
    BY <2>1 DEF TypeOK, Tables
  <2>6. p \notin db.fence /\ db.auth # "withdrawn"
    BY <2>3, Alive
  <2>. HIDE DEF row
  <2>. QED BY <2>2, <2>3, <2>4, <2>5, <2>6, PutIssuer
<1>. QED BY <1>1, <1>2

LEMMA InsertedPurposeTurn ==
  ASSUME TypeOK, Rooted, NEW c \in Calls, calls[c].purpose \in Purposes, db' = InsertedPurpose(c)
  PROVE  Turn /\ Beside
<1> DEFINE p == calls[c].purpose
           row == [claim |-> c, withdrawn |-> FALSE, token |-> FALSE]
<1>1. CASE db' = db
  BY <1>1, NoTurn
<1>2. CASE db' # db
  <2>1. db.purpose[p] = None /\ IssuerGuard(p) /\ db' = [db EXCEPT !.purpose[p] = row]
    BY <1>2 DEF InsertedPurpose
  <2>2. row \in Target
    BY DEF Target
  <2>. HIDE DEF row
  <2>3. /\ db' \in Tables /\ db'.purpose = [db.purpose EXCEPT ![p] = row] /\ db'.issuer = db.issuer
        /\ db'.jobs = db.jobs /\ db'.intents = db.intents /\ SameAbove /\ db'.verif = db.verif /\ db'.reg = db.reg
        /\ Beside
    BY <2>1, <2>2 DEF TypeOK, Tables, SameAbove, Beside, NativeSame
  <2>4. db.issuer[p] # None /\ db.issuer[p].outcome # "withdrawn"
    BY <2>1 DEF IssuerGuard
  <2>. QED BY <2>1, <2>2, <2>3, <2>4, PutTarget
<1>. QED BY <1>1, <1>2

LEMMA ReservedJobTurn ==
  ASSUME TypeOK, Rooted, NEW c \in Calls, NEW at \in Nat, calls[c].purpose \in Purposes, db' = ReservedJob(c, at)
  PROVE  Turn /\ Beside
<1> DEFINE p == calls[c].purpose
           s == db.issuer[p]
           until == Smallest(Deadline(c), Expiry[p])
           row == [native |-> s.native, claim |-> None, captured |-> calls[c].captured, until |-> until,
                   outcome |-> IF at >= until THEN "expired" ELSE "reserved"]
           policy == IF s.native = "attestation" THEN [db.policy EXCEPT !.job = p] ELSE db.policy
<1>1. CASE db' = db
  BY <1>1, NoTurn
<1>2. CASE db' # db
  <2>0. Issued(p) /\ db.jobs[p] = None /\ (s.native = "attestation" => db.policy # None)
    BY <1>2 DEF ReservedJob, FirstJob
  <2>1. db' = [db EXCEPT !.jobs[p] = row, !.policy = policy]
    BY <1>2 DEF ReservedJob, TypeOK, Tables
  <2>2. calls[c].captured \in Nat /\ until \in Nat
    BY ConstantsFact DEF TypeOK, Call, Deadline, Smallest
  <2>3. s \in Issuer
    BY <2>0, TablesFact DEF Issued
  <2>4. row \in Job
    BY <2>2, <2>3 DEF Job, Issuer, Claims
  <2>5. policy \in Policy \cup {None} /\ (policy = None <=> db.policy = None)
        /\ (db.policy # None => policy.outcome = db.policy.outcome)
    <3>1. CASE s.native = "attestation"
      <4>1. db.policy \in Policy
        BY <2>0, <3>1, TablesFact
      <4>2. [db.policy EXCEPT !.job = p] \in Policy /\ [db.policy EXCEPT !.job = p].outcome = db.policy.outcome
        BY <4>1 DEF Policy
      <4>. QED BY <2>0, <3>1, <4>2, NoneAssumption
    <3>2. CASE s.native # "attestation"
      BY <3>2, TablesFact
    <3>. QED BY <3>1, <3>2
  <2>. HIDE DEF row, policy
  <2>6. /\ db' \in Tables /\ db'.jobs = [db.jobs EXCEPT ![p] = row] /\ db'.issuer = db.issuer
        /\ db'.purpose = db.purpose /\ db'.intents = db.intents /\ SameAbove /\ db'.verif = db.verif /\ db'.reg = db.reg
        /\ db'.policy = policy /\ db'.key = db.key /\ db'.wakes = db.wakes
    <3> DEFINE jobs == [db.jobs EXCEPT ![p] = row]
    <3>1. jobs \in [Purposes -> Job \cup {None}] /\ db' = [db EXCEPT !.jobs = jobs, !.policy = policy]
      BY <2>1, <2>4 DEF TypeOK, Tables
    <3>2. jobs = [db.jobs EXCEPT ![p] = row]
      OBVIOUS
    <3>. HIDE DEF jobs
    <3>. QED BY <2>5, <3>1, <3>2 DEF TypeOK, Tables, SameAbove
  <2>7. Beside
    BY <2>5, <2>6 DEF Beside, NativeSame
  <2>8. db.issuer[p] # None /\ db.issuer[p].outcome # "withdrawn"
    BY <2>0 DEF Issued
  <2>. QED BY <2>0, <2>4, <2>6, <2>7, <2>8, PutJob
<1>. QED BY <1>1, <1>2

\* A job that is under way is settled, or claimed.
LEMMA SettledJobTurn ==
  ASSUME TypeOK, Rooted, NEW p \in Purposes, NEW row \in Job, db' = [db EXCEPT !.jobs[p] = row],
         db.jobs[p] # None, db.jobs[p].outcome \in {"reserved", "verifying"}, db.jobs[p].native = row.native
  PROVE  Turn /\ Beside
<1>1. /\ db' \in Tables /\ db'.jobs = [db.jobs EXCEPT ![p] = row] /\ db'.issuer = db.issuer
      /\ db'.purpose = db.purpose /\ db'.intents = db.intents /\ SameAbove /\ db'.verif = db.verif /\ db'.reg = db.reg
      /\ Beside
  BY DEF TypeOK, Tables, SameAbove, Beside, NativeSame
<1>2. db.issuer[p] # None /\ db.issuer[p].outcome # "withdrawn"
  BY Alive
<1>. QED BY <1>1, <1>2, PutJob

LEMMA ClaimedProofTurn ==
  ASSUME TypeOK, Rooted, NEW c \in Calls, NEW at \in Nat, calls[c].purpose \in Purposes, db' = ClaimedProof(c, at)
  PROVE  Turn /\ Beside
<1> DEFINE p == calls[c].purpose
           row == [db.jobs[p] EXCEPT !.outcome = "verifying", !.claim = c]
<1>1. CASE db' = db
  BY <1>1, NoTurn
<1>2. CASE db' # db
  <2>1. MayClaim(c, at) /\ db' = [db EXCEPT !.jobs[p].outcome = "verifying", !.jobs[p].claim = c]
    BY <1>2 DEF ClaimedProof
  <2>2. db.jobs[p] \in Job /\ db.jobs[p] # None /\ db.jobs[p].outcome = "reserved"
    BY <2>1, TablesFact DEF MayClaim
  <2>3. row \in Job /\ row.native = db.jobs[p].native
    BY <2>2 DEF Job, Claims
  <2>4. db' = [db EXCEPT !.jobs[p] = row]
    BY <2>1 DEF TypeOK, Tables
  <2>. HIDE DEF row
  <2>. QED BY <2>2, <2>3, <2>4, SettledJobTurn
<1>. QED BY <1>1, <1>2

LEMMA FailedProofTurn ==
  ASSUME TypeOK, Rooted, NEW c \in Calls, NEW outcome \in {"rejected", "unknown"}, calls[c].purpose \in Purposes,
         db' = FailedProof(c, outcome)
  PROVE  Turn /\ Beside
<1> DEFINE p == calls[c].purpose
           row == [db.jobs[p] EXCEPT !.outcome = outcome]
<1>1. CASE db' = db
  BY <1>1, NoTurn
<1>2. CASE db' # db
  <2>1. Verifying(c) /\ db' = [db EXCEPT !.jobs[p].outcome = outcome]
    BY <1>2 DEF FailedProof
  <2>2. db.jobs[p] \in Job /\ db.jobs[p] # None /\ db.jobs[p].outcome = "verifying"
    BY <2>1, TablesFact DEF Verifying
  <2>3. row \in Job /\ row.native = db.jobs[p].native
    BY <2>2 DEF Job
  <2>4. db' = [db EXCEPT !.jobs[p] = row]
    BY <2>1 DEF TypeOK, Tables
  <2>. HIDE DEF row
  <2>. QED BY <2>2, <2>3, <2>4, SettledJobTurn
<1>. QED BY <1>1, <1>2

\* A proof is committed with the key: its enrollment, or its next counter.
Commits(c) ==
  LET p == calls[c].purpose
  IN /\ CommitFits(c) /\ db'.reg = db.reg /\ db'.wakes = db.wakes
     /\ db'.verif = [db.verif EXCEPT ![p] = [counter |-> calls[c].counter, claim |-> c, consumed |-> None]]
     /\ \/ /\ db.jobs[p].native = "attestation" /\ db.key = None /\ db'.policy # None /\ db'.policy.outcome = "enrolled"
           /\ db'.key = [counter |-> 0, claim |-> c, job |-> p, disabled |-> FALSE]
        \/ /\ db.jobs[p].native # "attestation" /\ CounterFits(c) /\ db'.policy = db.policy
           /\ db'.key = [db.key EXCEPT !.counter = calls[c].counter]

LEMMA CommittedTurn ==
  ASSUME TypeOK, Rooted, NEW c \in Calls, calls[c].purpose \in Purposes, db' = Committed(c)
  PROVE  Turn /\ (Beside \/ Commits(c))
<1> DEFINE p == calls[c].purpose
           j == db.jobs[p]
           first == j.native = "attestation"
           proof == [counter |-> calls[c].counter, claim |-> c, consumed |-> None]
           row == [j EXCEPT !.outcome = "verified"]
           policy == IF first THEN [db.policy EXCEPT !.outcome = "enrolled"] ELSE db.policy
           key == IF first THEN [counter |-> 0, claim |-> c, job |-> p, disabled |-> FALSE]
                  ELSE [db.key EXCEPT !.counter = calls[c].counter]
<1>1. CASE db' = db
  BY <1>1, NoTurn
<1>2. CASE db' # db
  <2>1. /\ CommitFits(c)
        /\ \/ first /\ db.policy # None /\ db.key = None
           \/ ~first /\ CounterFits(c)
        /\ db' = [db EXCEPT !.policy = policy, !.key = key, !.verif[p] = proof, !.jobs[p] = row]
    BY <1>2 DEF Committed, TypeOK, Tables
  <2>2. j \in Job /\ j # None /\ j.outcome = "verifying" /\ db.verif[p] = None
    BY <2>1, TablesFact DEF CommitFits, Verifying
  <2>3. row \in Job /\ row.native = j.native
    BY <2>2 DEF Job
  <2>4. calls[c].counter \in Nat
    BY DEF TypeOK, Call
  <2>5. proof \in Verification
    BY <2>4 DEF Verification, Claims
  <2>6. policy \in Policy \cup {None} /\ (first => policy # None /\ policy.outcome = "enrolled")
    <3>1. CASE first
      <4>1. [db.policy EXCEPT !.outcome = "enrolled"] \in Policy /\ [db.policy EXCEPT !.outcome = "enrolled"].outcome = "enrolled"
        BY <2>1, <3>1, TablesFact DEF Policy
      <4>. QED BY <3>1, <4>1, NoneAssumption
    <3>2. CASE ~first
      BY <3>2, TablesFact
    <3>. QED BY <3>1, <3>2
  <2>7. key \in Key \cup {None}
    <3>1. CASE first
      BY <3>1 DEF Key
    <3>2. CASE ~first
      <4>1. [db.key EXCEPT !.counter = calls[c].counter] \in Key
        BY <2>1, <2>4, <3>2, TablesFact DEF Key, CounterFits
      <4>. QED BY <3>2, <4>1
    <3>. QED BY <3>1, <3>2
  <2>8. first => key = [counter |-> 0, claim |-> c, job |-> p, disabled |-> FALSE]
    OBVIOUS
  <2>9. ~first => key = [db.key EXCEPT !.counter = calls[c].counter] /\ policy = db.policy
    OBVIOUS
  <2>. HIDE DEF row, policy, key, proof
  <2>10. /\ db' \in Tables /\ db'.jobs = [db.jobs EXCEPT ![p] = row] /\ db'.issuer = db.issuer
         /\ db'.purpose = db.purpose /\ db'.intents = db.intents /\ SameAbove /\ db'.reg = db.reg /\ db'.wakes = db.wakes
         /\ db'.policy = policy /\ db'.key = key /\ db'.verif = [db.verif EXCEPT ![p] = proof]
    <3> DEFINE jobs == [db.jobs EXCEPT ![p] = row]
               verif == [db.verif EXCEPT ![p] = proof]
    <3>1. /\ jobs \in [Purposes -> Job \cup {None}] /\ verif \in [Purposes -> Verification \cup {None}]
      BY <2>3, <2>5 DEF TypeOK, Tables
    <3>2. jobs = [db.jobs EXCEPT ![p] = row] /\ verif = [db.verif EXCEPT ![p] = proof]
      OBVIOUS
    <3>3. db' = [db EXCEPT !.policy = policy, !.key = key, !.verif = verif, !.jobs = jobs]
      BY <2>1 DEF TypeOK, Tables
    <3>. HIDE DEF jobs, verif
    <3>. QED BY <2>6, <2>7, <3>1, <3>2, <3>3 DEF TypeOK, Tables, SameAbove
  <2>11. \A r \in Purposes : db.verif[r] # None => db'.verif[r] = db.verif[r]
    BY <2>2, <2>10
  <2>12. db.issuer[p] # None /\ db.issuer[p].outcome # "withdrawn"
    BY <2>2, Alive
  <2>13. Turn
    BY <2>2, <2>3, <2>10, <2>11, <2>12, PutJob
  <2>14. Commits(c)
    BY <2>1, <2>6, <2>8, <2>9, <2>10 DEF Commits, proof
  <2>. QED BY <2>13, <2>14
<1>. QED BY <1>1, <1>2

\* The registration consumes the proof.
Registers(c) ==
  /\ db.reg[calls[c].purpose] = None /\ db'.reg = [db.reg EXCEPT ![calls[c].purpose] = c]
  /\ NativeSame /\ db'.wakes = db.wakes

LEMMA RegisteredTurn ==
  ASSUME TypeOK, Rooted, NEW c \in Calls, NEW at \in Nat, calls[c].purpose \in Purposes, db' = Registered(c, at)
  PROVE  Turn /\ (Beside \/ Registers(c))
<1> DEFINE p == calls[c].purpose
           target == [db.purpose[p] EXCEPT !.token = TRUE]
           proof == [db.verif[p] EXCEPT !.consumed = c]
<1>1. CASE db' = db
  BY <1>1, NoTurn
<1>2. CASE db' # db
  <2>1. /\ Eligible(p) /\ db.reg[p] = None
        /\ db' = [db EXCEPT !.reg[p] = c, !.purpose[p] = target, !.verif[p] = proof]
    BY <1>2 DEF Registered, TypeOK, Tables
  <2>2. db.purpose[p] \in Target /\ db.verif[p] \in Verification
    BY <2>1, TablesFact DEF Eligible
  <2>3. target \in Target /\ target.claim = db.purpose[p].claim
    BY <2>2 DEF Target
  <2>4. proof \in Verification /\ proof.counter = db.verif[p].counter /\ proof # None
    BY <2>2, NoneAssumption DEF Verification, Claims
  <2>. HIDE DEF target, proof
  <2>5. /\ db' \in Tables /\ db'.purpose = [db.purpose EXCEPT ![p] = target] /\ db'.issuer = db.issuer
        /\ db'.jobs = db.jobs /\ db'.intents = db.intents /\ SameAbove /\ db'.policy = db.policy /\ db'.key = db.key
        /\ db'.verif = [db.verif EXCEPT ![p] = proof] /\ db'.reg = [db.reg EXCEPT ![p] = c] /\ db'.wakes = db.wakes
    <3> DEFINE purpose == [db.purpose EXCEPT ![p] = target]
               verif == [db.verif EXCEPT ![p] = proof]
               reg == [db.reg EXCEPT ![p] = c]
    <3>1. /\ purpose \in [Purposes -> Target \cup {None}] /\ verif \in [Purposes -> Verification \cup {None}]
          /\ reg \in [Purposes -> Claims]
      BY <2>3, <2>4 DEF TypeOK, Tables, Claims
    <3>2. /\ purpose = [db.purpose EXCEPT ![p] = target] /\ verif = [db.verif EXCEPT ![p] = proof]
          /\ reg = [db.reg EXCEPT ![p] = c]
      OBVIOUS
    <3>3. db' = [db EXCEPT !.reg = reg, !.purpose = purpose, !.verif = verif]
      BY <2>1 DEF TypeOK, Tables
    <3>. HIDE DEF purpose, verif, reg
    <3>. QED BY <3>1, <3>2, <3>3 DEF TypeOK, Tables, SameAbove
  <2>6. /\ \A r \in Purposes : db.verif[r] # None => db'.verif[r] # None /\ db'.verif[r].counter = db.verif[r].counter
        /\ \A r \in Purposes : db.reg[r] # None => db'.reg[r] = db.reg[r]
        /\ \A r \in Purposes : db'.verif[r] = None <=> db.verif[r] = None
    BY <2>1, <2>4, <2>5 DEF Eligible, TypeOK, Tables
  <2>7. db.issuer[p] # None /\ db.issuer[p].outcome # "withdrawn"
    BY <2>1 DEF Eligible, Issued
  <2>8. Turn
    BY <2>3, <2>5, <2>6, <2>7, PutTarget
  <2>9. Registers(c)
    BY <2>1, <2>5, <2>6 DEF Registers, NativeSame
  <2>. QED BY <2>8, <2>9
<1>. QED BY <1>1, <1>2

\* A wake is reserved, and then marked, under the trigger.
Marks(c) ==
  /\ DispatchGuard(calls[c].purpose) /\ db.purpose[calls[c].purpose].token
  /\ \A d \in Calls : d # c => db'.wakes[d] = db.wakes[d]
Beyond(c) ==
  /\ NativeSame /\ db'.reg = db.reg
  /\ \A d \in Calls : db'.wakes[d] = "dispatch_started" => db.wakes[d] = "dispatch_started" \/ (d = c /\ Marks(c))

LEMMA WakeTurn ==
  ASSUME TypeOK, Rooted, NEW c \in Calls, NEW at \in Nat, calls[c].purpose \in Purposes,
         db' \in {ReservedWake(c, at), MarkedWake(c, at)}
  PROVE  Turn /\ Beyond(c)
<1>1. CASE db' = db
  BY <1>1, NoTurn DEF Beside, Beyond
<1>2. ASSUME NEW w \in Wake, db' = [db EXCEPT !.wakes[c] = w],
             w = "dispatch_started" => DispatchGuard(calls[c].purpose) /\ db.purpose[calls[c].purpose].token
      PROVE  Turn /\ Beyond(c)
  <2>1. /\ db' \in Tables /\ db'.issuer = db.issuer /\ db'.jobs = db.jobs /\ db'.purpose = db.purpose
        /\ db'.intents = db.intents /\ db'.fence = db.fence /\ db'.auth = db.auth /\ db'.verif = db.verif
        /\ db'.reg = db.reg /\ NativeSame /\ db'.wakes[c] = w /\ \A d \in Calls : d # c => db'.wakes[d] = db.wakes[d]
    BY <1>2 DEF TypeOK, Tables, NativeSame
  <2>. QED BY <1>2, <2>1, PutElse DEF Beyond, Marks
<1>3. CASE db' = ReservedWake(c, at)
  <2>1. db' = db \/ \E w \in {"reserved", "conflict"} : db' = [db EXCEPT !.wakes[c] = w]
    BY <1>3 DEF ReservedWake
  <2>. QED BY <1>1, <1>2, <2>1 DEF Wake
<1>4. CASE db' = MarkedWake(c, at)
  <2>1. db' = db \/ (db' = [db EXCEPT !.wakes[c] = "dispatch_started"] /\ DispatchGuard(calls[c].purpose)
                     /\ db.purpose[calls[c].purpose].token)
    BY <1>4 DEF MarkedWake
  <2>. QED BY <1>1, <1>2, <2>1 DEF Wake
<1>. QED BY <1>3, <1>4

\* The key is switched off with its policy, or a policy is opened.
PolicyOff ==
  /\ db'.policy # None => db'.policy.outcome = "withdrawn"
  /\ db'.key = None <=> db.key = None
  /\ db.key # None => db'.key.disabled /\ db'.key.counter = db.key.counter /\ db'.key.job = db.key.job
  /\ db'.verif = db.verif /\ db'.reg = db.reg /\ db'.wakes = db.wakes
PolicyOpens ==
  /\ db.key = None /\ db'.key = None /\ db'.policy # None /\ db'.policy.outcome # "enrolled"
  /\ db'.verif = db.verif /\ db'.reg = db.reg /\ db'.wakes = db.wakes

LEMMA WithdrawnChildTurn ==
  ASSUME TypeOK, Rooted, NEW p \in Purposes, db' = WithdrawnChild(p)
  PROVE  Turn /\ Beside /\ Closed(p)'
<1> DEFINE fence == IF Cardinality(db.fence) < MaxFences THEN db.fence \cup {p} ELSE db.fence
<1>1. fence \in SUBSET Purposes /\ fence \subseteq db.fence \cup {p} /\ db.auth \in {None, "authorized", "expired", "withdrawn"}
  BY DEF TypeOK, Tables
<1>2. db' = ClosedDb({p}, fence, db.auth)
  BY DEF WithdrawnChild, Withdrawn, ClosedDb, TypeOK, Tables
<1>3. {p} \in SUBSET Purposes /\ p \in {p}
  OBVIOUS
<1>. HIDE DEF fence
<1>4. /\ Turn /\ SameNative /\ db'.verif = db.verif /\ db'.reg = db.reg /\ db'.wakes = db.wakes
      /\ \A r \in {p} : Closed(r)'
  BY <1>1, <1>2, <1>3, WithdrawnFact
<1>5. Closed(p)'
  BY <1>4
<1>. QED BY <1>4, <1>5 DEF Beside, NativeSame, SameNative

LEMMA WithdrawnAllTurn ==
  ASSUME TypeOK, Rooted, db' = WithdrawnAll
  PROVE  Turn /\ Beside
<1>1. db' = ClosedDb(Purposes, db.fence, "withdrawn")
  BY DEF WithdrawnAll, Withdrawn, ClosedDb, TypeOK, Tables
<1>2. db.fence \in SUBSET Purposes
  BY DEF TypeOK, Tables
<1>. QED BY <1>1, <1>2, WithdrawnFact DEF Beside, NativeSame, SameNative

LEMMA WithdrawnPolicyTurn ==
  ASSUME TypeOK, Rooted, db' = WithdrawnPolicy
  PROVE  Turn /\ PolicyOff
<1> DEFINE policy == IF db.policy = None THEN db.policy ELSE [db.policy EXCEPT !.outcome = "withdrawn"]
           key == IF db.key = None THEN db.key ELSE [db.key EXCEPT !.disabled = TRUE]
<1>1. db' = [db EXCEPT !.policy = policy, !.key = key]
  BY DEF WithdrawnPolicy
<1>2. policy \in Policy \cup {None} /\ (policy # None => policy.outcome = "withdrawn")
  <2>1. CASE db.policy # None
    <3>1. [db.policy EXCEPT !.outcome = "withdrawn"] \in Policy /\ [db.policy EXCEPT !.outcome = "withdrawn"].outcome = "withdrawn"
      BY <2>1, TablesFact DEF Policy
    <3>. QED BY <2>1, <3>1
  <2>. QED BY <2>1
<1>3. key \in Key \cup {None} /\ (key = None <=> db.key = None)
      /\ (db.key # None => key.disabled /\ key.counter = db.key.counter /\ key.job = db.key.job)
  <2>1. CASE db.key # None
    <3> DEFINE k == [db.key EXCEPT !.disabled = TRUE]
    <3>1. k \in Key /\ k.disabled /\ k.counter = db.key.counter /\ k.job = db.key.job
      BY <2>1, TablesFact DEF Key
    <3>. HIDE DEF k
    <3>2. key = k
      BY <2>1 DEF k
    <3>. QED BY <2>1, <3>1, <3>2, NoneAssumption
  <2>. QED BY <2>1
<1>. HIDE DEF policy, key
<1>4. /\ db' \in Tables /\ db'.policy = policy /\ db'.key = key /\ db'.issuer = db.issuer /\ db'.jobs = db.jobs
      /\ db'.purpose = db.purpose /\ db'.intents = db.intents /\ db'.fence = db.fence /\ db'.auth = db.auth
      /\ db'.verif = db.verif /\ db'.reg = db.reg /\ db'.wakes = db.wakes
  BY <1>1, <1>2, <1>3 DEF TypeOK, Tables
<1>. QED BY <1>2, <1>3, <1>4, PutElse DEF PolicyOff

LEMMA OperatorTurn ==
  ASSUME TypeOK, Rooted, Authorize \/ AuthorizePolicy \/ DisableToken
  PROVE  Turn /\ (Beside \/ PolicyOpens)
<1>1. CASE Authorize
  <2> DEFINE a == IF now >= AuthExpiry THEN "expired" ELSE "authorized"
  <2>1. db' = [db EXCEPT !.auth = a] /\ a \in {"expired", "authorized"}
    BY <1>1 DEF Authorize
  <2>. HIDE DEF a
  <2>2. /\ db' \in Tables /\ db'.auth = a /\ db'.policy = db.policy /\ db'.key = db.key /\ db'.issuer = db.issuer
        /\ db'.jobs = db.jobs /\ db'.purpose = db.purpose /\ db'.intents = db.intents /\ db'.fence = db.fence
        /\ db'.verif = db.verif /\ db'.reg = db.reg /\ db'.wakes = db.wakes
    BY <2>1 DEF TypeOK, Tables
  <2>. QED BY <2>1, <2>2, PutElse DEF Beside, NativeSame
<1>2. CASE AuthorizePolicy
  <2> DEFINE policy == [outcome |-> IF now >= PolicyExpiry THEN "expired" ELSE "pending", job |-> None]
  <2>1. db.key = None /\ db' = [db EXCEPT !.policy = policy] /\ policy.outcome # "enrolled" /\ policy \in Policy
    BY <1>2 DEF AuthorizePolicy, Policy
  <2>. HIDE DEF policy
  <2>2. /\ db' \in Tables /\ db'.auth = db.auth /\ db'.policy = policy /\ db'.key = db.key /\ db'.issuer = db.issuer
        /\ db'.jobs = db.jobs /\ db'.purpose = db.purpose /\ db'.intents = db.intents /\ db'.fence = db.fence
        /\ db'.verif = db.verif /\ db'.reg = db.reg /\ db'.wakes = db.wakes
    BY <2>1 DEF TypeOK, Tables
  <2>. QED BY <2>1, <2>2, PutElse, NoneAssumption DEF PolicyOpens
<1>3. CASE DisableToken
  <2>2. /\ db' \in Tables /\ db'.auth = db.auth /\ db'.policy = db.policy /\ db'.key = db.key /\ db'.issuer = db.issuer
        /\ db'.jobs = db.jobs /\ db'.purpose = db.purpose /\ db'.intents = db.intents /\ db'.fence = db.fence
        /\ db'.verif = db.verif /\ db'.reg = db.reg /\ db'.wakes = db.wakes
    BY <1>3 DEF DisableToken, TypeOK, Tables
  <2>. QED BY <2>2, PutElse DEF Beside, NativeSame
<1>. QED BY <1>1, <1>2, <1>3

-----------------------------------------------------------------------------
\* What a statement of a request does, whoever runs it, and when.
Does(c) == Beside \/ (Stage(c) = "commit" /\ Commits(c)) \/ Registers(c) \/ Beyond(c) \/ PolicyOff

LEMMA EffectTurn ==
  ASSUME TypeOK, Rooted, NEW c \in Calls, NEW at \in Nat, NEW statement \in Statements,
         calls[c].purpose \in Purposes, calls[c].op \in Ops,
         statement = "reserve" => calls[c].native \in Natives,
         statement = "commit" => Stage(c) = "commit", db' = Effect(c, statement, at)
  PROVE  Turn /\ Does(c)
<1>1. CASE statement \in {"intent", "bind", "finish"}
  <2>1. db' \in {Intended(c, at), BoundIntent(c, at), FinishedIntent(c, "completed")}
    BY <1>1 DEF Effect
  <2>. QED BY <2>1, IntentedTurn, BoundIntentTurn, FinishedIntentTurn DEF Does
<1>2. CASE statement \in {"reserve", "publish", "insert"}
  <2>1. \/ calls[c].native \in Natives /\ db' = ReservedIssuer(c, at)
        \/ db' \in {FinishedIssuer(c, "issued", at), InsertedPurpose(c)}
    BY <1>2 DEF Effect
  <2>. QED BY <2>1, ReservedIssuerTurn, FinishedIssuerTurn, InsertedPurposeTurn DEF Does
<1>3. CASE statement \in {"job", "claim", "commit", "register"}
  <2>1. \/ db' \in {ReservedJob(c, at), ClaimedProof(c, at), Registered(c, at)}
        \/ Stage(c) = "commit" /\ db' = Committed(c)
    BY <1>3 DEF Effect
  <2>. QED BY <2>1, ReservedJobTurn, ClaimedProofTurn, CommittedTurn, RegisteredTurn DEF Does
<1>4. CASE statement \in {"wake", "mark"}
  <2>1. db' \in {ReservedWake(c, at), MarkedWake(c, at)}
    BY <1>4 DEF Effect
  <2>. QED BY <2>1, WakeTurn DEF Does
<1>5. CASE statement \in {"withdraw_child", "withdraw_policy", "withdraw_all"}
  <2>1. db' \in {WithdrawnChild(calls[c].purpose), WithdrawnPolicy, WithdrawnAll}
    BY <1>5 DEF Effect
  <2>. QED BY <2>1, WithdrawnChildTurn, WithdrawnPolicyTurn, WithdrawnAllTurn DEF Does
<1>. QED BY <1>1, <1>2, <1>3, <1>4, <1>5 DEF Statements

-----------------------------------------------------------------------------
\* The requests.
LEMMA RequestFact ==
  ASSUME TypeOK, Requests, NEW c \in Calls
  PROVE  /\ calls[c] \in Call /\ Shape(c) /\ Carries(c) /\ Issues(c)
         /\ late[c] \in Statements \cup {None} /\ None \notin Statements
         /\ Statements \cap Over = {}
BY NoneAssumption DEF TypeOK, Requests, Statements, Over

\* What no step of a request changes in it.
Kept(q, r) == q.kind = r.kind /\ q.purpose = r.purpose /\ q.op = r.op
Locals(q, r) == q.native = r.native /\ q.counter = r.counter /\ q.seen = r.seen
OnlyCall(c) == calls' \in [Calls -> Call] /\ \A d \in Calls : d # c => calls'[d] = calls[d]

LEMMA CallFact ==
  ASSUME TypeOK, NEW c \in Calls, NEW q \in Call, calls' = [calls EXCEPT ![c] = q]
  PROVE  OnlyCall(c) /\ calls'[c] = q
BY DEF TypeOK, OnlyCall

LEMMA GotoFact ==
  ASSUME TypeOK, NEW c \in Calls, NEW pc \in Steps, Goto(c, pc)
  PROVE  OnlyCall(c) /\ calls'[c].pc = pc /\ Kept(calls'[c], calls[c]) /\ Locals(calls'[c], calls[c])
<1> DEFINE q == [calls[c] EXCEPT !.pc = pc, !.clock = now]
<1>0. calls[c] \in Call /\ now \in Nat
  BY TablesFact DEF TypeOK
<1>1. calls' = [calls EXCEPT ![c] = q]
  BY DEF Goto
<1>2. q \in Call /\ q.pc = pc /\ Kept(q, calls[c]) /\ Locals(q, calls[c])
  BY <1>0 DEF Call, Kept, Locals
<1>. HIDE DEF q
<1>. QED BY <1>1, <1>2, CallFact

LEMMA PcFact ==
  ASSUME TypeOK, NEW c \in Calls, NEW pc \in Steps, calls' = [calls EXCEPT ![c].pc = pc]
  PROVE  OnlyCall(c) /\ calls'[c].pc = pc /\ Kept(calls'[c], calls[c]) /\ Locals(calls'[c], calls[c])
<1> DEFINE q == [calls[c] EXCEPT !.pc = pc]
<1>0. calls[c] \in Call
  BY DEF TypeOK
<1>1. calls' = [calls EXCEPT ![c] = q]
  OBVIOUS
<1>2. q \in Call /\ q.pc = pc /\ Kept(q, calls[c]) /\ Locals(q, calls[c])
  BY <1>0 DEF Call, Kept, Locals
<1>. HIDE DEF q
<1>. QED BY <1>1, <1>2, CallFact

LEMMA EndFact ==
  ASSUME TypeOK, NEW c \in Calls, NEW pc \in Steps, End(c, pc)
  PROVE  /\ OnlyCall(c) /\ calls'[c].pc = pc /\ Kept(calls'[c], calls[c])
         /\ late'[c] # None => Locals(calls'[c], calls[c])
<1> DEFINE q == IF late'[c] # None THEN [calls[c] EXCEPT !.pc = pc]
                ELSE [Idle EXCEPT !.pc = pc, !.kind = calls[c].kind, !.purpose = calls[c].purpose, !.op = calls[c].op]
<1>0. calls[c] \in Call /\ c \in DOMAIN calls
  BY DEF TypeOK
<1>1. calls' = [calls EXCEPT ![c] = q]
  BY <1>0 DEF End
<1>2. /\ q \in Call /\ q.pc = pc /\ Kept(q, calls[c]) /\ (late'[c] # None => Locals(q, calls[c]))
  <2>1. CASE late'[c] # None
    <3>1. q = [calls[c] EXCEPT !.pc = pc]
      BY <2>1
    <3>. HIDE DEF q
    <3>. QED BY <1>0, <3>1 DEF Call, Kept, Locals
  <2>2. CASE late'[c] = None
    <3>1. q = [Idle EXCEPT !.pc = pc, !.kind = calls[c].kind, !.purpose = calls[c].purpose, !.op = calls[c].op]
      BY <2>2
    <3>. HIDE DEF q
    <3>. QED BY <1>0, <2>2, <3>1 DEF Call, Kept, Idle
  <2>. QED BY <2>1, <2>2
<1>. HIDE DEF q
<1>. QED BY <1>1, <1>2, CallFact

LEMMA FailFact ==
  ASSUME TypeOK, NEW c \in Calls, Fail(c)
  PROVE  /\ OnlyCall(c) /\ calls'[c].pc \in Over /\ Kept(calls'[c], calls[c])
         /\ late'[c] # None => Locals(calls'[c], calls[c])
<1> DEFINE pc == IF calls[c].kind = "complete" THEN "fail_proof"
                 ELSE IF calls[c].held THEN "fail_issuer" ELSE "fail_intent"
<1>1. End(c, "done") \/ calls' = [calls EXCEPT ![c].pc = pc]
  BY DEF Fail
<1>2. pc \in Steps /\ pc \in Over
  BY DEF Over, Steps
<1>. HIDE DEF pc
<1>3. "done" \in Over /\ "done" \in Steps
  BY DEF Over, Steps, Ended
<1>. QED BY <1>1, <1>2, <1>3, EndFact, PcFact

-----------------------------------------------------------------------------
\* What a request has written, and what it brings to its statement, stays.
LEMMA OthersStay ==
  ASSUME TypeOK, Requests, Turn, NEW d \in Calls, calls'[d] = calls[d], late'[d] = late[d]
  PROVE  Shape(d)' /\ Carries(d)' /\ Issues(d)'
<1>1. Shape(d) /\ Carries(d) /\ Issues(d)
  BY DEF Requests
<1>2. Shape(d)'
  BY <1>1 DEF Shape
<1>3. calls[d].pc # "idle" => calls[d].purpose \in Purposes /\ Keeps(calls[d].purpose)
  BY <1>1 DEF Shape, Turn
<1>4. Stage(d)' = Stage(d)
  BY DEF Stage
<1>5. Stage(d) = "commit" => calls[d].pc # "idle"
  BY <1>1 DEF Stage, Shape, Over
<1>6. Carries(d)'
  BY <1>1, <1>3, <1>4, <1>5 DEF Carries, Keeps
<1>7. Issues(d)'
  BY <1>1, <1>3 DEF Issues, Keeps
<1>. QED BY <1>2, <1>6, <1>7

\* A request that has failed has nothing to do but its catch block, and the
\* statement that is under way.
LEMMA FailedStays ==
  ASSUME TypeOK, Requests, Turn, NEW c \in Calls, calls[c].pc # "idle",
         calls'[c].pc \in Over, Kept(calls'[c], calls[c]),
         late'[c] # None => Locals(calls'[c], calls[c]) /\ late'[c] = Stage(c)
  PROVE  Shape(c)' /\ Carries(c)' /\ Issues(c)'
<1>1. Shape(c) /\ Carries(c)
  BY DEF Requests
<1>2. Shape(c)'
  BY <1>1 DEF Shape, Kept, Over, KindsAt
<1>3. calls[c].purpose \in Purposes /\ Keeps(calls[c].purpose)
  BY <1>1 DEF Shape, Turn
<1>4. Stage(c)' \in {"commit", "reserve"} => late'[c] # None /\ Stage(c)' = Stage(c)
  BY DEF Stage, Over
<1>5. Carries(c)'
  BY <1>1, <1>3, <1>4 DEF Carries, Keeps, Kept, Locals
<1>6. Issues(c)'
  BY DEF Issues, Over
<1>. QED BY <1>2, <1>5, <1>6

\* A step of a request that has arrived.
Stepped(c) ==
  /\ OnlyCall(c) /\ Kept(calls'[c], calls[c]) /\ calls[c].pc # "idle" /\ calls'[c].pc # "idle"
  /\ late' \in [Calls -> Statements \cup {None}] /\ \A d \in Calls : d # c => late'[d] = late[d]
  /\ UNCHANGED now /\ Turn /\ Does(c) /\ Shape(c)' /\ Carries(c)' /\ Issues(c)'
  /\ calls'[c].pc = "answered" => calls[c].pc = "finish" /\ calls[c].kind = "issue"

LEMMA Fails ==
  ASSUME TypeOK, Requests, Turn, NEW c \in Calls, Does(c), Fail(c), UNCHANGED <<late, now>>,
         calls[c].pc # "idle"
  PROVE  Stepped(c)
<1>1. /\ OnlyCall(c) /\ calls'[c].pc \in Over /\ Kept(calls'[c], calls[c])
      /\ late'[c] # None => Locals(calls'[c], calls[c])
  BY FailFact
<1>2. late'[c] # None => late'[c] = Stage(c)
  BY DEF Stage
<1>3. Shape(c)' /\ Carries(c)' /\ Issues(c)'
  BY <1>1, <1>2, FailedStays
<1>. QED BY <1>1, <1>3 DEF Stepped, TypeOK, Over

\* The rows that are there when a request comes to its next step.
Brings(c, pc) ==
  LET q == calls[c]
      s == db'.issuer[q.purpose]
      t == db'.purpose[q.purpose]
  IN /\ q.kind \in KindsAt(pc) /\ (pc = "answered" => q.pc = "finish")
     /\ pc \in {"intent", "bind", "public", "claim", "verify"} => q.counter = 0
     /\ pc \in {"bound", "insert", "publish", "confirm"} \/ (q.kind = "issue" /\ pc = "finish") => s # None /\ s.claim = c
     /\ pc \in {"publish", "confirm"} \/ (q.kind = "issue" /\ pc = "finish") => t # None /\ t.claim = c
     /\ pc = "acked" /\ q.kind = "revoke" => s # None /\ s.outcome = "withdrawn"

LEMMA Advances ==
  ASSUME TypeOK, Requests, Turn, NEW c \in Calls, Does(c), NEW pc \in Steps, UNCHANGED <<late, now>>,
         calls[c].pc \notin Over \cup {"idle"}, pc \notin {"idle", "reserve", "commit"}, Brings(c, pc),
         Goto(c, pc) \/ (pc \in Ended /\ End(c, pc))
  PROVE  Stepped(c)
<1>1. OnlyCall(c) /\ calls'[c].pc = pc /\ Kept(calls'[c], calls[c])
  BY GotoFact, EndFact
<1>2. pc \notin Ended => Locals(calls'[c], calls[c])
  BY <1>1, GotoFact
<1>3. late[c] = None /\ Shape(c)
  BY RequestFact DEF Shape
<1>4. Shape(c)'
  BY <1>1, <1>2, <1>3 DEF Shape, Kept, Locals, Brings, Ended
<1>5. Carries(c)'
  BY <1>1, <1>3 DEF Carries, Stage
<1>6. Issues(c)'
  BY <1>1 DEF Issues, Kept, Brings
<1>7. pc = "answered" => calls[c].pc = "finish" /\ calls[c].kind = "issue"
  BY DEF Brings, KindsAt
<1>. QED BY <1>1, <1>3, <1>4, <1>5, <1>6, <1>7 DEF Stepped, TypeOK

\* What a request that has arrived has, and that it waits for no statement.
LEMMA AtFact ==
  ASSUME TypeOK, Requests, NEW c \in Calls, calls[c].pc \notin Over \cup {"idle"}
  PROVE  /\ calls[c].purpose \in Purposes /\ calls[c].op \in Ops /\ calls[c].kind \in KindsAt(calls[c].pc)
         /\ late[c] = None /\ calls[c] \in Call /\ Shape(c) /\ Carries(c) /\ Issues(c)
         /\ \A at \in Clocks(c) : at \in Nat
  <1>1. Shape(c) /\ Carries(c) /\ Issues(c) /\ calls[c] \in Call /\ now \in Nat
    BY RequestFact, TablesFact
  <1>2. \A at \in Clocks(c) : at \in Nat
    BY <1>1 DEF Clocks, Call
  <1>. QED BY <1>1, <1>2 DEF Shape

\* A statement is run, and the request goes on or fails.
LEMMA DoStep ==
  ASSUME TypeOK, Requests, Rooted, NEW c \in Calls, NEW e, NEW done, NEW pc \in Steps, Do(c, e, done, pc),
         calls[c].pc \notin Over \cup {"idle"}, pc \notin {"idle", "reserve", "commit"},
         NEW statement \in Statements, NEW at \in Nat, e = Effect(c, statement, at),
         statement = "reserve" => calls[c].native \in Natives,
         statement = "commit" => calls[c].pc = "commit",
         done => (Turn => Brings(c, pc))
  PROVE  Stepped(c)
<1>1. Turn /\ Does(c)
  <2>1. statement = "commit" => Stage(c) = "commit"
    BY AtFact DEF Stage
  <2>. QED BY <2>1, AtFact, EffectTurn DEF Do
<1>2. CASE ~done
  BY <1>1, <1>2, Fails DEF Do
<1>3. CASE done
  <2>1. UNCHANGED <<late, now>> /\ (Goto(c, pc) \/ (pc \in Ended /\ End(c, pc)))
    BY <1>3 DEF Do
  <2>. QED BY <1>1, <1>3, <2>1, Advances
<1>. QED BY <1>2, <1>3

-----------------------------------------------------------------------------
\* The actions of a request, by what they do next.
Ups == {"intent", "bind", "native", "reserve", "bound", "insert", "publish", "confirm", "public", "job",
        "claim", "verify", "commit", "match", "register", "wake", "mark", "finish",
        "withdraw_child", "withdraw_policy", "withdraw_all"}
LEMMA UpsFact == /\ Ups \cap (Over \cup {"idle"}) = {} /\ Ups \cup Ended \subseteq Steps /\ Statements \subseteq Ups
BY DEF Ups, Over, Steps, Statements, Ended

\* Statements that lead to steps with nothing written.
LEMMA PlainStep ==
  ASSUME TypeOK, Requests, Rooted, NEW c \in Calls,
         \/ ReserveIntent(c) \/ BindIntent(c) \/ ReserveJob(c) \/ ClaimProof(c) \/ Commit(c)
         \/ Register(c) \/ ReserveWake(c) \/ MarkWake(c) \/ FinishIntent(c) \/ WithdrawPolicy(c) \/ WithdrawAll(c)
  PROVE  Stepped(c)
<1>1. calls[c].pc \in Ups
  BY DEF ReserveIntent, BindIntent, ReserveJob, ClaimProof, Commit, Register, ReserveWake, MarkWake,
         FinishIntent, WithdrawPolicy, WithdrawAll, At, Ups
<1>2. /\ calls[c].kind \in KindsAt(calls[c].pc) /\ Shape(c) /\ \A at \in Clocks(c) : at \in Nat
      /\ calls[c].pc \notin Over \cup {"idle"}
  BY <1>1, AtFact, UpsFact
<1>3. CASE ReserveIntent(c)
  <2>1. calls[c].pc = "intent"
    BY <1>3 DEF ReserveIntent, At
  <2>2. PICK at \in Clocks(c) : Do(c, Effect(c, "intent", at), HoldsIntent(db', c), "bind")
    BY <1>3 DEF ReserveIntent, Effect
  <2>3. Brings(c, "bind")
    BY <1>2, <2>1 DEF Brings, KindsAt, Shape
  <2>. QED BY <1>2, <2>2, <2>3, DoStep DEF Steps, Statements, Ended
<1>4. CASE BindIntent(c)
  <2> DEFINE pc == CASE calls[c].kind = "issue" -> "native"
                     [] calls[c].kind \in {"challenge", "complete"} -> "public"
                     [] OTHER -> "match"
  <2>1. calls[c].pc = "bind"
    BY <1>4 DEF BindIntent, At
  <2>2. PICK at \in Clocks(c) : Do(c, Effect(c, "bind", at), db' # db, pc)
    BY <1>4 DEF BindIntent, Effect
  <2>3. /\ pc \in {"native", "public", "match"} /\ (pc = "native" => calls[c].kind = "issue")
        /\ pc = "public" => calls[c].kind \in {"challenge", "complete"}
        /\ pc = "match" => calls[c].kind \in {"register", "wake"}
    <3>1. calls[c].kind \in Positive
      BY <1>2, <2>1 DEF KindsAt
    <3>. QED BY <3>1 DEF Positive
  <2>. HIDE DEF pc
  <2>4. Brings(c, pc)
    BY <1>2, <2>1, <2>3 DEF Brings, KindsAt, Shape
  <2>5. pc \in Steps /\ pc \notin {"idle", "reserve", "commit"} /\ "bind" \in Statements
    BY <2>3 DEF Steps, Statements
  <2>. QED BY <1>2, <2>2, <2>4, <2>5, DoStep
<1>5. CASE ReserveJob(c)
  <2>1. calls[c].pc = "job"
    BY <1>5 DEF ReserveJob, At
  <2>2. PICK at \in Clocks(c) : Do(c, Effect(c, "job", at),
           db' # db /\ db'.jobs[calls[c].purpose].outcome = "reserved", "finish")
    BY <1>5 DEF ReserveJob, Effect
  <2>3. Brings(c, "finish")
    BY <1>2, <2>1 DEF Brings, KindsAt, Positive
  <2>. QED BY <1>2, <2>2, <2>3, DoStep DEF Steps, Statements, Ended
<1>6. CASE ClaimProof(c)
  <2>1. calls[c].pc = "claim"
    BY <1>6 DEF ClaimProof, At
  <2>2. PICK at \in Clocks(c) : Do(c, Effect(c, "claim", at), db' # db, "verify")
    BY <1>6 DEF ClaimProof, Effect
  <2>3. Brings(c, "verify")
    BY <1>2, <2>1 DEF Brings, KindsAt, Shape
  <2>. QED BY <1>2, <2>2, <2>3, DoStep DEF Steps, Statements, Ended
<1>7. CASE Commit(c)
  <2>1. calls[c].pc = "commit"
    BY <1>7 DEF Commit, At
  <2>2. Do(c, Effect(c, "commit", 0), db' # db, "finish")
    BY <1>7 DEF Commit, Effect
  <2>3. Brings(c, "finish")
    BY <1>2, <2>1 DEF Brings, KindsAt, Positive
  <2>4. "finish" \in Steps /\ "commit" \in Statements /\ 0 \in Nat
    BY DEF Steps, Statements
  <2>. QED BY <1>2, <2>1, <2>2, <2>3, <2>4, DoStep
<1>8. CASE Register(c)
  <2>1. calls[c].pc = "register"
    BY <1>8 DEF Register, At
  <2>2. PICK at \in Clocks(c) : Do(c, Effect(c, "register", at), db' # db, "finish")
    BY <1>8 DEF Register, Effect
  <2>3. Brings(c, "finish")
    BY <1>2, <2>1 DEF Brings, KindsAt, Positive
  <2>. QED BY <1>2, <2>2, <2>3, DoStep DEF Steps, Statements, Ended
<1>9. CASE ReserveWake(c)
  <2>1. calls[c].pc = "wake"
    BY <1>9 DEF ReserveWake, At
  <2>2. PICK at \in Clocks(c) : Do(c, Effect(c, "wake", at), db'.wakes[c] = "reserved", "mark")
    BY <1>9 DEF ReserveWake, Effect
  <2>3. Brings(c, "mark")
    BY <1>2, <2>1 DEF Brings, KindsAt
  <2>. QED BY <1>2, <2>2, <2>3, DoStep DEF Steps, Statements, Ended
<1>10. CASE MarkWake(c)
  <2>1. calls[c].pc = "mark"
    BY <1>10 DEF MarkWake, At
  <2>2. PICK at \in Clocks(c) : Do(c, Effect(c, "mark", at), db' # db, "finish")
    BY <1>10 DEF MarkWake, Effect
  <2>3. Brings(c, "finish")
    BY <1>2, <2>1 DEF Brings, KindsAt, Positive
  <2>. QED BY <1>2, <2>2, <2>3, DoStep DEF Steps, Statements, Ended
<1>11. CASE FinishIntent(c)
  <2> DEFINE pc == IF calls[c].kind = "issue" THEN "answered" ELSE "done"
  <2>1. calls[c].pc = "finish"
    BY <1>11 DEF FinishIntent, At
  <2>2. Do(c, Effect(c, "finish", 0), TRUE, pc)
    BY <1>11 DEF FinishIntent, Effect
  <2>3. Brings(c, pc)
    BY <1>2, <2>1 DEF Brings, KindsAt, Positive, Kinds
  <2>4. pc \in Steps /\ pc \notin {"idle", "reserve", "commit"} /\ "finish" \in Statements
    BY DEF Steps, Ended, Statements
  <2>. HIDE DEF pc
  <2>. QED BY <1>2, <2>2, <2>3, <2>4, DoStep
<1>12. CASE WithdrawPolicy(c)
  <2>1. calls[c].pc = "withdraw_policy"
    BY <1>12 DEF WithdrawPolicy, At
  <2>2. Do(c, Effect(c, "withdraw_policy", 0), TRUE, "withdraw_all")
    BY <1>12 DEF WithdrawPolicy, Effect
  <2>3. Brings(c, "withdraw_all")
    BY <1>2, <2>1 DEF Brings, KindsAt
  <2>. QED BY <1>2, <2>2, <2>3, DoStep DEF Steps, Statements, Ended
<1>13. CASE WithdrawAll(c)
  <2>1. calls[c].pc = "withdraw_all"
    BY <1>13 DEF WithdrawAll, At
  <2>2. Do(c, Effect(c, "withdraw_all", 0), TRUE, "acked")
    BY <1>13 DEF WithdrawAll, Effect
  <2>3. Brings(c, "acked")
    BY <1>2, <2>1 DEF Brings, KindsAt, Kinds
  <2>. QED BY <1>2, <2>2, <2>3, DoStep DEF Steps, Statements, Ended
<1>. QED BY <1>3, <1>4, <1>5, <1>6, <1>7, <1>8, <1>9, <1>10, <1>11, <1>12, <1>13

\* Steps that only read.
LEMMA ReadStep ==
  ASSUME TypeOK, Requests, Rooted, NEW c \in Calls, Bind(c) \/ ReadPublic(c) \/ Match(c)
  PROVE  Stepped(c)
<1>1. calls[c].pc \in {"bound", "public", "match"}
  BY DEF Bind, ReadPublic, Match, At
<1>2. /\ calls[c].kind \in KindsAt(calls[c].pc) /\ Shape(c) /\ Issues(c)
      /\ calls[c].pc \notin Over \cup {"idle"}
  BY <1>1, AtFact DEF Over
<1>3. db' = db /\ UNCHANGED <<late, now>> /\ Turn /\ Does(c)
  BY NoTurn DEF Bind, ReadPublic, Match, Check, Does
<1>4. \/ Fail(c)
      \/ \E pc \in Steps \ {"idle", "reserve", "commit"} : Goto(c, pc) /\ Brings(c, pc)
  <2>1. CASE Bind(c)
    <3>1. calls[c].pc = "bound" /\ (Fail(c) \/ Goto(c, "insert"))
      BY <2>1 DEF Bind, At, Check
    <3>2. Brings(c, "insert")
      BY <1>2, <1>3, <3>1 DEF Brings, KindsAt, Issues
    <3>. QED BY <3>1, <3>2 DEF Steps, Statements
  <2>2. CASE ReadPublic(c)
    <3>1. calls[c].pc = "public" /\ (Fail(c) \/ Goto(c, IF calls[c].kind = "challenge" THEN "job" ELSE "claim"))
      BY <2>2 DEF ReadPublic, At, Check
    <3>2. Brings(c, IF calls[c].kind = "challenge" THEN "job" ELSE "claim")
      BY <1>2, <1>3, <3>1 DEF Brings, KindsAt, Shape
    <3>. QED BY <3>1, <3>2 DEF Steps, Statements
  <2>3. CASE Match(c)
    <3>1. calls[c].pc = "match" /\ (Fail(c) \/ Goto(c, "withdraw_child")
             \/ Goto(c, IF calls[c].kind = "register" THEN "register" ELSE "wake"))
      BY <2>3 DEF Match, At, Check
    <3>2. Brings(c, "withdraw_child") /\ Brings(c, IF calls[c].kind = "register" THEN "register" ELSE "wake")
      BY <1>2, <1>3, <3>1 DEF Brings, KindsAt, Kinds, Positive
    <3>. QED BY <3>1, <3>2 DEF Steps, Statements
  <2>. QED BY <2>1, <2>2, <2>3
<1>. QED BY <1>2, <1>3, <1>4, Fails, Advances

\* Steps that write an issuer and its purpose, or close them.
LEMMA IssueStep ==
  ASSUME TypeOK, Requests, Rooted, NEW c \in Calls, InsertPurpose(c) \/ Publish(c) \/ WithdrawChild(c)
  PROVE  Stepped(c)
<1>1. calls[c].pc \in {"insert", "publish", "withdraw_child"}
  BY DEF InsertPurpose, Publish, WithdrawChild, At
<1>2. /\ calls[c].kind \in KindsAt(calls[c].pc) /\ Shape(c) /\ Issues(c) /\ calls[c].purpose \in Purposes
      /\ calls[c].pc \notin Over \cup {"idle"} /\ \A at \in Clocks(c) : at \in Nat
  BY <1>1, AtFact DEF Over
<1>3. CASE InsertPurpose(c)
  <2>1. calls[c].pc = "insert"
    BY <1>3 DEF InsertPurpose, At
  <2>2. Do(c, Effect(c, "insert", 0), db' # db, "publish")
    BY <1>3 DEF InsertPurpose, Effect
  <2>3. ASSUME db' # db, Turn PROVE Brings(c, "publish")
    <3>1. db' = InsertedPurpose(c)
      BY <1>3 DEF InsertPurpose, Do
    <3> DEFINE row == [claim |-> c, withdrawn |-> FALSE, token |-> FALSE]
    <3>2. db' = [db EXCEPT !.purpose[calls[c].purpose] = row] /\ row.claim = c /\ row \in Target
      BY <2>3, <3>1 DEF InsertedPurpose, Target
    <3>. HIDE DEF row
    <3>3. db'.purpose[calls[c].purpose] = row
      BY <1>2, <3>2 DEF TypeOK, Tables
    <3>4. db'.issuer = db.issuer
      BY <3>2 DEF TypeOK, Tables
    <3>. QED BY <1>2, <2>1, <3>2, <3>3, <3>4, NoneAssumption DEF Brings, KindsAt, Issues
  <2>4. "publish" \in Steps /\ "insert" \in Statements /\ 0 \in Nat
    BY DEF Steps, Statements
  <2>. QED BY <1>2, <2>2, <2>3, <2>4, DoStep
<1>4. CASE Publish(c)
  <2>1. calls[c].pc = "publish"
    BY <1>4 DEF Publish, At
  <2>2. PICK at \in Clocks(c) : Do(c, Effect(c, "publish", at), TRUE, "confirm")
    BY <1>4 DEF Publish, Effect
  <2>3. ASSUME Turn PROVE Brings(c, "confirm")
    <3>1. Keeps(calls[c].purpose)
      BY <1>2, <2>3 DEF Turn
    <3>. QED BY <1>2, <2>1, <3>1 DEF Brings, KindsAt, Issues, Keeps
  <2>4. "confirm" \in Steps /\ "publish" \in Statements
    BY DEF Steps, Statements
  <2>. QED BY <1>2, <2>2, <2>3, <2>4, DoStep
<1>5. CASE WithdrawChild(c)
  <2> DEFINE p == calls[c].purpose
             done == /\ db'.issuer[p] # None /\ (db'.issuer[p].outcome = "withdrawn" \/ p \in db'.fence)
                     /\ calls[c].kind = "revoke"
  <2>2. Do(c, Effect(c, "withdraw_child", 0), done, "acked")
    BY <1>5 DEF WithdrawChild, Effect
  <2>3. ASSUME done PROVE Brings(c, "acked")
    <3>0. db' = WithdrawnChild(p)
      BY <1>5 DEF WithdrawChild, Do
    <3>1. \A x \in Purposes : db' = WithdrawnChild(x) => db'.issuer[x] = None \/ db'.issuer[x].outcome = "withdrawn"
      BY WithdrawnChildTurn DEF Closed
    <3>2. db'.issuer[p] # None /\ db'.issuer[p].outcome = "withdrawn" /\ calls[c].kind \in Kinds
      BY <1>2, <2>3, <3>0, <3>1 DEF Kinds
    <3>. QED BY <3>2 DEF Brings, KindsAt
  <2>. HIDE DEF done
  <2>4. "acked" \in Steps /\ "withdraw_child" \in Statements /\ 0 \in Nat
    BY DEF Steps, Statements, Ended
  <2>. QED BY <1>2, <2>2, <2>3, <2>4, DoStep
<1>. QED BY <1>3, <1>4, <1>5

\* A step that changes a local of the request.
LEMMA LocalStep ==
  ASSUME TypeOK, Requests, Turn, NEW c \in Calls, Does(c), UNCHANGED <<late, now>>,
         calls[c].pc \notin Over \cup {"idle"}, NEW q \in Call, calls' = [calls EXCEPT ![c] = q],
         Kept(q, calls[c]), q.pc # "idle", q.pc \notin {"intent", "bind", "public", "claim", "verify"}, Brings(c, q.pc),
         q.pc = "reserve" => q.native \in Natives,
         q.pc = "commit" => LET j == db.jobs[q.purpose]
                            IN j # None /\ IF j.native = "attestation" THEN q.counter = 0 ELSE q.counter > q.seen
  PROVE  Stepped(c)
<1>1. OnlyCall(c) /\ calls'[c] = q
  BY CallFact
<1>2. late[c] = None /\ calls[c].purpose \in Purposes /\ calls[c].op \in Ops
  BY AtFact
<1>3. Shape(c)'
  <2>1. Kinds = Positive \cup {"revoke", "withdraw", "policy_withdraw"}
    BY DEF Kinds
  <2>2. \A pc : KindsAt(pc) \subseteq Kinds
    BY DEF KindsAt, Kinds, Positive
  <2>. QED BY <1>1, <1>2, <2>2 DEF Shape, Kept, Brings
<1>4. Keeps(calls[c].purpose)
  BY <1>2 DEF Turn
<1>5. Carries(c)'
  BY <1>1, <1>2, <1>4 DEF Carries, Stage, Keeps, Kept
<1>6. Issues(c)'
  BY <1>1 DEF Issues, Kept, Brings
<1>7. q.pc = "answered" => calls[c].pc = "finish" /\ calls[c].kind = "issue"
  BY DEF Brings, KindsAt
<1>. QED BY <1>1, <1>2, <1>3, <1>5, <1>6, <1>7 DEF Stepped, TypeOK

LEMMA TurnStep ==
  ASSUME TypeOK, Requests, Rooted, NEW c \in Calls, ReadNative(c) \/ ReserveIssuer(c) \/ Confirm(c) \/ Verify(c)
  PROVE  Stepped(c)
<1>1. calls[c].pc \in {"native", "reserve", "confirm", "verify"}
  BY DEF ReadNative, ReserveIssuer, Confirm, Verify, At
<1>2. /\ calls[c].kind \in KindsAt(calls[c].pc) /\ Shape(c) /\ Issues(c) /\ Carries(c) /\ calls[c].purpose \in Purposes
      /\ calls[c].pc \notin Over \cup {"idle"} /\ calls[c] \in Call /\ late[c] = None /\ calls[c].op \in Ops
      /\ now \in Nat /\ \A at \in Clocks(c) : at \in Nat
  BY <1>1, AtFact, TablesFact DEF Over
<1>3. UNCHANGED <<late, now>>
  BY DEF ReadNative, ReserveIssuer, Confirm, Verify
<1>4. CASE ReadNative(c)
  <2>0. calls[c].pc = "native" /\ Turn /\ Does(c) /\ db' = db
    BY <1>4, NoTurn DEF ReadNative, At, Does
  <2>1. CASE Fail(c)
    BY <1>2, <1>3, <2>0, <2>1, Fails
  <2>2. CASE ~Fail(c)
    <3> DEFINE native == NativeOf(calls[c].purpose)
               q == [calls[c] EXCEPT !.pc = "reserve", !.clock = now, !.native = native]
    <3>1. native \in Natives
      <4>1. native # None
        BY <1>4, <2>2 DEF ReadNative
      <4>. QED BY <4>1 DEF NativeOf, Natives
    <3>2. calls' = [calls EXCEPT ![c] = q]
      BY <1>4, <2>2 DEF ReadNative
    <3>. HIDE DEF native
    <3>3. q \in Call /\ q.pc = "reserve" /\ q.native = native /\ Kept(q, calls[c])
      BY <1>2, <3>1 DEF Call, Kept, Steps, Statements
    <3>4. Brings(c, "reserve")
      BY <1>2, <2>0 DEF Brings, KindsAt
    <3>. HIDE DEF q
    <3>. QED BY <1>2, <1>3, <2>0, <3>1, <3>2, <3>3, <3>4, LocalStep
  <2>. QED BY <2>1, <2>2
<1>5. CASE ReserveIssuer(c)
  <2>0. calls[c].pc = "reserve" /\ calls[c].native \in Natives
    BY <1>2, <1>5 DEF ReserveIssuer, At, Carries, Stage
  <2>1. Turn /\ Does(c)
    <3>1. PICK at \in Clocks(c) : db' = ReservedIssuer(c, at)
      BY <1>5 DEF ReserveIssuer
    <3>. QED BY <1>2, <2>0, <3>1, ReservedIssuerTurn DEF Does
  <2>2. CASE Fail(c)
    BY <1>2, <1>3, <2>1, <2>2, Fails
  <2>3. CASE ~Fail(c)
    <3> DEFINE q == [calls[c] EXCEPT !.pc = "bound", !.clock = now, !.held = TRUE]
    <3>1. HoldsIssuer(db', c) /\ calls' = [calls EXCEPT ![c] = q]
      BY <1>5, <2>3 DEF ReserveIssuer
    <3>2. q \in Call /\ q.pc = "bound" /\ Kept(q, calls[c])
      BY <1>2 DEF Call, Kept, Steps
    <3>3. Brings(c, "bound")
      BY <1>2, <2>0, <3>1 DEF Brings, KindsAt, HoldsIssuer
    <3>. HIDE DEF q
    <3>. QED BY <1>2, <1>3, <2>1, <3>1, <3>2, <3>3, LocalStep
  <2>. QED BY <2>2, <2>3
<1>6. CASE Confirm(c)
  <2> DEFINE held == db.issuer[calls[c].purpose].outcome = "reserved"
             ok == IsConfirmed(c) /\ Bound(calls[c].purpose)
             pc == IF ok THEN "finish" ELSE IF held THEN "fail_issuer" ELSE "fail_intent"
             q == [calls[c] EXCEPT !.held = held, !.clock = now, !.pc = pc]
  <2>0. calls[c].pc = "confirm" /\ Turn /\ Does(c) /\ db' = db
    BY <1>6, NoTurn DEF Confirm, At, Does
  <2>1. calls' = [calls EXCEPT ![c] = q]
    BY <1>6 DEF Confirm
  <2>2. held \in BOOLEAN /\ pc \in {"finish", "fail_issuer", "fail_intent"}
    OBVIOUS
  <2>. HIDE DEF held, ok, pc
  <2>3. q \in Call /\ q.pc = pc /\ Kept(q, calls[c])
    <3>1. pc \in Steps
      BY <2>2 DEF Steps, Statements
    <3>. QED BY <1>2, <2>2, <3>1 DEF Call, Kept
  <2>4. Brings(c, pc)
    BY <1>2, <2>0, <2>2 DEF Brings, KindsAt, Issues, Positive, Kinds
  <2>. HIDE DEF q
  <2>. QED BY <1>2, <1>3, <2>0, <2>1, <2>2, <2>3, <2>4, LocalStep
<1>7. CASE Verify(c)
  <2> DEFINE p == calls[c].purpose
             j == db.jobs[p]
  <2>0. calls[c].pc = "verify" /\ calls[c].counter = 0
    BY <1>2, <1>7 DEF Verify, At, Shape
  <2>1. Turn /\ Does(c)
    <3>1. db' = db \/ db' = FailedProof(c, "rejected")
      BY <1>7 DEF Verify
    <3>. QED BY <1>2, <3>1, NoTurn, FailedProofTurn DEF Does
  <2>2. CASE Fail(c)
    BY <1>2, <1>3, <2>1, <2>2, Fails
  <2>3. CASE ~Fail(c)
    <3>1. /\ db' = db /\ Verifying(c)
          /\ \/ j.native = "attestation" /\ Goto(c, "commit")
             \/ /\ j.native = "assertion" /\ NativeOf(p) = "assertion"
                /\ \E value \in Counters :
                     /\ value > db.key.counter
                     /\ calls' = [calls EXCEPT ![c].pc = "commit", ![c].clock = now,
                                               ![c].seen = db.key.counter, ![c].counter = value]
      BY <1>7, <2>3 DEF Verify
    <3>2. Brings(c, "commit")
      BY <1>2, <2>0 DEF Brings, KindsAt
    <3>3. j # None
      BY <3>1 DEF Verifying
    <3>4. CASE j.native = "attestation" /\ Goto(c, "commit")
      <4> DEFINE q == [calls[c] EXCEPT !.pc = "commit", !.clock = now]
      <4>1. calls' = [calls EXCEPT ![c] = q]
        BY <3>4 DEF Goto
      <4>2. q \in Call /\ q.pc = "commit" /\ Kept(q, calls[c]) /\ q.counter = 0
        BY <1>2, <2>0 DEF Call, Kept, Steps, Statements
      <4>. HIDE DEF q
      <4>. QED BY <1>2, <1>3, <2>1, <3>2, <3>3, <3>4, <4>1, <4>2, LocalStep DEF Kept
    <3>5. ASSUME NEW value \in Counters, value > db.key.counter, j.native = "assertion", NativeOf(p) = "assertion",
                 calls' = [calls EXCEPT ![c].pc = "commit", ![c].clock = now,
                                        ![c].seen = db.key.counter, ![c].counter = value]
          PROVE  Stepped(c)
      <4> DEFINE seen == db.key.counter
                 q == [calls[c] EXCEPT !.pc = "commit", !.clock = now, !.seen = seen, !.counter = value]
      <4>1. calls' = [calls EXCEPT ![c] = q]
        BY <3>5
      <4>2. seen \in Nat /\ value \in Nat
        <5>1. db.key # None
          BY <3>5, NoneAssumption DEF NativeOf, Natives
        <5>. QED BY <5>1, TablesFact, ConstantsAssumption DEF Key
      <4>3. value > seen
        BY <3>5
      <4>. HIDE DEF seen
      <4>4. q \in Call /\ q.pc = "commit" /\ Kept(q, calls[c]) /\ q.counter = value /\ q.seen = seen
        BY <1>2, <4>2 DEF Call, Kept, Steps, Statements
      <4>. HIDE DEF q
      <4>. QED BY <1>2, <1>3, <2>1, <3>2, <3>3, <3>5, <4>1, <4>3, <4>4, LocalStep DEF Kept
    <3>. QED BY <3>1, <3>4, <3>5
  <2>. QED BY <2>2, <2>3
<1>. QED BY <1>4, <1>5, <1>6, <1>7

\* A statement that is given up, that lands later, and what the catch block
\* writes meanwhile.
LEMMA CatchStep ==
  ASSUME TypeOK, Requests, Rooted, NEW c \in Calls, Abandon(c) \/ Land(c) \/ Catch(c)
  PROVE  Stepped(c)
<1>1. /\ Shape(c) /\ Carries(c) /\ calls[c] \in Call /\ late[c] \in Statements \cup {None} /\ None \notin Statements
      /\ Statements \cap Over = {} /\ now \in Nat /\ \A at \in Clocks(c) : at \in Nat
  <2>1. calls[c] \in Call /\ now \in Nat
    BY RequestFact, TablesFact
  <2>2. \A at \in Clocks(c) : at \in Nat
    BY <2>1 DEF Clocks, Call
  <2>. QED BY <2>1, <2>2, RequestFact
<1>2. calls[c].pc # "idle"
  BY <1>1 DEF Abandon, Land, Catch, Shape, Over, Statements
<1>3. /\ calls[c].purpose \in Purposes /\ calls[c].op \in Ops
  BY <1>1, <1>2 DEF Shape
<1>4. CASE Abandon(c)
  <2>1. calls[c].pc \in Statements /\ late' = [late EXCEPT ![c] = calls[c].pc] /\ Fail(c) /\ UNCHANGED <<db, now>>
    BY <1>4 DEF Abandon
  <2>2. late[c] = None
    BY <1>1, <2>1 DEF Shape
  <2>3. late' \in [Calls -> Statements \cup {None}] /\ late'[c] = Stage(c) /\ \A d \in Calls : d # c => late'[d] = late[d]
    BY <2>1, <2>2 DEF TypeOK, Stage
  <2>4. Turn /\ Does(c)
    BY <2>1, NoTurn DEF Does
  <2>5. /\ OnlyCall(c) /\ calls'[c].pc \in Over /\ Kept(calls'[c], calls[c])
        /\ late'[c] # None => Locals(calls'[c], calls[c])
    BY <2>1, FailFact
  <2>6. Shape(c)' /\ Carries(c)' /\ Issues(c)'
    BY <1>2, <2>3, <2>4, <2>5, FailedStays
  <2>. QED BY <1>2, <2>1, <2>3, <2>4, <2>5, <2>6 DEF Stepped, Over
<1>5. CASE Land(c)
  <2>1. /\ late[c] # None /\ late' = [late EXCEPT ![c] = None] /\ UNCHANGED <<calls, now>>
        /\ \E at \in Clocks(c) : db' = Effect(c, late[c], at)
    BY <1>5 DEF Land
  <2>2. calls[c].pc \in Over /\ Stage(c) = late[c]
    BY <1>1, <2>1 DEF Shape, Stage
  <2>3. late' \in [Calls -> Statements \cup {None}] /\ late'[c] = None /\ \A d \in Calls : d # c => late'[d] = late[d]
    BY <2>1 DEF TypeOK
  <2>4. Turn /\ Does(c)
    <3>1. PICK at \in Clocks(c) : db' = Effect(c, late[c], at)
      BY <2>1
    <3>2. late[c] = "reserve" => calls[c].native \in Natives
      BY <1>1, <2>2 DEF Carries
    <3>. QED BY <1>1, <1>3, <2>1, <2>2, <3>1, <3>2, EffectTurn
  <2>5. OnlyCall(c) /\ Kept(calls'[c], calls[c])
    BY <2>1 DEF OnlyCall, Kept, TypeOK
  <2>6. Shape(c)' /\ Carries(c)' /\ Issues(c)'
    BY <1>2, <2>1, <2>2, <2>3, <2>4, <2>5, FailedStays
  <2>. QED BY <1>2, <2>1, <2>2, <2>3, <2>4, <2>5, <2>6 DEF Stepped, Over
<1>6. CASE Catch(c)
  <2>1. UNCHANGED <<late, now>> /\ calls[c].pc \in Over
    BY <1>6 DEF Catch, Over
  <2>2. db' = db \/ db' = FailedProof(c, "unknown") \/ db' = FinishedIssuer(c, "unknown", now)
          \/ db' = FinishedIntent(c, "unknown")
    BY <1>6 DEF Catch
  <2>3. Turn /\ Does(c)
    BY <1>1, <1>3, <2>2, NoTurn, FailedProofTurn, FinishedIssuerTurn, FinishedIntentTurn DEF Does
  <2>4. calls' = [calls EXCEPT ![c].pc = "fail_intent"] \/ End(c, "done")
    BY <1>6 DEF Catch
  <2>5. {"fail_intent", "done"} \subseteq Steps \cap Over
    BY DEF Steps, Ended, Over
  <2>6. /\ OnlyCall(c) /\ calls'[c].pc \in Over /\ Kept(calls'[c], calls[c])
        /\ late'[c] # None => Locals(calls'[c], calls[c])
    BY <2>4, <2>5, PcFact, EndFact
  <2>7. late'[c] # None => late'[c] = Stage(c)
    BY <2>1 DEF Stage
  <2>8. Shape(c)' /\ Carries(c)' /\ Issues(c)'
    BY <1>2, <2>3, <2>6, <2>7, FailedStays
  <2>. QED BY <1>2, <2>1, <2>3, <2>6, <2>8 DEF Stepped, Over, TypeOK
<1>. QED BY <1>4, <1>5, <1>6

\* A request arrives.
LEMMA ArriveStep ==
  ASSUME TypeOK, Requests, Rooted, NEW c \in Calls, Arrive(c)
  PROVE  /\ OnlyCall(c) /\ calls[c].pc = "idle" /\ calls'[c].pc # "answered" /\ UNCHANGED <<db, late, now>>
         /\ Turn /\ Beside /\ Shape(c)' /\ Carries(c)' /\ Issues(c)'
<1> DEFINE start(r) == CASE r.kind \in Positive         -> "intent"
                         [] r.kind = "revoke"           -> "withdraw_child"
                         [] r.kind = "withdraw"         -> "withdraw_all"
                         [] r.kind = "policy_withdraw"  -> "withdraw_policy"
           q(r) == [Idle EXCEPT !.kind = r.kind, !.purpose = r.purpose, !.op = r.op,
                                !.captured = now, !.clock = now, !.pc = start(r)]
<1>1. PICK r \in AsksOf[c] : calls' = [calls EXCEPT ![c] = q(r)]
  BY DEF Arrive
<1>2. r \in Request /\ r.kind \in Kinds /\ r.purpose \in Purposes /\ r.op \in Ops
  BY ConstantsAssumption DEF Request
<1>3. calls[c].pc = "idle" /\ UNCHANGED <<db, late, now>>
  BY DEF Arrive
<1>4. /\ start(r) \in {"intent", "withdraw_child", "withdraw_all", "withdraw_policy"}
      /\ r.kind \in KindsAt(start(r))
  <2>1. CASE r.kind \in Positive
    <3>1. start(r) = "intent"
      BY <2>1 DEF Positive
    <3>. QED BY <2>1, <3>1 DEF KindsAt
  <2>2. CASE r.kind = "revoke"
    <3>1. start(r) = "withdraw_child"
      BY <2>2 DEF Positive
    <3>. QED BY <1>2, <3>1 DEF KindsAt
  <2>3. CASE r.kind = "withdraw"
    <3>1. start(r) = "withdraw_all"
      BY <2>3 DEF Positive
    <3>. QED BY <2>3, <3>1 DEF KindsAt
  <2>4. CASE r.kind = "policy_withdraw"
    <3>1. start(r) = "withdraw_policy"
      BY <2>4 DEF Positive
    <3>. QED BY <2>4, <3>1 DEF KindsAt
  <2>. QED BY <1>2, <2>1, <2>2, <2>3, <2>4 DEF Kinds
<1>. HIDE DEF start
<1>5. /\ q(r) \in Call /\ q(r).pc = start(r) /\ q(r).kind = r.kind /\ q(r).purpose = r.purpose /\ q(r).op = r.op
      /\ q(r).counter = 0
  <2>1. now \in Nat /\ start(r) \in Steps
    BY <1>4, TablesFact DEF Steps, Statements
  <2>. QED BY <1>2, <2>1 DEF Call, Idle
<1>. HIDE DEF q
<1>6. OnlyCall(c) /\ calls'[c] = q(r)
  BY <1>1, <1>5, CallFact
<1>7. late[c] = None
  BY <1>3, RequestFact DEF Shape, Over
<1>8. Shape(c)'
  BY <1>2, <1>3, <1>4, <1>5, <1>6, <1>7 DEF Shape
<1>9. Carries(c)' /\ Issues(c)'
  BY <1>3, <1>4, <1>5, <1>6, <1>7 DEF Carries, Issues, Stage
<1>. QED BY <1>3, <1>4, <1>5, <1>6, <1>8, <1>9, NoTurn

-----------------------------------------------------------------------------
\* What a step is, whoever takes it.
Moves ==
  \/ Beside \/ PolicyOff \/ PolicyOpens
  \/ \E c \in Calls :
       /\ calls[c].pc # "idle" /\ calls[c].purpose \in Purposes
       /\ (Stage(c) = "commit" /\ Commits(c)) \/ Registers(c) \/ Beyond(c)
Follows(d) ==
  /\ calls[d].pc # "idle" => Kept(calls'[d], calls[d]) /\ calls'[d].pc # "idle"
  /\ calls'[d].pc = "answered" => calls[d].pc = "answered" \/ (calls[d].pc = "finish" /\ calls[d].kind = "issue")

LEMMA StepFact ==
  ASSUME IInv, [Next]_vars
  PROVE  TypeOK' /\ Requests' /\ Turn /\ Moves /\ \A d \in Calls : Follows(d)
<1>. USE DEF IInv
<1>1. \/ \E c \in Calls : Stepped(c)
      \/ \E c \in Calls : Arrive(c)
      \/ Authorize \/ AuthorizePolicy \/ DisableToken \/ Tick \/ UNCHANGED vars
  BY LocalStep, TurnStep, CatchStep, IssueStep, ReadStep, PlainStep DEF Next
<1>2. Turn => db' \in Tables
  BY DEF Turn
<1>3. CASE \E c \in Calls : Stepped(c)
  <2>1. PICK c \in Calls : Stepped(c)
    BY <1>3
  <2>2. /\ Turn /\ Does(c) /\ OnlyCall(c) /\ Kept(calls'[c], calls[c]) /\ calls[c].pc # "idle" /\ calls'[c].pc # "idle"
        /\ UNCHANGED now /\ late' \in [Calls -> Statements \cup {None}] /\ \A d \in Calls : d # c => late'[d] = late[d]
        /\ Shape(c)' /\ Carries(c)' /\ Issues(c)'
        /\ calls'[c].pc = "answered" => calls[c].pc = "finish" /\ calls[c].kind = "issue"
    BY <2>1 DEF Stepped
  <2>3. TypeOK'
    BY <1>2, <2>2 DEF TypeOK, OnlyCall
  <2>4. \A d \in Calls : d # c => Shape(d)' /\ Carries(d)' /\ Issues(d)'
    BY <2>2, OthersStay DEF OnlyCall
  <2>5. Requests'
    BY <2>2, <2>4 DEF Requests
  <2>6. calls[c].purpose \in Purposes
    BY <2>2, RequestFact DEF Shape
  <2>7. Moves
    BY <2>2, <2>6 DEF Moves, Does
  <2>8. \A d \in Calls : Follows(d)
    BY <2>2 DEF Follows, OnlyCall, Kept
  <2>. QED BY <2>2, <2>3, <2>5, <2>7, <2>8
<1>4. CASE \E c \in Calls : Arrive(c)
  <2>1. PICK c \in Calls : Arrive(c)
    BY <1>4
  <2>2. /\ OnlyCall(c) /\ calls[c].pc = "idle" /\ calls'[c].pc # "answered" /\ UNCHANGED <<db, late, now>>
        /\ Turn /\ Beside /\ Shape(c)' /\ Carries(c)' /\ Issues(c)'
    BY <2>1, ArriveStep
  <2>3. TypeOK'
    BY <1>2, <2>2 DEF TypeOK, OnlyCall
  <2>4. \A d \in Calls : d # c => Shape(d)' /\ Carries(d)' /\ Issues(d)'
    BY <2>2, OthersStay DEF OnlyCall
  <2>5. Requests'
    BY <2>2, <2>4 DEF Requests
  <2>6. \A d \in Calls : Follows(d)
    BY <2>2 DEF Follows, OnlyCall, Kept
  <2>. QED BY <2>2, <2>3, <2>5, <2>6 DEF Moves
<1>5. CASE Authorize \/ AuthorizePolicy \/ DisableToken
  <2>1. Turn /\ (Beside \/ PolicyOpens) /\ UNCHANGED <<calls, late, now>>
    BY <1>5, OperatorTurn DEF Authorize, AuthorizePolicy, DisableToken
  <2>2. TypeOK'
    BY <1>2, <2>1 DEF TypeOK
  <2>3. Requests'
    BY <2>1, OthersStay DEF Requests
  <2>4. \A d \in Calls : Follows(d)
    BY <2>1 DEF Follows, Kept
  <2>. QED BY <2>1, <2>2, <2>3, <2>4 DEF Moves
<1>6. CASE Tick \/ UNCHANGED vars
  <2>1. db' = db /\ UNCHANGED <<calls, late>> /\ now' \in 0 .. MaxTime
    BY <1>6, ConstantsFact DEF Tick, vars, TypeOK
  <2>2. Turn /\ Beside
    BY <2>1, NoTurn
  <2>3. TypeOK'
    BY <1>2, <2>1, <2>2 DEF TypeOK
  <2>4. Requests'
    BY <2>1, <2>2, OthersStay DEF Requests
  <2>5. \A d \in Calls : Follows(d)
    BY <2>1 DEF Follows, Kept
  <2>. QED BY <2>2, <2>3, <2>4, <2>5 DEF Moves
<1>. QED BY <1>1, <1>3, <1>4, <1>5, <1>6

\* What hangs on an issuer, and what is closed, in the next state.
LEMMA RootedStep ==
  ASSUME IInv, [Next]_vars
  PROVE  Rooted'
<1>1. /\ TypeOK /\ TypeOK' /\ Rooted /\ Turn /\ Moves /\ \A d \in Calls : Follows(d)
  BY StepFact DEF IInv
<1>2. ASSUME NEW p \in Purposes
      PROVE  /\ RootedRow(p)'
             /\ p \in db'.fence \/ db'.auth = "withdrawn" => Closed(p)'
             /\ db'.issuer[p] # None /\ db'.issuer[p].outcome = "withdrawn" => Closed(p)'
  <2>1. RowsMove(p) /\ RootedRow(p)'
    BY <1>1 DEF Turn
  <2>2. CASE Untouched(p)
    BY <1>1, <2>1, <2>2 DEF Untouched, Rooted, Closed
  <2>3. CASE Active(p)
    BY <2>1, <2>3 DEF Active
  <2>. QED BY <2>1, <2>2, <2>3 DEF RowsMove
<1>3. ASSUME NEW p \in Purposes, db'.reg[p] # None
      PROVE  calls'[db'.reg[p]].pc # "idle" /\ calls'[db'.reg[p]].purpose = p
  <2>1. \/ db'.reg = db.reg
        \/ \E c \in Calls : calls[c].pc # "idle" /\ Registers(c)
    BY <1>1 DEF Moves, Beside, PolicyOff, PolicyOpens, Commits, Beyond
  <2>2. db'.reg[p] \in Calls
    BY <1>1, <1>3 DEF TypeOK, Tables, Claims
  <2>3. calls[db'.reg[p]].pc # "idle" /\ calls[db'.reg[p]].purpose = p
    <3>1. CASE db'.reg[p] = db.reg[p]
      BY <1>1, <1>3, <3>1 DEF Rooted
    <3>2. ASSUME NEW c \in Calls, calls[c].pc # "idle", Registers(c), db'.reg[p] # db.reg[p]
          PROVE  calls[db'.reg[p]].pc # "idle" /\ calls[db'.reg[p]].purpose = p
      <4>1. p = calls[c].purpose /\ db'.reg[p] = c
        BY <1>1, <3>2 DEF Registers, TypeOK, Tables
      <4>. QED BY <3>2, <4>1
    <3>. QED BY <2>1, <3>1, <3>2
  <2>. QED BY <1>1, <2>2, <2>3 DEF Follows, Kept
<1>. QED BY <1>2, <1>3 DEF Rooted, RootedRow

-----------------------------------------------------------------------------
\* What a step that leaves the native key does to the proofs.
LEMMA SameCounters ==
  ASSUME CounterOnce, KeyProved, Turn, TypeOK, TypeOK', \A p \in Purposes : db'.verif[p] = None <=> db.verif[p] = None,
         db.key # None => db'.key # None /\ db'.key.counter = db.key.counter /\ db'.key.job = db.key.job
  PROVE  /\ \A p, q \in Rows(db'.verif) : db'.verif[p].counter = db'.verif[q].counter => p = q
         /\ \A p \in Rows(db'.verif) : db'.key # None /\ db'.verif[p].counter <= db'.key.counter
         /\ \A p \in Rows(db'.verif) : db'.verif[p].counter = 0 <=> db'.key.job = p
<1>1. \A p \in Rows(db'.verif) : p \in Rows(db.verif) /\ db'.verif[p].counter = db.verif[p].counter
  BY DEF Rows, TypeOK, Tables, Turn, Keeps
<1>. QED BY <1>1 DEF CounterOnce

LEMMA CounterStep ==
  ASSUME IInv, [Next]_vars
  PROVE  CounterOnce' /\ KeyProved'
<1>1. /\ TypeOK /\ TypeOK' /\ Turn /\ Moves /\ Requests /\ CounterOnce /\ KeyProved
  BY StepFact DEF IInv
<1>2. /\ db.key \in Key \cup {None} /\ db'.key \in Key \cup {None}
      /\ \A p \in Purposes : db.verif[p] \in Verification \cup {None}
      /\ DOMAIN db.verif = Purposes /\ DOMAIN db'.verif = Purposes
  BY <1>1 DEF TypeOK, Tables
<1>3. CASE NativeSame
  <2>1. /\ db'.key = db.key /\ (db'.policy = None <=> db.policy = None)
        /\ db.policy # None => db'.policy.outcome = db.policy.outcome
        /\ \A p \in Purposes : db'.verif[p] = None <=> db.verif[p] = None
    BY <1>3 DEF NativeSame
  <2>2. KeyProved'
    BY <1>1, <1>2, <2>1 DEF KeyProved, Key
  <2>3. db'.policy # None /\ db'.policy.outcome = "enrolled" <=> db'.key # None /\ ~db'.key.disabled
    BY <1>1, <2>1 DEF CounterOnce
  <2>. QED BY <1>1, <2>1, <2>2, <2>3, SameCounters DEF CounterOnce
<1>4. CASE PolicyOff
  <2>1. /\ db'.policy # None => db'.policy.outcome = "withdrawn"
        /\ db'.key = None <=> db.key = None
        /\ db.key # None => db'.key.disabled /\ db'.key.counter = db.key.counter /\ db'.key.job = db.key.job
        /\ db'.verif = db.verif
    BY <1>4 DEF PolicyOff
  <2>2. KeyProved'
    BY <1>1, <2>1 DEF KeyProved
  <2>3. db'.policy # None /\ db'.policy.outcome = "enrolled" <=> db'.key # None /\ ~db'.key.disabled
    BY <2>1
  <2>. QED BY <1>1, <2>1, <2>2, <2>3, SameCounters DEF CounterOnce
<1>5. CASE PolicyOpens
  <2>1. db.key = None /\ db'.key = None /\ db'.policy # None /\ db'.policy.outcome # "enrolled" /\ db'.verif = db.verif
    BY <1>5 DEF PolicyOpens
  <2>. QED BY <1>1, <2>1, SameCounters DEF CounterOnce, KeyProved
<1>6. ASSUME NEW c \in Calls, calls[c].purpose \in Purposes, Stage(c) = "commit", Commits(c)
      PROVE  CounterOnce' /\ KeyProved'
  <2> DEFINE p == calls[c].purpose
             counter == calls[c].counter
             row == [counter |-> counter, claim |-> c, consumed |-> None]
  <2>1. /\ db.jobs[p] # None /\ (db.jobs[p].native = "attestation" => counter = 0)
        /\ db.jobs[p].native # "attestation" => counter > calls[c].seen
    BY <1>1, <1>6, RequestFact DEF Carries
  <2>2. db.verif[p] = None /\ db'.verif = [db.verif EXCEPT ![p] = row] /\ row.counter = counter
    BY <1>6 DEF Commits, CommitFits
  <2>3. counter \in Nat /\ calls[c].seen \in Nat
    BY <1>1 DEF TypeOK, Call
  <2>4. row \in Verification /\ row # None
    BY <2>3, NoneAssumption DEF Verification, Claims
  <2>5. \A x \in Purposes : x # p => db'.verif[x] = db.verif[x]
    BY <1>2, <2>2
  <2>6. db'.verif[p] # None /\ db'.verif[p].counter = counter
    BY <1>2, <1>6, <2>2, <2>4
  <2>. HIDE DEF row
  <2>7. \A x \in Rows(db'.verif) : x = p \/ (x \in Rows(db.verif) /\ x # p /\ db'.verif[x] = db.verif[x])
    BY <1>2, <2>5 DEF Rows
  <2>8. \A x \in Rows(db.verif) : db.verif[x].counter \in Nat /\ x \in Purposes
    BY <1>2 DEF Rows, Verification
  <2>9. CASE db.jobs[p].native = "attestation"
    <3> DEFINE key == [counter |-> 0, claim |-> c, job |-> p, disabled |-> FALSE]
    <3>1. db.key = None /\ db'.policy # None /\ db'.policy.outcome = "enrolled" /\ db'.key = key
      BY <1>6, <2>9 DEF Commits
    <3>2. key.counter = 0 /\ key.job = p /\ ~key.disabled /\ key \in Key
      BY <1>6 DEF Key
    <3>. HIDE DEF key
    <3>3. db'.key # None
      BY <3>1, <3>2, NoneAssumption
    <3>4. \A x \in Rows(db'.verif) : x = p
      BY <1>1, <2>7, <3>1 DEF CounterOnce
    <3>5. counter = 0
      BY <2>1, <2>9
    <3>6. KeyProved'
      BY <2>6, <3>1, <3>2 DEF KeyProved
    <3>7. /\ \A x, y \in Rows(db'.verif) : db'.verif[x].counter = db'.verif[y].counter => x = y
          /\ \A x \in Rows(db'.verif) : db'.key # None /\ db'.verif[x].counter <= db'.key.counter
          /\ \A x \in Rows(db'.verif) : db'.verif[x].counter = 0 <=> db'.key.job = x
          /\ db'.policy # None /\ db'.policy.outcome = "enrolled" <=> db'.key # None /\ ~db'.key.disabled
      BY <2>6, <3>1, <3>2, <3>3, <3>4, <3>5
    <3>. QED BY <3>6, <3>7 DEF CounterOnce
  <2>10. CASE db.jobs[p].native # "attestation"
    <3>1. /\ db.key # None /\ ~db.key.disabled /\ db.key.counter = calls[c].seen
          /\ db'.policy = db.policy /\ db'.key = [db.key EXCEPT !.counter = calls[c].counter]
      BY <1>6, <2>10 DEF Commits, CounterFits
    <3> DEFINE key == [db.key EXCEPT !.counter = calls[c].counter]
    <3>2. key.counter = counter /\ key.job = db.key.job /\ ~key.disabled /\ key \in Key
      BY <1>2, <2>3, <3>1 DEF Key
    <3>3. db'.key = key
      BY <3>1
    <3>. HIDE DEF key
    <3>4. db'.key # None
      BY <3>2, <3>3, NoneAssumption
    <3>5. counter > db.key.counter /\ db.key.counter \in Nat /\ db.key.job \in Purposes
      BY <1>2, <2>1, <2>10, <3>1 DEF Key
    <3>6. \A x \in Rows(db.verif) : db.verif[x].counter < counter
      BY <1>1, <2>3, <2>8, <3>5 DEF CounterOnce
    <3>7. db.verif[db.key.job] # None /\ db.key.job # p
      BY <1>1, <2>2, <3>1 DEF KeyProved
    <3>8. KeyProved'
      BY <2>5, <3>2, <3>3, <3>5, <3>7 DEF KeyProved
    <3>9. \A x, y \in Rows(db'.verif) : db'.verif[x].counter = db'.verif[y].counter => x = y
      BY <1>1, <2>3, <2>6, <2>7, <2>8, <3>6 DEF CounterOnce
    <3>10. \A x \in Rows(db'.verif) : db'.verif[x].counter <= db'.key.counter
      BY <2>3, <2>6, <2>7, <2>8, <3>2, <3>3, <3>6
    <3>11. \A x \in Rows(db'.verif) : db'.verif[x].counter = 0 <=> db'.key.job = x
      BY <1>1, <2>3, <2>6, <2>7, <3>2, <3>3, <3>5, <3>7 DEF CounterOnce
    <3>12. db'.policy # None /\ db'.policy.outcome = "enrolled" <=> db'.key # None /\ ~db'.key.disabled
      BY <1>1, <3>1, <3>2, <3>3, <3>4 DEF CounterOnce
    <3>. QED BY <3>4, <3>8, <3>9, <3>10, <3>11, <3>12 DEF CounterOnce
  <2>. QED BY <2>9, <2>10
<1>. QED BY <1>1, <1>3, <1>4, <1>5, <1>6 DEF Moves, Beside, Registers, Beyond

-----------------------------------------------------------------------------
LEMMA InitIInv == Init => IInv
<1>. SUFFICES ASSUME Init PROVE IInv
  OBVIOUS
<1>1. db \in Tables
  BY DEF Init, Tables, Claims, Wake
<1>2. Idle \in Call /\ Idle.pc = "idle" /\ Idle.counter = 0
  BY DEF Idle, Call, Steps
<1>3. TypeOK
  BY <1>1, <1>2, ConstantsFact DEF Init, TypeOK
<1>4. Requests
  BY <1>2 DEF Init, Requests, Shape, Carries, Issues, Stage
<1>5. Rooted
  BY DEF Init, Rooted, Closed
<1>6. CounterOnce /\ KeyProved
  BY DEF Init, CounterOnce, KeyProved, Rows
<1>. QED BY <1>3, <1>4, <1>5, <1>6 DEF IInv

LEMMA NextIInv == IInv /\ [Next]_vars => IInv'
BY StepFact, RootedStep, CounterStep DEF IInv

LEMMA SpecIInv == Spec => []IInv
<1>. QED BY InitIInv, NextIInv, PTL DEF Spec

\* The tables, the requests and the statements under way stay within their
\* columns and locals.
THEOREM TypeCorrect == Spec => []TypeOK
<1>1. IInv => TypeOK
  BY DEF IInv
<1>. QED BY <1>1, SpecIInv, PTL

\* What was withdrawn stays closed, whatever statement lands after it: every
\* write of a purpose, an issuer or a job asks for an issuer that is not
\* withdrawn, and a fenced purpose gets none (receiving-store.ts 57-86).
THEOREM WithdrawalIsFinal == Spec => []WithdrawalFinal
<1>1. IInv => WithdrawalFinal
  BY DEF IInv, Requests, Issues, Rooted, Closed, WithdrawalFinal
<1>. QED BY <1>1, SpecIInv, PTL

\* One counter of the native key proves one purpose, because the commit asks
\* for the counter that was read and the proof was above it
\* (native-attestation.ts 47-81, native-assertion.ts 82-110).
THEOREM CountersAreUsedOnce == Spec => []CounterOnce
<1>1. IInv => CounterOnce
  BY DEF IInv
<1>. QED BY <1>1, SpecIInv, PTL

\* A wake leaves only with a proof its registration consumed and nothing
\* withdrawn above it, however late its marker is written (dispatch-guard.sql).
THEOREM DispatchIsProven == Spec => WakesAreProven
<1>1. ASSUME IInv, [Next]_vars, NEW c \in Calls,
             db'.wakes[c] = "dispatch_started", db.wakes[c] # "dispatch_started"
      PROVE  LET p == calls[c].purpose
             IN /\ db.auth = "authorized" /\ ~db.disabled /\ db.policy.outcome = "enrolled"
                /\ p \notin db.fence /\ db.purpose[p].token /\ db.reg[p] # None
                /\ db.verif[p].consumed = db.reg[p] /\ calls[db.reg[p]].purpose = p
  <2>1. Moves /\ Rooted
    BY <1>1, StepFact DEF IInv
  <2>2. calls[c].purpose \in Purposes /\ Marks(c)
    BY <1>1, <2>1 DEF Moves, Beside, PolicyOff, PolicyOpens, Commits, Registers, Beyond
  <2>3. /\ Eligible(calls[c].purpose) /\ db.verif[calls[c].purpose].consumed # None
        /\ db.reg[calls[c].purpose] = db.verif[calls[c].purpose].consumed /\ db.purpose[calls[c].purpose].token
    BY <2>2 DEF Marks, DispatchGuard
  <2>4. db.auth = "authorized" /\ ~db.disabled /\ db.policy.outcome = "enrolled" /\ Issued(calls[c].purpose)
    BY <2>3 DEF Eligible, LiveNow, Live
  <2>5. calls[c].purpose \notin db.fence
    BY <2>1, <2>2, <2>4, Alive DEF Issued
  <2>. QED BY <2>1, <2>2, <2>3, <2>4, <2>5 DEF Rooted
<1>2. IInv /\ [Next]_vars => [\A c \in Calls : db'.wakes[c] = "dispatch_started" /\ db.wakes[c] # "dispatch_started" =>
       LET p == calls[c].purpose
       IN /\ db.auth = "authorized" /\ ~db.disabled /\ db.policy.outcome = "enrolled"
          /\ p \notin db.fence /\ db.purpose[p].token /\ db.reg[p] # None
          /\ db.verif[p].consumed = db.reg[p] /\ calls[db.reg[p]].purpose = p]_vars
  BY <1>1
<1>. QED BY <1>2, SpecIInv, PTL DEF Spec, WakesAreProven

\* What was settled stays so until it is withdrawn, and a credential is
\* answered only for the claim its issuer and its purpose keep
\* (receiving-store.ts 39-44, 121-151).
THEOREM SettledIsFinal == Spec => SettledStays
<1> DEFINE Settled ==
      /\ \A p \in Purposes :
           /\ (db.issuer[p] # None /\ db.issuer[p].outcome # "reserved") =>
                db'.issuer[p] \in {db.issuer[p], [db.issuer[p] EXCEPT !.outcome = "withdrawn"]}
           /\ (db.jobs[p] # None /\ db.jobs[p].outcome \notin {"reserved", "verifying"}) =>
                db'.jobs[p] \in {db.jobs[p], [db.jobs[p] EXCEPT !.outcome = "withdrawn"]}
      /\ \A r \in Routes : (db.intents[r] # None /\ db.intents[r].outcome # "reserved") =>
           db'.intents[r] \in {db.intents[r], [db.intents[r] EXCEPT !.outcome = "withdrawn"]}
      /\ \A c \in Calls : calls[c].pc # "answered" /\ calls'[c].pc = "answered" =>
           db.issuer[calls[c].purpose].claim = c /\ db.purpose[calls[c].purpose].claim = c
<1>1. ASSUME IInv, [Next]_vars PROVE Settled
  <2>1. Turn /\ Requests /\ \A c \in Calls : Follows(c)
    BY <1>1, StepFact DEF IInv
  <2>2. \A p \in Purposes : SettledRow(p)
    BY <2>1 DEF Turn
  <2>3. \A r \in Routes : SettledIntent(r)
    BY <2>1 DEF Turn
  <2>4. \A c \in Calls : calls[c].pc # "answered" /\ calls'[c].pc = "answered" =>
          db.issuer[calls[c].purpose].claim = c /\ db.purpose[calls[c].purpose].claim = c
    BY <2>1 DEF Follows, Requests, Issues
  <2>. QED BY <2>2, <2>3, <2>4 DEF SettledRow, SettledIntent
<1>2. IInv /\ [Next]_vars => [Settled]_vars
  BY <1>1
<1>3. Spec => [][Settled]_vars
  BY <1>2, SpecIInv, PTL DEF Spec
<1>. QED BY <1>3 DEF SettledStays
=============================================================================
