-------------------------- MODULE PushCoordinator --------------------------
(***************************************************************************)
(* The push coordinator (src/coordinator/src/djc_push_coordinator): jobs   *)
(* of a parent enrollment go through five stages over one SQLite file and  *)
(* end in one observation.  The coordinator is single-threaded; a stage    *)
(* awaits between its reservation and its completion, and every method is  *)
(* one action up to that await.  A transaction is acknowledged, or its     *)
(* acknowledgement is lost: then it happened or not, and the store is      *)
(* closed.  The process may end at any time and take its memory with it.   *)
(*                                                                         *)
(* A call that is refused leaves nothing but what the guard wrote: its      *)
(* stage, revision, claim, operation and nonce are then of no account, and *)
(* a call that is not refused brings the right ones.                       *)
(***************************************************************************)
EXTENDS Integers, Sequences, FiniteSets, SequencesExt

CONSTANTS
  Parents, Jobs, Keys, Children,
  Admissions,      \* what callers hold: see Admission
  ParentExpiry,    \* [Parents -> Nat]
  ChildExpiries,   \* original expiries a child may have
  MaxDuration, MaxValidity, ChildValidity, MaxJobs, MaxClaims, MaxChildren,
  Values,          \* the counters that keys sign
  MaxTime, MaxBoots,  \* bounds: the clocks, the boots and restarts
  None

VARIABLES
  db,      \* the rows of the SQLite file
  open,    \* the store has its connection and no commit is in doubt
  mem,     \* the coordinator's own memory
  steps,   \* stages that were reserved and await prepare()
  clock,   \* continuous clock, upper bound of UTC, and the boot they belong to
  answers, \* history: what was answered positively, with its job and parent
  given,   \* history: how often the payload of a job was returned
  proofs   \* history: counters of a key that were accepted

vars == <<db, open, mem, steps, clock, answers, given, proofs>>

Stages == <<"prepare_key", "verify_key", "prepare_target", "verify_target", "submit">>
Phases == <<"RESERVED", "KEY_PREPARED", "KEY_VERIFIED", "TARGET_PREPARED",
            "TARGET_VERIFIED", "SUBMIT_SPENT">>
StageSet == ToSet(Stages)
Place(stage) == CHOOSE i \in DOMAIN Stages : Stages[i] = stage
Verifies(stage) == stage \in {"verify_key", "verify_target"}

\* The job binding and the original witnesses an admission carries.
Admission == [name : STRING, job : Jobs, parent : Parents, epoch : Nat, scope : STRING,
              issued : Nat, deadline : Nat, cutoff : Nat, boot : Nat]
Binding(a) == [parent |-> a.parent, epoch |-> a.epoch, scope |-> a.scope,
               deadline |-> a.deadline]

Job == [parent : Parents, epoch : Nat, scope : STRING, deadline : Nat,
        phase : ToSet(Phases) \cup {"RETIRED"}, revision : Nat \ {0}, key : Keys \cup {None}]
Claim == [revision : Nat \ {0}, outcome : {"RESERVED", "COMMITTED", "SUBMIT_SPENT", "RETIRED"}]
Counter == [scope : STRING, counter : Nat, revision : Nat \ {0}]
\* counter=(key, value, expected); an expected revision of 0 stands for None, and
\* counters that only grow have no more revisions than values.
Proof == [key : Keys, value : Values, expected : 0 .. Cardinality(Values)]
Step == [adm : Admissions, stage : StageSet, proof : Proof \cup {None}]
Child == [parent : Parents, expires : Nat, retired : BOOLEAN]

\* No row is the absent one, and no child has a stage's name.
PushAssumption ==
  /\ Admissions \subseteq Admission /\ Values \subseteq Nat /\ ChildExpiries \subseteq Nat
  /\ Children \cap StageSet = {} /\ None \notin {"live", "retired"} \cup Keys
  /\ None \notin Job /\ None \notin Claim /\ None \notin Counter /\ None \notin Child /\ None \notin Proof
  /\ None \notin Admissions

\* One pairing and principal epoch and one generation of every parent.
Epoch == 1

(***************************************************************************)
(* The store.  A transaction is a new value of db; it is refused by the    *)
(* conditions it checks.                                                   *)
(***************************************************************************)
LiveParentAny(d, p, deadline) ==
  d.parents[p] # None /\ deadline <= ParentExpiry[p]

LiveParent(d, p, deadline) ==
  d.parents[p] = "live" /\ deadline <= ParentExpiry[p]

ParentFits(d, b) == LiveParent(d, b.parent, b.deadline) /\ b.epoch = Epoch

JobFits(d, a) ==
  LET row == d.jobs[a.job]
  IN /\ row # None /\ row.parent = a.parent /\ row.epoch = a.epoch
     /\ row.scope = a.scope /\ row.deadline = a.deadline

Rows(table) == Cardinality({x \in DOMAIN table : table[x] # None})
ClaimRows(d) == Cardinality({c \in Jobs \X StageSet : d.claims[c[1]][c[2]] # None})

MayCreate(d, a) ==
  Rows(d.jobs) < MaxJobs /\ ParentFits(d, Binding(a)) /\ d.jobs[a.job] = None

Created(d, a) ==
  [d EXCEPT !.jobs[a.job] = [parent |-> a.parent, epoch |-> a.epoch, scope |-> a.scope, deadline |-> a.deadline,
                             phase |-> Phases[1], revision |-> 1, key |-> None]]

MayReserve(d, a, stage) ==
  /\ JobFits(d, a) /\ d.claims[a.job][stage] = None
  /\ d.jobs[a.job].phase = Phases[Place(stage)]
  /\ ParentFits(d, Binding(a)) /\ ClaimRows(d) < MaxClaims

Reserved(d, a, stage) ==
  [d EXCEPT !.claims[a.job][stage] = [revision |-> d.jobs[a.job].revision, outcome |-> "RESERVED"]]

CounterFitsAgain(d, s) ==
  LET k == d.counters[s.proof.key]
  IN IF k = None THEN s.stage = "verify_key" /\ s.proof.value = 0
     ELSE k.revision = s.proof.expected /\ s.proof.value >= k.counter

\* The counter of a key starts at zero with its first verification and then
\* only grows, for all jobs alike.
CounterFits(d, s) ==
  LET j == d.jobs[s.adm.job]
      k == d.counters[s.proof.key]
  IN /\ s.stage = "verify_target" => s.proof.key = j.key
     /\ IF k = None
          THEN s.stage = "verify_key" /\ s.proof.value = 0 /\ s.proof.expected = 0
          ELSE /\ k.scope = s.adm.scope /\ k.revision = s.proof.expected
               /\ s.proof.value > k.counter

MayComplete(d, s) ==
  LET j == d.jobs[s.adm.job]
      c == d.claims[s.adm.job][s.stage]
  IN /\ ParentFits(d, Binding(s.adm)) /\ JobFits(d, s.adm)
     /\ c # None /\ c.outcome = "RESERVED"
     /\ Verifies(s.stage) <=> s.proof # None
     /\ s.proof # None => CounterFits(d, s)
     /\ j.revision = c.revision /\ j.phase # "RETIRED"

\* The statements run in this order: the counter, the job, the claim; the
\* condition of the last one may fail and undo all of them.
Counted(d, s) ==
  LET k == d.counters[s.proof.key]
  IN IF s.proof = None THEN d.counters
     ELSE [d.counters EXCEPT ![s.proof.key] =
             [scope |-> s.adm.scope, counter |-> s.proof.value, revision |-> IF k = None THEN 1 ELSE k.revision + 1]]

Completed(d, s) ==
  LET row == d.jobs[s.adm.job]
      key == IF s.stage = "verify_key" THEN s.proof.key ELSE row.key
  IN [d EXCEPT
       !.counters = Counted(d, s),
       !.jobs[s.adm.job] = [row EXCEPT !.phase = Phases[Place(s.stage) + 1], !.revision = row.revision + 1, !.key = key],
       !.claims[s.adm.job][s.stage].outcome = IF s.stage = "submit" THEN "SUBMIT_SPENT" ELSE "COMMITTED"]

RetiredIn(d, p) ==
  LET Of(j) == d.jobs[j] # None /\ d.jobs[j].parent = p
  IN IF d.parents[p] = None THEN d
     ELSE [d EXCEPT
       !.parents[p] = "retired",
       !.children = [c \in Children |->
         IF @[c] # None /\ @[c].parent = p THEN [@[c] EXCEPT !.retired = TRUE] ELSE @[c]],
       !.jobs = [j \in Jobs |-> IF Of(j) THEN [@[j] EXCEPT !.phase = "RETIRED"] ELSE @[j]],
       !.claims = [j \in Jobs |-> [s \in StageSet |->
         IF Of(j) /\ @[j][s] # None /\ @[j][s].outcome = "RESERVED"
           THEN [@[j][s] EXCEPT !.outcome = "RETIRED"] ELSE @[j][s]]]]

MayBind(d, c, p, expiry) ==
  Rows(d.children) < MaxChildren /\ LiveParent(d, p, expiry) /\ d.children[c] = None

MaySubmit(d, a) == ParentFits(d, Binding(a)) /\ JobFits(d, a) /\ d.jobs[a.job].phase = "SUBMIT_SPENT"

\* How a transaction that would give e ends, if the store is open and its
\* conditions hold.
Commits(e) == db' = e /\ open' = TRUE
Unknown(e) == db' \in {db, e} /\ open' = FALSE

(***************************************************************************)
(* The coordinator: the guard around every step, at a reading t of the     *)
(* clocks.                                                                 *)
(***************************************************************************)
Fresh(m, t) == t.cont >= m.cont /\ t.utc >= m.utc
LateUnfenced(m, a, t) ==
  t.boot # a.boot \/ t.cont >= a.cutoff \/ t.utc >= a.deadline

Late(m, a, t) ==
  a.parent \in m.retired \/ t.boot # a.boot \/ t.cont >= a.cutoff \/ t.utc >= a.deadline
Passes(m, a, t) == Fresh(m, t) /\ ~Late(m, a, t)

Fence(m, p) == [m EXCEPT !.retired = @ \cup {p}]

Guarded(m, a, t) ==
  LET seen == IF Fresh(m, t) THEN [m EXCEPT !.cont = t.cont, !.utc = t.utc] ELSE m
  IN IF Passes(m, a, t) THEN seen ELSE Fence(seen, a.parent)

\* The original policy bounds of an admission.
Admissible(a) ==
  /\ a.deadline - a.issued \in 1 .. MaxDuration
  /\ a.deadline <= ParentExpiry[a.parent] /\ ParentExpiry[a.parent] <= MaxValidity

NoMemory == [retired |-> {}, cont |-> -1, utc |-> -1, observed |-> {},
             handles |-> [j \in Jobs |-> None]]

\* A UTC source may step back; the continuous clock does not.
Ticks(t) ==
  {[t EXCEPT !.cont = c] : c \in {t.cont + 1} \cap (0 .. MaxTime)} \cup
  {[t EXCEPT !.utc = u] : u \in {t.utc - 1, t.utc + 1} \cap (0 .. MaxTime)}
Readings == {clock} \cup Ticks(clock)

\* retire_parent over the rows d, whatever becomes of its transaction.
Retires(d, p) ==
  \/ db' = RetiredIn(d, p) /\ open' = TRUE
  \/ db' \in {d, RetiredIn(d, p)} /\ open' = FALSE

Told(a, what) == [parent |-> a.parent, job |-> a.job, what |-> what]

\* A call of an admission that the guard, the store or a budget refuses.
Refuse(a) ==
  /\ Admissible(a) /\ mem' = Guarded(mem, a, clock)
  /\ UNCHANGED <<db, open, steps, clock, answers, given, proofs>>

PutParent(p) ==
  /\ open /\ db.parents[p] = None
  /\ LET e == [db EXCEPT !.parents[p] = "live"] IN Commits(e) \/ Unknown(e)
  /\ UNCHANGED <<mem, steps, clock, answers, given, proofs>>

Begin(a) ==
  LET m == Guarded(mem, a, clock)
      e == Created(db, a)
  IN /\ Admissible(a) /\ Passes(mem, a, clock) /\ open /\ MayCreate(db, a)
     /\ \/ Commits(e) /\ clock' \in Readings /\ mem' = Guarded(m, a, clock')
        \/ Unknown(e) /\ mem' = m /\ UNCHANGED clock
     /\ UNCHANGED <<steps, answers, given, proofs>>

\* step() up to its await: the reservation, and the guard that follows it.
Reserve(a, stage, proof) ==
  LET m == Guarded(mem, a, clock)
      e == Reserved(db, a, stage)
  IN /\ open /\ MayReserve(db, a, stage) /\ Admissible(a) /\ Passes(mem, a, clock)
     /\ \/ Unknown(e) /\ mem' = m /\ UNCHANGED <<steps, clock>>
        \/ /\ clock' \in Readings /\ mem' = Guarded(m, a, clock')
           /\ IF Passes(m, a, clock')
                THEN Commits(e) /\ steps' = steps \cup {[adm |-> a, stage |-> stage, proof |-> proof]}
                ELSE Retires(e, a.parent) /\ UNCHANGED steps
     /\ UNCHANGED <<answers, given, proofs>>

\* step() from its await on, when prepare() returned.
Complete(s) ==
  LET a == s.adm
      m == Guarded(mem, a, clock)
      e == Completed(db, s)
      tried == Passes(mem, a, clock) /\ open /\ MayComplete(db, s)
  IN /\ s \in steps /\ steps' = steps \ {s}
     /\ \/ /\ ~tried /\ mem' = Fence(m, a.parent)
           /\ IF open THEN Retires(db, a.parent) ELSE UNCHANGED <<db, open>>
           /\ UNCHANGED <<clock, answers, proofs>>
        \/ tried /\ Unknown(e) /\ mem' = Fence(m, a.parent) /\ UNCHANGED <<clock, answers>>
        \/ /\ tried /\ clock' \in Readings
           /\ LET n == Guarded(m, a, clock')
              IN IF Passes(m, a, clock')
                   THEN /\ Commits(e) /\ answers' = answers \cup {Told(a, s.stage)}
                        /\ mem' = IF s.stage = "submit" THEN [n EXCEPT !.handles[a.job] = a] ELSE n
                   ELSE Retires(e, a.parent) /\ mem' = n /\ UNCHANGED answers
     /\ proofs' = IF tried /\ s.proof # None /\ db'.counters # db.counters
                    THEN [proofs EXCEPT ![s.proof.key] = @ \cup {s.proof.value}] ELSE proofs
     /\ UNCHANGED given

\* prepare() failed, or the task was cancelled there.
Break(s) ==
  /\ s \in steps /\ steps' = steps \ {s}
  /\ mem' = Fence(mem, s.adm.parent)
  /\ IF open THEN Retires(db, s.adm.parent) ELSE UNCHANGED <<db, open>>
  /\ UNCHANGED <<clock, answers, given, proofs>>

BindChild(a, c, expiry) ==
  LET m == Guarded(mem, a, clock)
      e == [db EXCEPT !.children[c] = [parent |-> a.parent, expires |-> expiry, retired |-> FALSE]]
  IN /\ Admissible(a) /\ expiry \in 1 .. ChildValidity /\ expiry <= ParentExpiry[a.parent]
     /\ Passes(mem, a, clock) /\ clock.utc < expiry /\ open /\ MayBind(db, c, a.parent, expiry)
     /\ \/ /\ Commits(e) /\ clock' \in Readings /\ mem' = Guarded(m, a, clock')
           /\ answers' = IF Passes(m, a, clock') /\ clock'.utc < expiry
                           THEN answers \cup {Told(a, c)} ELSE answers
        \/ Unknown(e) /\ mem' = m /\ UNCHANGED <<clock, answers>>
     /\ UNCHANGED <<steps, given, proofs>>

Retire(p) ==
  /\ mem' = Fence(mem, p)
  /\ IF open THEN Retires(db, p) ELSE UNCHANGED <<db, open>>
  /\ UNCHANGED <<steps, clock, answers, given, proofs>>

\* The handle is taken whatever follows.  build() may throw, take its time, or
\* retire the parent; the rows are read again when it returns.
Observe(a) ==
  LET taken == [mem EXCEPT !.handles[a.job] = None]
      m == Guarded(taken, a, clock)
      n == [m EXCEPT !.observed = @ \cup {a.job}]
      own == mem.handles[a.job] = a
      ready == own /\ Passes(taken, a, clock) /\ open /\ MaySubmit(db, a) /\ a.job \notin m.observed
  IN /\ mem.handles[a.job] # None
     /\ \/ ~ready /\ mem' = (IF own THEN m ELSE taken) /\ UNCHANGED <<db, open, clock, given>>
        \/ ready /\ mem' = m /\ Unknown(db) /\ UNCHANGED <<clock, given>>
        \/ /\ ready /\ clock' \in Readings
           /\ UNCHANGED <<db, open>> \/ Retires(db, a.parent) \/ Unknown(db)
           /\ \/ mem' = n /\ UNCHANGED given
              \/ /\ open' /\ MaySubmit(db', a) /\ mem' = Guarded(n, a, clock')
                 /\ given' = IF Passes(n, a, clock') THEN [given EXCEPT ![a.job] = @ + 1] ELSE given
     /\ UNCHANGED <<steps, answers, proofs>>

\* close(), or a ROLLBACK that fails.
Close == open' = FALSE /\ UNCHANGED <<db, mem, steps, clock, answers, given, proofs>>

Tick ==
  /\ clock' \in Ticks(clock)
  /\ UNCHANGED <<db, open, mem, steps, answers, given, proofs>>

\* A new process over the same file, after a reboot of the host or not.
Restart ==
  /\ open' = TRUE /\ mem' = NoMemory /\ steps' = {}
  /\ \/ UNCHANGED clock
     \/ /\ clock.boot < MaxBoots
        /\ clock' = [clock EXCEPT !.cont = 0, !.boot = @ + 1]
  /\ UNCHANGED <<db, answers, given, proofs>>

Init ==
  /\ db = [parents |-> [p \in Parents |-> None], children |-> [c \in Children |-> None],
           jobs |-> [j \in Jobs |-> None],
           claims |-> [j \in Jobs |-> [s \in StageSet |-> None]],
           counters |-> [k \in Keys |-> None]]
  /\ open = TRUE /\ mem = NoMemory /\ steps = {} /\ answers = {}
  /\ clock = [cont |-> 0, utc |-> 0, boot |-> 0]
  /\ given = [j \in Jobs |-> 0] /\ proofs = [k \in Keys |-> {}]

Next ==
  \/ \E p \in Parents : PutParent(p) \/ Retire(p)
  \/ \E a \in Admissions :
       \/ Refuse(a) \/ Begin(a) \/ Observe(a)
       \/ \E stage \in StageSet : \E proof \in IF Verifies(stage) THEN Proof ELSE {None} :
            Reserve(a, stage, proof)
       \/ \E c \in Children, x \in ChildExpiries : BindChild(a, c, x)
  \/ \E s \in steps : Complete(s) \/ Break(s)
  \/ Close \/ Tick \/ Restart

Spec == Init /\ [][Next]_vars

(***************************************************************************)
(* Properties.                                                             *)
(***************************************************************************)
TypeOK ==
  /\ \A p \in Parents : db.parents[p] \in {None, "live", "retired"}
  /\ \A j \in Jobs : db.jobs[j] \in Job \cup {None}
  /\ \A j \in Jobs, s \in StageSet : db.claims[j][s] \in Claim \cup {None}
  /\ \A k \in Keys : db.counters[k] \in Counter \cup {None}
  /\ open \in BOOLEAN /\ steps \subseteq Step

\* A key's counter is accepted once for all jobs that ever verify with it: its
\* revision, the verifications that were committed and the distinct counters
\* accepted are the same number, and the last one is the largest.
CounterOnce ==
  \A k \in Keys :
    LET verified == {c \in Jobs \X {"verify_key", "verify_target"} :
                       /\ db.jobs[c[1]] # None /\ db.jobs[c[1]].key = k
                       /\ db.claims[c[1]][c[2]] # None
                       /\ db.claims[c[1]][c[2]].outcome = "COMMITTED"}
    IN /\ Cardinality(verified) = Cardinality(proofs[k])
       /\ IF db.counters[k] = None THEN verified = {}
          ELSE /\ db.counters[k].revision = Cardinality(verified)
               /\ \A v \in proofs[k] : v <= db.counters[k].counter

\* Retirement reaches everything that hangs on a parent, also what is created
\* while it happens: no job of it goes on, no claim waits, no child lives.
RetiredTogether ==
  \A p \in Parents : db.parents[p] = "retired" =>
    /\ \A j \in Jobs : db.jobs[j] # None /\ db.jobs[j].parent = p =>
         /\ db.jobs[j].phase = "RETIRED"
         /\ \A s \in StageSet : db.claims[j][s] = None \/ db.claims[j][s].outcome # "RESERVED"
    /\ \A c \in Children : db.children[c] # None /\ db.children[c].parent = p =>
         db.children[c].retired

\* What was answered is in the file for good, whatever was lost since: a stage
\* as done, a child as bound.  The payload of a job is returned once at most,
\* over all restarts, and only after its five stages.
Spent == {"COMMITTED", "SUBMIT_SPENT"}
AnswerDurable ==
  /\ \A x \in answers :
       IF x.what \in Children THEN db.children[x.what] # None
       ELSE db.claims[x.job][x.what] # None /\ db.claims[x.job][x.what].outcome \in Spent
  /\ \A j \in Jobs : given[j] <= 1 /\ (given[j] = 1 =>
       /\ \E x \in answers : x.job = j /\ x.what = "submit"
       /\ \A s \in StageSet : db.claims[j][s].outcome \in Spent)

\* Nothing positive leaves a parent that is retired, in the file or by the
\* process's own fence, nor a payload a job whose deadline has passed.
KeepsCurrent ==
  /\ \A x \in answers' \ answers : x.parent \notin mem'.retired
  /\ \A j \in Jobs : given'[j] # given[j] =>
       /\ db'.parents[db.jobs[j].parent] = "live"
       /\ db.jobs[j].parent \notin mem'.retired
       /\ clock'.utc < db.jobs[j].deadline
PositiveIsCurrent == [][KeepsCurrent]_vars

\* What was retired or answered is so on the disk, as one.
DurableTogether == RetiredTogether /\ AnswerDurable
=============================================================================
