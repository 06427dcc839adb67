-------------------------- MODULE EnrollmentEvidence --------------------------
(***************************************************************************)
(* The verifier of an enrollment's evidence (src/qualification/rendezvous, *)
(* enrollment-evidence-candidate.mjs): the attestation, its receipt and    *)
(* the status of the receipt's certificates, one await after the other,    *)
(* with the challenge and the policy read anew after each.                 *)
(*                                                                         *)
(* An attestation is known by what it is bound to and when its parts end.  *)
(* All checks go to the one status client of the verifier.  The owner of   *)
(* the challenge and the policy is a parameter of the verifier: it gives   *)
(* what is saved, and may refuse to.                                       *)
(***************************************************************************)
EXTENDS ReceiptStatus

CONSTANTS
  Verifies, Attestations, Challenges,
  FreshFor,    \* 5 minutes
  MaxChanges   \* bound of the changes of what is saved

\* The checks of a verification: Checks is Verifies \X Kinds.
Kinds == {"crl", "ocsp"}

\* signed: every signature, path and field but those named here.
Receipt == [signed : BOOLEAN, key : Int, data : Int, created : Int, expires : Int, ends : Int,
            crl : Tuples, ocsp : Tuples]
Attestation == [signed : BOOLEAN, key : Int, data : Int, ends : Int, receipt : Receipt]
Challenge == [id : Int, key : Int, data : Int, from : Int, until : Int]

EvidenceAssumption ==
  /\ StatusAssumption /\ FreshFor \in Nat
  /\ Attestations \subseteq Attestation /\ Challenges \subseteq Challenge
  /\ None \notin Verifies \cup Attestations \cup Challenges

VARIABLES
  saved,          \* the challenge and the policy of the key's object
  changes,
  verifying,      \* busy
  verifications,
  given           \* history: the evidence

evidence == <<saved, changes, verifying, verifications, given>>

Now(v) == verifications[v]

(***************************************************************************)
(* What is verified.                                                       *)
(***************************************************************************)
\* qualifyApplePath: a chain of three certificates to the fixed root, none ended.
IsPath(a, at) == a.signed /\ at < a.ends

\* qualifyAttestationCore: the path, the key and the nonce of the challenge.
IsCore(a, ch, at) == IsPath(a, at) /\ a.key = ch.key /\ a.data = ch.data

\* receiptTime
IsTimely(r, at) == r.created <= at /\ at - r.created <= FreshFor /\ at < r.expires
IsReceiptTime(r) == IsTimely(r, clock)

\* The CMS signature and the three certificates it carries.
IsSigned(r, at) == r.signed /\ at < r.ends

\* qualifyFreshReceiptEvidence: of the attested key, for the same challenge.
IsReceipt(r, a, ch, at) ==
  /\ IsSigned(r, at) /\ r.key = a.key /\ r.data = ch.data
  /\ r.created < r.expires /\ IsTimely(r, at)

\* statusTime
IsStatusTime(s, kind) ==
  /\ s.this <= s.checkedAt /\ s.checkedAt <= clock /\ clock < s.until
  /\ s.until <= s.next /\ s.until <= s.checkedAt + CacheLife
  /\ kind = "ocsp" => clock - s.this <= Day /\ s.until <= s.this + Day

(***************************************************************************)
(* snapshot and current: the owner refuses to be read without a challenge  *)
(* or a policy, and its refusal is passed on.                              *)
(***************************************************************************)
IsReadable == saved.challenge # None /\ saved.policy.enabled /\ clock < saved.policy.until

InWindow(ch) == ch.from <= clock /\ clock < ch.until

IsCurrent(v) == saved = Now(v).initial /\ InWindow(saved.challenge) /\ clock < Now(v).deadline

End(v, answer) ==
  /\ verifications' = [verifications EXCEPT ![v].pc = "end", ![v].answer = answer, ![v].since = 0]
  /\ verifying' = None

Stop(v, answer) == End(v, answer) /\ UNCHANGED <<given, status>>

\* The way on from an await: the owner refuses, a check fails, or it holds.
IsOn(v, holds) == IsReadable /\ IsCurrent(v) /\ holds
Halt(v, holds) == ~IsOn(v, holds) /\ Stop(v, IF IsReadable THEN "rejected" ELSE "thrown")

Verify(v) ==
  /\ Now(v).pc = "idle"
  /\ \E a \in Attestations, ch \in Challenges :
       LET isSaved == saved.challenge = ch /\ InWindow(ch)
       IN \/ /\ verifying # None
             /\ verifications' = [verifications EXCEPT ![v].pc = "end", ![v].answer = "rejected"]
             /\ UNCHANGED verifying
          \/ /\ verifying = None /\ ~(IsReadable /\ isSaved)
             /\ End(v, IF IsReadable THEN "rejected" ELSE "thrown")
          \/ /\ verifying = None /\ IsReadable /\ isSaved
             /\ verifications' = [verifications EXCEPT ![v] =
                  [@ EXCEPT !.pc = "core", !.attestation = a, !.initial = saved, !.since = clock]]
             /\ verifying' = v
  /\ UNCHANGED <<clock, saved, changes, given, status>>

Core(v) ==
  LET a == Now(v).attestation
      holds == IsCore(a, Now(v).initial.challenge, Now(v).since) /\ clock < a.ends
  IN /\ Now(v).pc = "core"
     /\ \/ Halt(v, holds)
        \/ /\ IsOn(v, holds)
           /\ verifications' = [verifications EXCEPT ![v].pc = "digest", ![v].deadline = a.ends, ![v].since = 0]
           /\ UNCHANGED <<verifying, given, status>>
     /\ UNCHANGED <<clock, saved, changes>>

\* The digest of the point is the key; the digest itself may fail.
Digest(v) ==
  /\ Now(v).pc = "digest"
  /\ \/ Halt(v, TRUE) \/ Stop(v, "thrown")
     \/ /\ IsOn(v, TRUE) /\ verifications' = [verifications EXCEPT ![v].pc = "cms", ![v].since = clock]
        /\ UNCHANGED <<verifying, given, status>>
  /\ UNCHANGED <<clock, saved, changes>>

\* The receipt holds: the status of its issuer is asked for.
Cms(v) ==
  LET a == Now(v).attestation
      r == a.receipt
      holds == IsReceipt(r, a, Now(v).initial.challenge, Now(v).since) /\ IsReceiptTime(r) /\ clock < r.ends
  IN /\ Now(v).pc = "cms"
     /\ \/ Halt(v, holds) /\ UNCHANGED clock
        \/ /\ IsOn(v, holds) /\ Check(<<v, "crl">>, r.crl)
           /\ verifications' = [verifications EXCEPT ![v].pc = "crl", ![v].since = 0, ![v].deadline = Min({@, r.ends})]
           /\ UNCHANGED <<verifying, given>>
     /\ UNCHANGED <<saved, changes>>

StatusOf(v, kind) == checks[<<v, kind>>].answer
IsChecked(v, kind) == checks[<<v, kind>>].pc = "end"
IsHeld(v, kind) == StatusOf(v, kind) # None /\ IsStatusTime(StatusOf(v, kind), kind)

\* After the window of the challenge and of the receipt, the missing status.
NoStatus(v, kind, holds) == IsOn(v, holds) /\ StatusOf(v, kind) = None /\ Stop(v, "unavailable")

Crl(v) ==
  LET r == Now(v).attestation.receipt
      timely == IsReceiptTime(r)
      holds == timely /\ (StatusOf(v, "crl") # None => IsHeld(v, "crl"))
  IN /\ Now(v).pc = "crl" /\ IsChecked(v, "crl")
     /\ \/ Halt(v, holds) /\ UNCHANGED clock
        \/ NoStatus(v, "crl", timely) /\ UNCHANGED clock
        \/ /\ IsOn(v, timely) /\ IsHeld(v, "crl") /\ Check(<<v, "ocsp">>, r.ocsp)
           /\ verifications' = [verifications EXCEPT ![v].pc = "ocsp"]
           /\ UNCHANGED <<verifying, given>>
     /\ UNCHANGED <<saved, changes>>

\* The issuer's status has aged while the signer's was asked for.
MayEnd(v) == IsReceiptTime(Now(v).attestation.receipt) /\ IsHeld(v, "crl")

Ends(v) ==
  LET n == Now(v)
      r == n.attestation.receipt
  IN {n.initial.challenge.until, n.initial.policy.until, r.created + FreshFor + 1, r.expires,
      n.attestation.ends, r.ends, StatusOf(v, "crl").until, StatusOf(v, "ocsp").until}

Ocsp(v) ==
  LET timely == MayEnd(v)
      holds == timely /\ (StatusOf(v, "ocsp") # None => IsHeld(v, "ocsp"))
  IN /\ Now(v).pc = "ocsp" /\ IsChecked(v, "ocsp")
     /\ \/ Halt(v, holds)
        \/ NoStatus(v, "ocsp", timely)
        \/ /\ IsOn(v, timely) /\ IsHeld(v, "ocsp") /\ End(v, "evidence")
           /\ given' = given \cup {[by |-> v, at |-> clock, until |-> Min(Ends(v)), saved |-> saved]}
           /\ UNCHANGED status
     /\ UNCHANGED <<clock, saved, changes>>

\* The object loses or replaces the challenge, or its policy changes.
Change ==
  /\ changes < MaxChanges /\ changes' = changes + 1
  /\ \E ch \in Challenges \cup {None} :
       saved' \in {[saved EXCEPT !.challenge = ch], [saved EXCEPT !.policy.revision = @ + 1],
                   [saved EXCEPT !.policy.enabled = FALSE]}
  /\ UNCHANGED <<clock, verifying, verifications, given, status>>

\* A call of the client goes on by itself.
CheckGoesOn == (\E c \in Checks : Advance(c)) /\ UNCHANGED evidence

EvidenceInit ==
  /\ StatusInit /\ changes = 0 /\ verifying = None /\ given = {}
  /\ saved \in [challenge : Challenges, policy : {[revision |-> 0, enabled |-> TRUE, until |-> MaxTime]}]
  /\ verifications = [v \in Verifies |-> [pc |-> "idle", attestation |-> None, initial |-> None,
                                          since |-> 0, deadline |-> MaxTime + 1, answer |-> None]]

EvidenceNext ==
  \/ \E v \in Verifies : Verify(v) \/ Core(v) \/ Digest(v) \/ Cms(v) \/ Crl(v) \/ Ocsp(v)
  \/ CheckGoesOn \/ Change \/ (Tick /\ UNCHANGED evidence)

EvidenceSpec == EvidenceInit /\ [][EvidenceNext]_<<clock, status, evidence>>

(***************************************************************************)
(* Properties                                                              *)
(***************************************************************************)
\* Evidence is of an attestation and a receipt of the challenge that is saved
\* when it is given; nothing it rests on has ended by then, however long each
\* part was waited for, and all of it holds as long as the evidence says
\* (enrollment-evidence-candidate.mjs 60-78).
EvidenceHolds == \A e \in given :
  LET a == verifications[e.by].attestation
      r == a.receipt
      ch == e.saved.challenge
  IN /\ a.signed /\ r.signed /\ a.key = ch.key /\ r.key = ch.key /\ a.data = ch.data /\ r.data = ch.data
     /\ e.at < e.until /\ e.until <= ch.until /\ e.until <= a.ends /\ e.until <= r.expires
     /\ e.until <= r.created + FreshFor + 1
     /\ \A kind \in Kinds : LET s == StatusOf(e.by, kind) IN
          s.tuple = r[kind] /\ s.this <= e.at /\ e.until <= s.until

\* One verification is under way at a time, whatever ends it.
OneAtATime == \A v \in Verifies :
  verifications[v].pc \notin {"idle", "end"} => verifying = v

EvidenceTruthful == EvidenceHolds /\ OneAtATime /\ StatusTruthful
=============================================================================
