---------------------------- MODULE ReceiptStatus ----------------------------
(***************************************************************************)
(* The revocation status of the certificates of a receipt                  *)
(* (src/qualification/rendezvous, CommonStatusClient over                  *)
(* CommonStatusCache): a check looks in the slot of its role, joins the    *)
(* request that is under way, or asks Apple, verifies the answer and keeps *)
(* it.                                                                     *)
(*                                                                         *)
(* A step is what a check does between two awaits.  Signatures, chains and *)
(* extensions are a property of the answer; the clock may step back.       *)
(***************************************************************************)
EXTENDS Integers, FiniteSets, FiniteSetsExt

CONSTANTS
  Checks,              \* the calls
  Tuples,              \* kind, certificate, issuer and root
  RoleOf,              \* [Tuples -> Roles]
  CertEnds,            \* [Tuples -> Int]: of the chain; 0 if it is not one
  Responses,           \* what the responders may send
  Day, CacheLife, Spacing, Timeout,
  MaxTime,             \* bound of the clock
  None

Roles == {"issuer-crl", "issuer-ocsp", "signer-ocsp"}
Response == [tuple : Tuples, good : BOOLEAN, this : Int, next : Int]
Status == [tuple : Tuples, checkedAt : Int, until : Int, this : Int, next : Int]

StatusAssumption ==
  /\ RoleOf \in [Tuples -> Roles] /\ CertEnds \in [Tuples -> Int] /\ Responses \subseteq Response
  /\ {Day, CacheLife, Spacing, Timeout, MaxTime} \subseteq Nat
  /\ None \notin Checks \cup Tuples \cup Response \cup Status

VARIABLES
  clock,
  slot,       \* of a role: the check whose cache it holds
  cache,      \* the cache a check filled: a status, until a read finds it stale
  active,     \* of a role: the check whose request is under way
  notBefore,  \* of a role
  checks,
  asked       \* history: the requests that left, [by, at]

status == <<slot, cache, active, notBefore, checks, asked>>

Idle == [pc |-> "idle", tuple |-> None, from |-> None, got |-> None, at |-> 0, deadline |-> 0,
         answer |-> None, told |-> 0]
Role(c) == RoleOf[checks[c].tuple]

\* A check ends with a status, given at the clock it is read on, or with none.
Answers(set, what) ==
  checks' = [c \in Checks |->
  IF c \in set THEN [Idle EXCEPT !.pc = "end", !.tuple = checks[c].tuple, !.answer = what, !.told = clock] ELSE checks[c]]
Unavailable(set) == Answers(set, None)

(***************************************************************************)
(* qualifyCommonStatus at a moment, and how long it may be kept.           *)
(***************************************************************************)
IsListing(t) == RoleOf[t] = "issuer-crl"

Qualifies(r, t, at) ==
  /\ r.tuple = t /\ r.good /\ at < CertEnds[t]
  /\ r.this <= at /\ r.this < r.next /\ at < r.next
  /\ IsListing(t) \/ at - r.this <= Day

Until(r, t, at) ==
  Min({r.next, at + CacheLife, CertEnds[t]} \cup IF IsListing(t) THEN {} ELSE {r.this + Day})

\* CommonStatusCache.get
IsFresh(v) == v # None /\ v.checkedAt <= clock /\ v.this <= clock /\ clock < v.until

(***************************************************************************)
(* check                                                                   *)
(***************************************************************************)
Check(c, t) ==
  /\ checks[c].pc = "idle"
  /\ checks' = [checks EXCEPT ![c].pc = "prepare", ![c].tuple = t, ![c].at = clock]
  /\ UNCHANGED <<clock, slot, cache, active, notBefore, asked>>

\* The roles of the certificates are authenticated before anything leaves, as
\* of the moment of the call.
Prepare(c) ==
  /\ checks[c].pc = "prepare"
  /\ IF checks[c].at < CertEnds[checks[c].tuple]
       THEN checks' = [checks EXCEPT ![c].pc = "look", ![c].at = 0]
       ELSE Unavailable({c})
  /\ UNCHANGED <<clock, slot, cache, active, notBefore, asked>>

IsSame(c, other) == checks[c].tuple = checks[other].tuple
IsSameRole(c, other) == Role(c) = Role(other)

\* No status is kept: the check joins, is refused, or asks.
Enter(c) ==
  LET role == Role(c)
      under == active[role]
      refused == IF under # None THEN ~IsSame(c, under) ELSE clock < notBefore[role]
  IN \/ /\ refused /\ Unavailable({c})
        /\ UNCHANGED <<active, notBefore, asked>>
     \/ /\ ~refused /\ under # None
        /\ checks' = [checks EXCEPT ![c].pc = "join"]
        /\ UNCHANGED <<active, notBefore, asked>>
     \/ /\ ~refused /\ under = None
        /\ active' = [active EXCEPT ![role] = c] /\ notBefore' = [notBefore EXCEPT ![role] = clock + Spacing]
        /\ asked' = asked \cup {[by |-> c, at |-> clock]}
        /\ checks' = [checks EXCEPT ![c].pc = "fetch", ![c].deadline = clock + Timeout]

Look(c) ==
  LET held == slot[Role(c)]
  IN /\ checks[c].pc = "look"
     /\ IF held # None /\ IsSame(c, held)
          THEN checks' = [checks EXCEPT ![c].pc = "cached", ![c].from = held] /\ UNCHANGED <<active, notBefore, asked>>
          ELSE Enter(c)
     /\ UNCHANGED <<clock, slot, cache>>

\* The slot may have been replaced since it was looked up.
ReadCache(c) ==
  LET from == checks[c].from
  IN /\ checks[c].pc = "cached"
     /\ IF IsFresh(cache[from])
          THEN Answers({c}, cache[from]) /\ UNCHANGED <<cache, active, notBefore, asked>>
          ELSE cache' = [cache EXCEPT ![from] = None] /\ Enter(c)
     /\ UNCHANGED <<clock, slot>>

\* #load: the body arrives, and is judged at this moment.
Respond(c) ==
  /\ checks[c].pc = "fetch"
  /\ \E r \in Responses : checks' = [checks EXCEPT ![c].pc = "verify", ![c].got = r, ![c].at = clock]
  /\ UNCHANGED <<clock, slot, cache, active, notBefore, asked>>

\* CommonStatusCache.put
Put(c) ==
  LET t == checks[c].tuple
      r == checks[c].got
      at == checks[c].at
  IN /\ checks[c].pc = "verify" /\ Qualifies(r, t, at) /\ at <= clock /\ clock < Until(r, t, at)
     /\ cache' = [cache EXCEPT ![c] =
          [tuple |-> t, checkedAt |-> at, until |-> Until(r, t, at), this |-> r.this, next |-> r.next]]
     /\ checks' = [checks EXCEPT ![c].pc = "stored"]
     /\ UNCHANGED <<clock, slot, active, notBefore, asked>>

Joined(c) == {d \in Checks : checks[d].pc = "join" /\ active[Role(d)] = c}
Release(c) == active' = [active EXCEPT ![Role(c)] = None]

Promote(c) ==
  /\ checks[c].pc = "stored" /\ IsFresh(cache[c]) /\ clock < checks[c].deadline
  /\ slot' = [slot EXCEPT ![Role(c)] = c] /\ Release(c) /\ Answers({c} \cup Joined(c), cache[c])
  /\ UNCHANGED <<clock, cache, notBefore, asked>>

\* A failure, a check that does not hold, or the timer of the request.
Drop(c) ==
  /\ checks[c].pc \in {"fetch", "verify", "stored"}
  /\ Release(c) /\ Unavailable({c} \cup Joined(c))
  /\ UNCHANGED <<clock, slot, cache, notBefore, asked>>

Tick == clock' \in {clock - 1, clock + 1} \cap 0..MaxTime /\ UNCHANGED status

StatusInit ==
  /\ clock = 0 /\ slot = [r \in Roles |-> None] /\ cache = [c \in Checks |-> None]
  /\ active = [r \in Roles |-> None] /\ notBefore = [r \in Roles |-> 0] /\ asked = {}
  /\ checks = [c \in Checks |-> Idle]

Advance(c) == Prepare(c) \/ Look(c) \/ ReadCache(c) \/ Respond(c) \/ Put(c) \/ Promote(c) \/ Drop(c)

StatusNext == (\E c \in Checks : Advance(c) \/ \E t \in Tuples : Check(c, t)) \/ Tick

StatusSpec == StatusInit /\ [][StatusNext]_<<clock, status>>

(***************************************************************************)
(* Properties                                                              *)
(***************************************************************************)
\* What a check is told is the status of its own certificates, and holds when
\* it is told, whether it came from its own request, from one it joined, or
\* from a slot that has been replaced meanwhile, on a clock that steps back
\* (receipt-status-client.mjs 30-40, receipt-status-candidate.mjs 90-93).
ToldTruth == \A c \in Checks : LET s == checks[c].answer IN
  s # None =>
    /\ s.tuple = checks[c].tuple
    /\ s.this <= s.checkedAt /\ s.checkedAt <= checks[c].told /\ checks[c].told < s.until
    /\ s.until <= s.next /\ s.until <= s.checkedAt + CacheLife

\* Of each role one request is under way at a time, and they leave apart
\* whatever certificates they are for (receipt-status-client.mjs 32-36, 40).
AskedApart ==
  /\ \A r, s \in asked : r # s /\ IsSameRole(r.by, s.by) => r.at - s.at >= Spacing \/ s.at - r.at >= Spacing
  /\ \A c \in Checks : checks[c].pc \in {"fetch", "verify", "stored"} => active[Role(c)] = c
  /\ \A c \in Checks : checks[c].pc = "join" => checks[active[Role(c)]].pc \in {"fetch", "verify", "stored"}

StatusTruthful == ToldTruth /\ AskedApart
=============================================================================
