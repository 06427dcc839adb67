------------------------- MODULE InstallCredentials -------------------------
(***************************************************************************)
(* The credentials of the APNs relay (src/src/handlers/install.ts and the  *)
(* repositories under it): a rate-limited bootstrap proof is exchanged     *)
(* once for a per-install token, which is rotated by its bearer and        *)
(* revoked by the operator.  Every step is one D1 statement; between two   *)
(* of them other requests run, and a request may fail.                     *)
(*                                                                         *)
(* A request issues at most one proof and one token, so both are named by  *)
(* the request that issued them.                                           *)
(***************************************************************************)
EXTENDS Integers, FiniteSets, Sequences

CONSTANTS
  Requests, Installs, Devices, Ips,
  KindsOf,        \* [Requests -> SUBSET Kinds]: what each of them may ask
  Limit,          \* [Subjects -> Nat]: requests of a subject per window
  Window, Ttl,    \* length of a window and life of a proof
  MaxTime,        \* bound: the clock
  None

Subjects == {"ip", "install", "device"}
Kinds == {"pairing", "operator", "token", "rotate", "revoke"}

ASSUME RequestAssumption ==
  /\ None \notin Requests /\ KindsOf \in [Requests -> SUBSET Kinds]
  /\ Installs # {} /\ Devices # {} /\ Ips # {}

ASSUME LimitAssumption ==
  /\ Limit \in [Subjects -> Nat] /\ Window \in Nat /\ Ttl \in Nat /\ MaxTime \in Nat

VARIABLES
  proofs,  \* bootstrap_proofs
  tokens,  \* install_tokens
  limits,  \* bootstrap_rate_limits
  rq,      \* the requests
  now

vars == <<proofs, tokens, limits, rq, now>>

Keys == ({"ip"} \X Ips) \cup ({"install"} \X Installs) \cup ({"device"} \X Devices)

Proof == [install : Installs, device : Devices, expires : Nat, used : BOOLEAN]
Token == [install : Installs, proof : Requests \cup {None}, disabled : BOOLEAN]
Counter == [start : Nat, count : Nat]

\* No row is the missing one.
ASSUME NoneAssumption == None \notin Proof \cup Token \cup Counter \cup Kinds

\* The ids in the body; the proof or token presented; the subjects left to
\* check, the counter read for the first of them and when; and, a history, the
\* tokens of the install when the bearer was accepted.
Request == [pc : {"idle", "limit", "count", "issue", "find", "consume", "mint", "auth",
                  "disable", "revoke", "done", "refused", "failed"},
            kind : Kinds \cup {None}, install : Installs, device : Devices, ip : Ips,
            credential : Requests \cup {None}, left : Seq(Subjects),
            seen : Counter \cup {None}, at : Nat, known : SUBSET Requests]

Goto(r, pc) == rq' = [rq EXCEPT ![r].pc = pc]

\* The first step of each kind of request.
First(kind) ==
  CASE kind \in {"pairing", "token"} -> "limit"
    [] kind = "operator"             -> "issue"
    [] kind = "rotate"               -> "auth"
    [] kind = "revoke"               -> "revoke"

\* A validated body: a proof is presented for a token, a token to be rotated or
\* revoked, each of them one that was issued.
IsValid(kind, c) ==
  /\ kind \in {"pairing", "operator"} <=> c = None
  /\ kind = "token" => proofs[c] # None
  /\ kind \in {"rotate", "revoke"} => tokens[c] # None

Start(r) ==
  /\ rq[r].pc = "idle"
  /\ \E kind \in KindsOf[r], i \in Installs, d \in Devices, a \in Ips, c \in Requests \cup {None} :
       /\ IsValid(kind, c)
       /\ rq' = [rq EXCEPT ![r] =
            [pc |-> First(kind), kind |-> kind, install |-> i, device |-> d, ip |-> a,
             credential |-> c, left |-> <<"ip", "install", "device">>,
             seen |-> None, at |-> 0, known |-> {}]]
  /\ UNCHANGED <<proofs, tokens, limits, now>>

(***************************************************************************)
(* The rate limit: read the counter of a key, then write it.               *)
(***************************************************************************)
KeyOf(q, subject) == <<subject, q[subject]>>

Expired(counter, time) == counter = None \/ time - counter.start >= Window

\* Read and decide; the row may change before the write.
ReadLimit(r) ==
  LET subject == Head(rq[r].left)
      counter == limits[KeyOf(rq[r], subject)]
      limited == ~Expired(counter, now) /\ counter.count >= Limit[subject]
  IN /\ rq[r].pc = "limit"
     /\ rq' = [rq EXCEPT ![r].pc = IF limited THEN "refused" ELSE "count",
                         ![r].seen = counter, ![r].at = now]
     /\ UNCHANGED <<proofs, tokens, limits, now>>

\* Open a window as of the read, or add one to the row that is there now.
Counted(q, counter) ==
  IF Expired(q.seen, q.at) THEN [start |-> q.at, count |-> 1]
  ELSE [counter EXCEPT !.count = counter.count + 1]

WriteLimit(r) ==
  LET key == KeyOf(rq[r], Head(rq[r].left))
      left == Tail(rq[r].left)
      next == IF rq[r].kind = "pairing" THEN "issue" ELSE "find"
  IN /\ rq[r].pc = "count"
     /\ limits' = [limits EXCEPT ![key] = Counted(rq[r], limits[key])]
     /\ rq' = [rq EXCEPT ![r].pc = IF left = <<>> THEN next ELSE "limit",
                         ![r].left = left]
     /\ UNCHANGED <<proofs, tokens, now>>

(***************************************************************************)
(* Proofs and tokens.                                                      *)
(***************************************************************************)
IssueProof(r) ==
  /\ rq[r].pc = "issue" /\ Goto(r, "done")
  /\ proofs' = [proofs EXCEPT ![r] = [install |-> rq[r].install, device |-> rq[r].device,
                                      expires |-> now + Ttl, used |-> FALSE]]
  /\ UNCHANGED <<tokens, limits, now>>

\* The proof presented is unused, unexpired and bound to the same ids.
IsPresentable(p, q) == ~p.used /\ p.expires > now /\ p.install = q.install /\ p.device = q.device

FindProof(r) ==
  /\ rq[r].pc = "find"
  /\ Goto(r, IF IsPresentable(proofs[rq[r].credential], rq[r]) THEN "consume" ELSE "refused")
  /\ UNCHANGED <<proofs, tokens, limits, now>>

\* The update is guarded by used_at IS NULL.
ConsumeProof(r) ==
  LET p == rq[r].credential
  IN /\ rq[r].pc = "consume"
     /\ Goto(r, IF proofs[p].used THEN "refused" ELSE "mint")
     /\ proofs' = [proofs EXCEPT ![p].used = TRUE]
     /\ UNCHANGED <<tokens, limits, now>>

IssueToken(r) ==
  /\ rq[r].pc = "mint" /\ Goto(r, "done")
  /\ tokens' = [tokens EXCEPT ![r] =
          [install |-> rq[r].install, disabled |-> FALSE,
           proof |-> IF rq[r].kind = "token" THEN rq[r].credential ELSE None]]
  /\ UNCHANGED <<proofs, limits, now>>

OfInstall(i) == {t \in Requests : tokens[t] # None /\ tokens[t].install = i}

\* requireInstallAuth: an active token of the install named in the body.
Authenticate(r) ==
  LET t == rq[r].credential
      granted == ~tokens[t].disabled /\ tokens[t].install = rq[r].install
  IN /\ rq[r].pc = "auth"
     /\ rq' = [rq EXCEPT ![r].pc = IF granted THEN "disable" ELSE "refused",
                         ![r].known = OfInstall(rq[r].install)]
     /\ UNCHANGED <<proofs, tokens, limits, now>>

\* Mutant: the token that was presented stays, for a client that asks again.
DisableTokens_Others(r) ==
  /\ rq[r].pc = "disable" /\ Goto(r, "mint")
  /\ tokens' = [t \in Requests |->
       IF t \in OfInstall(rq[r].install) \ {rq[r].credential} THEN [tokens[t] EXCEPT !.disabled = TRUE] ELSE tokens[t]]
  /\ UNCHANGED <<proofs, limits, now>>

\* rotateInstallToken: every active token of the install, then a new one.
DisableTokens(r) ==
  /\ rq[r].pc = "disable" /\ Goto(r, "mint")
  /\ tokens' = [t \in Requests |->
       IF t \in OfInstall(rq[r].install) THEN [tokens[t] EXCEPT !.disabled = TRUE] ELSE tokens[t]]
  /\ UNCHANGED <<proofs, limits, now>>

RevokeToken(r) ==
  LET c == rq[r].credential
  IN /\ rq[r].pc = "revoke" /\ Goto(r, "done")
     /\ tokens' = IF tokens[c].install = rq[r].install
                  THEN [tokens EXCEPT ![c].disabled = TRUE] ELSE tokens
     /\ UNCHANGED <<proofs, limits, now>>

\* A statement fails, or the isolate goes away between two of them.  A
\* statement that commits and loses its answer is the statement and Fail.
Fail(r) ==
  /\ rq[r].pc \notin {"idle", "done", "refused", "failed"} /\ Goto(r, "failed")
  /\ UNCHANGED <<proofs, tokens, limits, now>>

Tick == now < MaxTime /\ now' = now + 1 /\ UNCHANGED <<proofs, tokens, limits, rq>>

Idle ==
  [pc |-> "idle", kind |-> None, install |-> CHOOSE i \in Installs : TRUE,
   device |-> CHOOSE d \in Devices : TRUE, ip |-> CHOOSE a \in Ips : TRUE,
   credential |-> None, left |-> <<>>, seen |-> None, at |-> 0, known |-> {}]

Init ==
  /\ proofs = [r \in Requests |-> None] /\ tokens = [r \in Requests |-> None]
  /\ limits = [k \in Keys |-> None] /\ rq = [r \in Requests |-> Idle] /\ now = 0

Next ==
  \/ \E r \in Requests : \/ Start(r) \/ ReadLimit(r) \/ WriteLimit(r) \/ IssueProof(r)
                         \/ FindProof(r) \/ ConsumeProof(r) \/ IssueToken(r) \/ Authenticate(r)
                         \/ DisableTokens(r) \/ RevokeToken(r) \/ Fail(r)
  \/ Tick

Spec == Init /\ [][Next]_vars

(***************************************************************************)
(* Properties.                                                             *)
(***************************************************************************)
\* One proof buys one token, however many requests present it at once and
\* whatever they read before one of them consumed it, and the token is of
\* the install the proof was issued for (consumeBootstrapProof).
OneTokenPerProof ==
  \A t \in Requests : tokens[t] # None /\ tokens[t].proof # None =>
    LET p == tokens[t].proof
    IN /\ proofs[p] # None /\ proofs[p].install = tokens[t].install
       /\ \A u \in Requests : tokens[u] # None /\ tokens[u].proof = p => u = t

\* A rotation that has disabled its predecessors leaves none of the tokens
\* that were there when its bearer was accepted active, whatever other
\* rotations, revocations and issuances ran meanwhile (rotateInstallToken).
RotationSupersedes ==
  \A r \in Requests : rq[r].kind = "rotate" /\ rq[r].pc \in {"mint", "done"} =>
    \A t \in rq[r].known : tokens[t].disabled

\* What the exchange of proofs and the rotation promise together.
OneLiveToken == OneTokenPerProof /\ RotationSupersedes

\* SECURITY.md: proofs "are marked used after successful token issuance": a
\* used proof has its token, or a request that is about to issue it.
UsedAfterIssuance ==
  \A p \in Requests : proofs[p] # None /\ proofs[p].used =>
    \E r \in Requests : \/ tokens[r] # None /\ tokens[r].proof = p
                        \/ rq[r].pc = "mint" /\ rq[r].credential = p

\* The tables and the requests have their shape.
TypeOK ==
  /\ proofs \in [Requests -> Proof \cup {None}] /\ tokens \in [Requests -> Token \cup {None}]
  /\ limits \in [Keys -> Counter \cup {None}] /\ rq \in [Requests -> Request] /\ now \in Nat
=============================================================================
