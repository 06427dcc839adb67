----------------------------- MODULE RelayProofs -----------------------------
(***************************************************************************)
(* Proofs about the relay: its credentials, then each part that reports,   *)
(* then all of them.                                                       *)
(*                                                                         *)
(* A proof of the operator is worth one token because the request that     *)
(* consumed it is the only one that may mint with it; a rotation           *)
(* supersedes what it knew of because no token returns and none is         *)
(* disabled twice.                                                         *)
(***************************************************************************)
EXTENDS Relay, FiniteSetTheorems, TLAPS

\* The kinds of the requests that may be at a step.
Control(q) ==
  /\ q.pc \in {"limit", "count"} => q.kind \in {"pairing", "token"} /\ q.left # <<>>
  /\ q.pc = "issue" => q.kind \in {"pairing", "operator"}
  /\ q.pc \in {"find", "consume"} => q.kind = "token"
  /\ q.pc \in {"auth", "disable"} => q.kind = "rotate"
  /\ q.pc = "mint" => q.kind \in {"token", "rotate"}
  /\ q.pc = "revoke" => q.kind = "revoke"
  /\ q.kind \in {"token", "rotate", "revoke"} => q.credential \in Requests

\* What was presented was issued, and a counter that was read is still there.
Presented(q) ==
  /\ q.kind = "token" => proofs[q.credential] # None
  /\ q.kind \in {"rotate", "revoke"} => tokens[q.credential] # None
  /\ q.pc = "count" /\ q.seen # None => limits[KeyOf(q, Head(q.left))] # None
Shape == \A r \in Requests : Control(rq[r]) /\ Presented(rq[r])

\* What a request has issued is there once it is done, and no sooner.
Fresh == \A r \in Requests : proofs[r] # None \/ tokens[r] # None => rq[r].pc = "done"

\* The requests whose proof was found good, and those that have used it.
Found(r) == rq[r].kind = "token" /\ rq[r].pc \in {"consume", "mint"}
Bought(r) == rq[r].kind = "token" /\ (rq[r].pc = "mint" \/ tokens[r] # None)

\* A token is what its request asked for, and a proof was used by one request.
Purchases ==
  /\ \A r \in Requests : tokens[r] # None =>
       /\ tokens[r].install = rq[r].install
       /\ tokens[r].proof = IF rq[r].kind = "token" THEN rq[r].credential ELSE None
  /\ \A r \in Requests : Found(r) \/ Bought(r) => proofs[rq[r].credential].install = rq[r].install
  /\ \A r \in Requests : Bought(r) => proofs[rq[r].credential].used
  /\ \A r, s \in Requests : Bought(r) /\ Bought(s) /\ rq[r].credential = rq[s].credential => r = s

\* What a rotation knows of are tokens of its install, disabled once it has run.
Rotations ==
  \A r \in Requests : rq[r].kind = "rotate" /\ rq[r].pc \in {"disable", "mint", "done"} =>
    \A t \in rq[r].known :
      /\ tokens[t] # None /\ tokens[t].install = rq[r].install
      /\ rq[r].pc # "disable" => tokens[t].disabled

IInv == TypeOK /\ Shape /\ Fresh /\ Purchases /\ Rotations

-----------------------------------------------------------------------------
Steps == {"idle", "limit", "count", "issue", "find", "consume", "mint", "auth",
          "disable", "revoke", "done", "refused", "failed"}

\* What a step leaves of a request: all that says what it asks.
Same(q, p) ==
  /\ q.kind = p.kind /\ q.install = p.install /\ q.device = p.device /\ q.ip = p.ip
  /\ q.credential = p.credential

\* Only the request that takes a step changes.
LEMMA RequestFact ==
  ASSUME TypeOK, NEW r \in Requests, NEW q \in Request, rq' = [rq EXCEPT ![r] = q]
  PROVE  /\ rq' \in [Requests -> Request] /\ rq'[r] = q
         /\ \A s \in Requests : s # r => rq'[s] = rq[s]
BY DEF TypeOK

\* Goto changes the step of one request.
LEMMA GotoFact ==
  ASSUME TypeOK, NEW r \in Requests, NEW pc \in Steps, Goto(r, pc)
  PROVE  /\ rq' \in [Requests -> Request] /\ rq'[r].pc = pc
         /\ Same(rq'[r], rq[r]) /\ rq'[r].known = rq[r].known /\ rq'[r].left = rq[r].left
         /\ \A s \in Requests : s # r => rq'[s] = rq[s]
<1> DEFINE q == [rq[r] EXCEPT !.pc = pc]
<1>1. rq' = [rq EXCEPT ![r] = q]
  BY DEF Goto
<1>2. q \in Request /\ q.pc = pc /\ Same(q, rq[r]) /\ q.known = rq[r].known /\ q.left = rq[r].left
  <2>1. rq[r] \in Request
    BY DEF TypeOK
  <2>. QED BY <2>1 DEF Request, Same, Steps
<1>. HIDE DEF q
<1>. QED BY <1>1, <1>2, RequestFact

\* A request starts with what is asked, on a proof or token that was issued.
LEMMA StartFact ==
  ASSUME TypeOK, NEW r \in Requests, Start(r)
  PROVE  /\ rq' \in [Requests -> Request] /\ rq[r].pc = "idle"
         /\ \A s \in Requests : s # r => rq'[s] = rq[s]
         /\ UNCHANGED <<proofs, tokens, limits, now>>
         /\ \E kind \in Kinds :
              /\ rq'[r].kind = kind /\ rq'[r].pc = First(kind) /\ rq'[r].left # <<>>
              /\ IsValid(kind, rq'[r].credential)
<1>1. PICK kind \in KindsOf[r], i \in Installs, d \in Devices, a \in Ips, c \in Requests \cup {None} :
        /\ IsValid(kind, c)
        /\ rq' = [rq EXCEPT ![r] =
             [pc |-> First(kind), kind |-> kind, install |-> i, device |-> d, ip |-> a,
              credential |-> c, left |-> <<"ip", "install", "device">>,
              seen |-> None, at |-> 0, known |-> {}]]
  BY Zenon DEF Start
<1> DEFINE q == [pc |-> First(kind), kind |-> kind, install |-> i, device |-> d, ip |-> a,
                 credential |-> c, left |-> <<"ip", "install", "device">>,
                 seen |-> None, at |-> 0, known |-> {}]
<1>2. kind \in Kinds
  BY RequestAssumption
<1>3. q.left \in Seq(Subjects) /\ q.left # <<>>
  BY DEF Subjects
<1>4. q \in Request /\ q.kind = kind /\ q.pc = First(kind) /\ q.credential = c
  BY <1>2, <1>3 DEF Request, First, Kinds
<1>. HIDE DEF q
<1>5. rq' = [rq EXCEPT ![r] = q]
  BY <1>1 DEF q
<1>6. /\ rq' \in [Requests -> Request] /\ rq'[r] = q
      /\ \A s \in Requests : s # r => rq'[s] = rq[s]
  BY <1>4, <1>5, RequestFact
<1>7. rq[r].pc = "idle" /\ UNCHANGED <<proofs, tokens, limits, now>>
  BY DEF Start
<1>. QED BY <1>1, <1>2, <1>3, <1>4, <1>6, <1>7

\* The key of the subject to check next.
LEMMA KeyFact ==
  ASSUME NEW q \in Request, q.left # <<>>
  PROVE  /\ Head(q.left) \in Subjects /\ Tail(q.left) \in Seq(Subjects)
         /\ KeyOf(q, Head(q.left)) \in Keys
<1>1. /\ q.left \in Seq(Subjects) /\ q.install \in Installs /\ q.device \in Devices /\ q.ip \in Ips
  BY DEF Request
<1>2. Head(q.left) \in Subjects /\ Tail(q.left) \in Seq(Subjects)
  BY <1>1
<1>3. ASSUME NEW subject \in Subjects PROVE KeyOf(q, subject) \in Keys
  BY <1>1 DEF KeyOf, Keys, Subjects
<1>. QED BY <1>2, <1>3

\* The steps of a request that write no table.
Reads(r) == Start(r) \/ ReadLimit(r) \/ FindProof(r) \/ Authenticate(r) \/ Fail(r)
Writes(r) ==
  WriteLimit(r) \/ IssueProof(r) \/ ConsumeProof(r) \/ IssueToken(r) \/ DisableTokens(r) \/ RevokeToken(r)

\* What every step does to the request that takes it.
LEMMA ReadsFact ==
  ASSUME TypeOK, Shape, NEW r \in Requests, Reads(r)
  PROVE  /\ rq' \in [Requests -> Request] /\ Control(rq'[r])
         /\ rq[r].pc \notin {"done", "refused", "failed"} /\ rq'[r].pc # "done"
         /\ UNCHANGED <<proofs, tokens, limits, now>>
         /\ ~Start(r) => Same(rq'[r], rq[r])
         /\ \A s \in Requests : s # r => rq'[s] = rq[s]
<1>0. rq[r] \in Request /\ Control(rq[r])
  BY DEF TypeOK, Shape
<1>1. CASE Start(r)
  <2>1. PICK kind \in Kinds :
          /\ rq'[r].kind = kind /\ rq'[r].pc = First(kind) /\ rq'[r].left # <<>>
          /\ IsValid(kind, rq'[r].credential)
    BY <1>1, StartFact
  <2>2. rq'[r].credential \in Requests \cup {None}
    BY <1>1, StartFact DEF Request
  <2>3. Control(rq'[r]) /\ rq'[r].pc # "done"
    BY <2>1, <2>2 DEF Control, First, IsValid, Kinds
  <2>. QED BY <1>1, <2>3, StartFact
<1>2. CASE ReadLimit(r)
  <2> DEFINE counter == limits[KeyOf(rq[r], Head(rq[r].left))]
             limited == ~Expired(counter, now) /\ counter.count >= Limit[Head(rq[r].left)]
             q == [rq[r] EXCEPT !.pc = IF limited THEN "refused" ELSE "count",
                                !.seen = counter, !.at = now]
  <2>1. rq[r].pc = "limit" /\ rq' = [rq EXCEPT ![r] = q]
    BY <1>2 DEF ReadLimit
  <2>2. counter \in Counter \cup {None} /\ now \in Nat
    BY <1>0, <2>1, KeyFact DEF TypeOK, Control
  <2>. HIDE DEF counter, limited
  <2>3. q \in Request /\ Same(q, rq[r]) /\ q.pc \in {"refused", "count"} /\ q.left = rq[r].left
    BY <1>0, <2>2 DEF Request, Same
  <2>. HIDE DEF q
  <2>4. Control(q)
    BY <1>0, <2>1, <2>3 DEF Control, Same
  <2>5. UNCHANGED <<proofs, tokens, limits, now>>
    BY <1>2 DEF ReadLimit
  <2>. QED BY <2>1, <2>3, <2>4, <2>5, RequestFact
<1>3. CASE FindProof(r)
  <2>1. PICK pc \in {"consume", "refused"} : Goto(r, pc)
    BY <1>3 DEF FindProof
  <2>2. rq[r].pc = "find" /\ pc \in Steps /\ UNCHANGED <<proofs, tokens, limits, now>>
    BY <1>3 DEF FindProof, Steps
  <2>. QED BY <1>0, <2>1, <2>2, GotoFact DEF Control, Same
<1>4. CASE Authenticate(r)
  <2> DEFINE granted == ~tokens[rq[r].credential].disabled /\ tokens[rq[r].credential].install = rq[r].install
             q == [rq[r] EXCEPT !.pc = IF granted THEN "disable" ELSE "refused",
                                !.known = OfInstall(rq[r].install)]
  <2>1. rq[r].pc = "auth" /\ rq' = [rq EXCEPT ![r] = q] /\ UNCHANGED <<proofs, tokens, limits, now>>
    BY <1>4 DEF Authenticate
  <2>. HIDE DEF granted
  <2>2. OfInstall(rq[r].install) \in SUBSET Requests
    BY DEF OfInstall
  <2>3. q \in Request /\ Same(q, rq[r]) /\ q.pc \in {"refused", "disable"}
    BY <1>0, <2>2 DEF Request, Same
  <2>. HIDE DEF q
  <2>4. Control(q)
    BY <1>0, <2>1, <2>3 DEF Control, Same
  <2>. QED BY <2>1, <2>3, <2>4, RequestFact
<1>5. CASE Fail(r)
  <2>1. rq[r].pc \notin {"done", "refused", "failed"} /\ Goto(r, "failed") /\ "failed" \in Steps
        /\ UNCHANGED <<proofs, tokens, limits, now>>
    BY <1>5 DEF Fail, Steps
  <2>. QED BY <1>0, <2>1, GotoFact DEF Control, Same
<1>. QED BY <1>1, <1>2, <1>3, <1>4, <1>5 DEF Reads

\* Where each of them leads.
LEMMA ReadsLead ==
  ASSUME TypeOK, NEW r \in Requests
  PROVE  /\ ReadLimit(r) => rq'[r].pc \in {"refused", "count"}
         /\ FindProof(r) => /\ rq'[r].pc = "consume" => IsPresentable(proofs[rq[r].credential], rq[r])
                            /\ rq'[r].pc \in {"refused", "consume"}
         /\ Authenticate(r) => rq'[r].pc \in {"refused", "disable"}
         /\ Fail(r) => rq'[r].pc = "failed"
<1>1. rq[r] \in Request /\ rq \in [Requests -> Request]
  BY DEF TypeOK
<1>2. FindProof(r) => /\ rq'[r].pc = "consume" => IsPresentable(proofs[rq[r].credential], rq[r])
                     /\ rq'[r].pc \in {"refused", "consume"}
  BY <1>1 DEF FindProof, Goto, Request
<1>3. ReadLimit(r) => rq'[r].pc \in {"refused", "count"}
  BY <1>1 DEF ReadLimit, Request
<1>4. Authenticate(r) => rq'[r].pc \in {"refused", "disable"}
  BY <1>1 DEF Authenticate, Request
<1>5. Fail(r) => rq'[r].pc = "failed"
  BY <1>1 DEF Fail, Goto, Request
<1>. QED BY <1>2, <1>3, <1>4, <1>5

\* What a statement does to its request.
LEMMA WritesFact ==
  ASSUME TypeOK, Shape, NEW r \in Requests, Writes(r)
  PROVE  /\ rq' \in [Requests -> Request] /\ Control(rq'[r])
         /\ Same(rq'[r], rq[r]) /\ rq'[r].known = rq[r].known
         /\ rq[r].pc \notin {"done", "refused", "failed", "idle"} /\ rq'[r].pc \notin {"consume", "disable", "count"}
         /\ rq'[r].pc = "mint" => ConsumeProof(r) \/ DisableTokens(r)
         /\ rq'[r].pc = "done" => IssueProof(r) \/ IssueToken(r) \/ RevokeToken(r)
         /\ \A s \in Requests : s # r => rq'[s] = rq[s]
<1>0. rq[r] \in Request /\ Control(rq[r])
  BY DEF TypeOK, Shape
<1>1. CASE WriteLimit(r)
  <2> DEFINE left == Tail(rq[r].left)
             pc == IF left = <<>> THEN IF rq[r].kind = "pairing" THEN "issue" ELSE "find" ELSE "limit"
             q == [rq[r] EXCEPT !.pc = pc, !.left = left]
  <2>1. rq[r].pc = "count" /\ rq' = [rq EXCEPT ![r] = q]
    BY <1>1 DEF WriteLimit
  <2>2. left \in Seq(Subjects)
    BY <1>0, <2>1, KeyFact DEF Control
  <2>3. /\ pc \in {"issue", "find", "limit"}
        /\ pc = "limit" => left # <<>>
        /\ pc = "issue" => rq[r].kind = "pairing"
        /\ pc = "find" => rq[r].kind # "pairing"
    OBVIOUS
  <2>. HIDE DEF left, pc
  <2>4. q \in Request /\ Same(q, rq[r]) /\ q.pc = pc /\ q.left = left /\ q.known = rq[r].known
    BY <1>0, <2>2, <2>3 DEF Request, Same
  <2>. HIDE DEF q
  <2>5. Control(q)
    BY <1>0, <2>1, <2>3, <2>4 DEF Control, Same
  <2>. QED BY <2>1, <2>3, <2>4, <2>5, RequestFact
<1>2. CASE ~WriteLimit(r)
  <2>1. \/ rq[r].pc \in {"issue", "mint", "revoke"} /\ Goto(r, "done")
        \/ ConsumeProof(r) /\ rq[r].pc = "consume" /\ (Goto(r, "mint") \/ Goto(r, "refused"))
        \/ DisableTokens(r) /\ rq[r].pc = "disable" /\ Goto(r, "mint")
    BY <1>2 DEF Writes, IssueProof, ConsumeProof, IssueToken, DisableTokens, RevokeToken
  <2>2. {"done", "mint", "refused"} \subseteq Steps
    BY DEF Steps
  <2>3. PICK pc \in {"done", "mint", "refused"} : Goto(r, pc)
    BY <2>1
  <2>4. /\ rq' \in [Requests -> Request] /\ rq'[r].pc = pc
        /\ Same(rq'[r], rq[r]) /\ rq'[r].known = rq[r].known /\ rq'[r].left = rq[r].left
        /\ \A s \in Requests : s # r => rq'[s] = rq[s]
    BY <2>2, <2>3, GotoFact
  <2>5. /\ Goto(r, "done") => rq'[r].pc = "done"
        /\ Goto(r, "mint") => rq'[r].pc = "mint"
        /\ Goto(r, "refused") => rq'[r].pc = "refused"
    BY <2>2, GotoFact
  <2>6. rq'[r].pc = "done" => IssueProof(r) \/ IssueToken(r) \/ RevokeToken(r)
    BY <1>2, <2>1, <2>5 DEF Writes, ConsumeProof, DisableTokens
  <2>. QED BY <1>0, <2>1, <2>4, <2>5, <2>6 DEF Control, Same
<1>. QED BY <1>1, <1>2

-----------------------------------------------------------------------------
\* Nothing is lost: a proof keeps its ids and stays used, a token its install
\* and its proof and stays disabled.
KeepsProof(old, new) == new # None /\ new.install = old.install /\ (old.used => new.used)
KeepsToken(old, new) ==
  /\ new # None /\ new.install = old.install /\ new.proof = old.proof
  /\ old.disabled => new.disabled

\* What a statement does to the proofs and to the tokens.
LEMMA ProofsFact ==
  ASSUME TypeOK, Shape, NEW r \in Requests, IssueProof(r) \/ ConsumeProof(r)
  PROVE  /\ proofs' \in [Requests -> Proof \cup {None}] /\ UNCHANGED <<tokens, limits, now>>
         /\ \A p \in Requests : p # r /\ proofs[p] # None => KeepsProof(proofs[p], proofs'[p])
         /\ \A p \in Requests : p # r /\ proofs[p] = None => proofs'[p] = None
         /\ IssueProof(r) => proofs'[r] # None
         /\ ConsumeProof(r) =>
              /\ proofs[r] # None => KeepsProof(proofs[r], proofs'[r])
              /\ proofs[r] = None => proofs'[r] = None
              /\ proofs'[rq[r].credential].used
<1>0. rq[r] \in Request /\ Control(rq[r]) /\ Presented(rq[r]) /\ proofs \in [Requests -> Proof \cup {None}]
  BY DEF TypeOK, Shape
<1>1. CASE IssueProof(r)
  <2> DEFINE row == [install |-> rq[r].install, device |-> rq[r].device, expires |-> now + Ttl, used |-> FALSE]
  <2>1. rq[r].pc = "issue" /\ proofs' = [proofs EXCEPT ![r] = row] /\ UNCHANGED <<tokens, limits, now>>
    BY <1>1 DEF IssueProof
  <2>2. row \in Proof /\ row # None
    <3>1. now \in Nat /\ Ttl \in Nat
      BY LimitAssumption DEF TypeOK
    <3>2. row \in Proof
      BY <1>0, <3>1 DEF Proof, Request
    <3>. QED BY <3>2, NoneAssumption
  <2>. HIDE DEF row
  <2>. QED BY <1>0, <2>1, <2>2 DEF KeepsProof, ConsumeProof
<1>2. CASE ConsumeProof(r)
  <2> DEFINE c == rq[r].credential
             row == [proofs[c] EXCEPT !.used = TRUE]
  <2>1. /\ rq[r].pc = "consume" /\ proofs' = [proofs EXCEPT ![c].used = TRUE]
        /\ UNCHANGED <<tokens, limits, now>>
    BY <1>2 DEF ConsumeProof
  <2>2. c \in Requests /\ proofs[c] \in Proof
    BY <1>0, <2>1 DEF Control, Presented
  <2>3. proofs' = [proofs EXCEPT ![c] = row]
    BY <2>1, <2>2, <1>0
  <2>4. row \in Proof /\ row.install = proofs[c].install /\ row.used
    BY <2>2 DEF Proof
  <2>5. row # None /\ proofs[c] # None
    BY <2>2, <2>4, NoneAssumption
  <2>. HIDE DEF c, row
  <2>6. /\ proofs'[c] = row /\ proofs' \in [Requests -> Proof \cup {None}]
        /\ \A p \in Requests : p # c => proofs'[p] = proofs[p]
    BY <1>0, <2>2, <2>3, <2>4
  <2>7. proofs'[rq[r].credential].used
    BY <2>4, <2>6 DEF c
  <2>8. ~IssueProof(r)
    BY <2>1 DEF IssueProof
  <2>. QED BY <2>1, <2>4, <2>5, <2>6, <2>7, <2>8 DEF KeepsProof
<1>. QED BY <1>1, <1>2

LEMMA TokensFact ==
  ASSUME TypeOK, Shape, NEW r \in Requests, IssueToken(r) \/ DisableTokens(r) \/ RevokeToken(r)
  PROVE  /\ tokens' \in [Requests -> Token \cup {None}] /\ UNCHANGED <<proofs, limits, now>>
         /\ \A t \in Requests : t # r \/ ~IssueToken(r) =>
              /\ tokens[t] # None => KeepsToken(tokens[t], tokens'[t])
              /\ tokens[t] = None => tokens'[t] = None
         /\ IssueToken(r) =>
              /\ tokens'[r] # None /\ tokens'[r].install = rq[r].install
              /\ tokens'[r].proof = IF rq[r].kind = "token" THEN rq[r].credential ELSE None
         /\ DisableTokens(r) => \A t \in OfInstall(rq[r].install) : tokens'[t].disabled
<1>0. rq[r] \in Request /\ Control(rq[r]) /\ Presented(rq[r]) /\ tokens \in [Requests -> Token \cup {None}]
  BY DEF TypeOK, Shape
<1>1. CASE IssueToken(r)
  <2> DEFINE row == [install |-> rq[r].install, disabled |-> FALSE,
                     proof |-> IF rq[r].kind = "token" THEN rq[r].credential ELSE None]
  <2>1. rq[r].pc = "mint" /\ tokens' = [tokens EXCEPT ![r] = row] /\ UNCHANGED <<proofs, limits, now>>
    BY <1>1 DEF IssueToken
  <2>2. row \in Token
    BY <1>0 DEF Token, Request
  <2>3. row # None
    BY <2>2, NoneAssumption
  <2>4. row.install = rq[r].install /\ row.proof = IF rq[r].kind = "token" THEN rq[r].credential ELSE None
    OBVIOUS
  <2>5. ~DisableTokens(r) /\ \A t \in Requests : tokens[t] # None => tokens[t] \in Token
    BY <1>0, <2>1 DEF DisableTokens
  <2>. HIDE DEF row
  <2>. QED BY <1>0, <1>1, <2>1, <2>2, <2>3, <2>4, <2>5 DEF KeepsToken
<1>2. CASE DisableTokens(r)
  <2> DEFINE all == OfInstall(rq[r].install)
  <2>1. /\ rq[r].pc = "disable" /\ UNCHANGED <<proofs, limits, now>>
        /\ tokens' = [t \in Requests |-> IF t \in all THEN [tokens[t] EXCEPT !.disabled = TRUE] ELSE tokens[t]]
    BY <1>2 DEF DisableTokens
  <2>2. \A t \in all : t \in Requests /\ tokens[t] # None /\ tokens[t] \in Token
    BY <1>0 DEF OfInstall
  <2>. HIDE DEF all
  <2>3. ASSUME NEW t \in all
        PROVE  tokens'[t] \in Token /\ tokens'[t].disabled /\ KeepsToken(tokens[t], tokens'[t])
    <3> DEFINE row == [tokens[t] EXCEPT !.disabled = TRUE]
    <3>1. tokens'[t] = row
      BY <2>1, <2>2
    <3>2. tokens[t] \in Token
      BY <2>2
    <3>3. row \in Token /\ row.disabled /\ row.install = tokens[t].install /\ row.proof = tokens[t].proof
      BY <3>2 DEF Token
    <3>4. row # None
      BY <3>3, NoneAssumption
    <3>. HIDE DEF row
    <3>. QED BY <3>1, <3>3, <3>4 DEF KeepsToken
  <2>4. \A t \in Requests \ all : tokens'[t] = tokens[t]
    BY <2>1
  <2>5. ASSUME NEW t \in Requests, tokens[t] # None PROVE KeepsToken(tokens[t], tokens'[t])
    BY <2>3, <2>4, <2>5 DEF KeepsToken
  <2>6. \A t \in Requests : tokens'[t] \in Token \cup {None}
    BY <1>0, <2>3, <2>4
  <2>7. tokens' \in [Requests -> Token \cup {None}]
    BY <2>1, <2>6
  <2>8. \A t \in Requests : tokens[t] = None => tokens'[t] = None
    BY <2>2, <2>4
  <2>9. ~IssueToken(r)
    BY <2>1 DEF IssueToken
  <2>10. \A t \in OfInstall(rq[r].install) : tokens'[t].disabled
    BY <2>3 DEF all
  <2>. QED BY <2>1, <2>5, <2>7, <2>8, <2>9, <2>10
<1>3. CASE RevokeToken(r)
  <2> DEFINE c == rq[r].credential
             row == [tokens[c] EXCEPT !.disabled = TRUE]
  <2>1. /\ rq[r].pc = "revoke" /\ UNCHANGED <<proofs, limits, now>>
        /\ tokens' = [tokens EXCEPT ![c].disabled = TRUE] \/ tokens' = tokens
    BY <1>3 DEF RevokeToken
  <2>2. c \in Requests /\ tokens[c] \in Token
    BY <1>0, <2>1 DEF Control, Presented
  <2>3. tokens' = [tokens EXCEPT ![c] = row] \/ tokens' = tokens
    BY <1>0, <2>1, <2>2
  <2>4. row \in Token /\ row.disabled /\ row.install = tokens[c].install /\ row.proof = tokens[c].proof
    BY <2>2 DEF Token
  <2>5. row # None /\ tokens[c] # None
    BY <2>2, <2>4, NoneAssumption
  <2>6. ~IssueToken(r) /\ ~DisableTokens(r)
    BY <2>1 DEF IssueToken, DisableTokens
  <2>. HIDE DEF c, row
  <2>7. /\ tokens'[c] \in {row, tokens[c]} /\ tokens' \in [Requests -> Token \cup {None}]
        /\ \A t \in Requests : t # c => tokens'[t] = tokens[t]
    BY <1>0, <2>2, <2>3, <2>4
  <2>. QED BY <2>1, <2>2, <2>4, <2>5, <2>6, <2>7 DEF KeepsToken
<1>. QED BY <1>1, <1>2, <1>3

LEMMA LimitsFact ==
  ASSUME TypeOK, Shape, NEW r \in Requests, WriteLimit(r)
  PROVE  /\ limits' \in [Keys -> Counter \cup {None}] /\ UNCHANGED <<proofs, tokens, now>>
         /\ \A k \in Keys : limits[k] # None => limits'[k] # None
<1> DEFINE key == KeyOf(rq[r], Head(rq[r].left))
           row == Counted(rq[r], limits[key])
<1>1. rq[r] \in Request /\ Control(rq[r]) /\ Presented(rq[r]) /\ limits \in [Keys -> Counter \cup {None}]
  BY DEF TypeOK, Shape
<1>2. rq[r].pc = "count" /\ limits' = [limits EXCEPT ![key] = row] /\ UNCHANGED <<proofs, tokens, now>>
  BY DEF WriteLimit
<1>3. key \in Keys
  BY <1>1, <1>2, KeyFact DEF Control
<1>4. row \in Counter
  <2>1. CASE Expired(rq[r].seen, rq[r].at)
    BY <1>1, <2>1 DEF Counted, Counter, Request
  <2>2. CASE ~Expired(rq[r].seen, rq[r].at)
    <3>1. limits[key] \in Counter
      BY <1>1, <1>2, <1>3, <2>2 DEF Presented, Expired
    <3>. QED BY <2>2, <3>1 DEF Counted, Counter
  <2>. QED BY <2>1, <2>2
<1>5. row # None
  BY <1>4, NoneAssumption
<1>. HIDE DEF key, row
<1>. QED BY <1>1, <1>2, <1>3, <1>4, <1>5

\* No step loses a proof or a token, and only an issuance adds one.
LEMMA KeepFact ==
  ASSUME TypeOK, Shape, Fresh, NEW r \in Requests, Reads(r) \/ Writes(r)
  PROVE  /\ TypeOK' /\ Control(rq'[r])
         /\ \A s \in Requests : s # r => rq'[s] = rq[s]
         /\ \A p \in Requests : proofs[p] # None => KeepsProof(proofs[p], proofs'[p])
         /\ \A t \in Requests : tokens[t] # None => KeepsToken(tokens[t], tokens'[t])
         /\ \A k \in Keys : limits[k] # None => limits'[k] # None
         /\ \A p \in Requests : proofs[p] = None /\ proofs'[p] # None => p = r /\ IssueProof(r)
         /\ \A t \in Requests : tokens[t] = None /\ tokens'[t] # None => t = r /\ IssueToken(r)
<1>1. CASE Reads(r)
  <2>1. /\ rq' \in [Requests -> Request] /\ Control(rq'[r])
        /\ UNCHANGED <<proofs, tokens, limits, now>>
        /\ \A s \in Requests : s # r => rq'[s] = rq[s]
    BY <1>1, ReadsFact
  <2>. QED BY <2>1 DEF TypeOK, KeepsProof, KeepsToken
<1>2. CASE Writes(r)
  <2>1. /\ rq' \in [Requests -> Request] /\ Control(rq'[r])
        /\ \A s \in Requests : s # r => rq'[s] = rq[s]
        /\ rq[r].pc # "done"
    BY <1>2, WritesFact
  <2>2. proofs[r] = None /\ tokens[r] = None
    BY <2>1 DEF Fresh
  <2>3. CASE IssueProof(r) \/ ConsumeProof(r)
    <3>1. /\ proofs' \in [Requests -> Proof \cup {None}] /\ UNCHANGED <<tokens, limits, now>>
          /\ \A p \in Requests : p # r /\ proofs[p] # None => KeepsProof(proofs[p], proofs'[p])
          /\ \A p \in Requests : p # r /\ proofs[p] = None => proofs'[p] = None
          /\ ConsumeProof(r) => proofs'[r] = None
      BY <2>2, <2>3, ProofsFact
    <3>. QED BY <2>1, <2>2, <2>3, <3>1 DEF TypeOK, KeepsToken
  <2>4. CASE IssueToken(r) \/ DisableTokens(r) \/ RevokeToken(r)
    <3>1. /\ tokens' \in [Requests -> Token \cup {None}] /\ UNCHANGED <<proofs, limits, now>>
          /\ \A t \in Requests : t # r \/ ~IssueToken(r) =>
               /\ tokens[t] # None => KeepsToken(tokens[t], tokens'[t])
               /\ tokens[t] = None => tokens'[t] = None
      BY <2>4, TokensFact
    <3>. QED BY <2>1, <2>2, <3>1 DEF TypeOK, KeepsProof
  <2>5. CASE WriteLimit(r)
    <3>1. /\ limits' \in [Keys -> Counter \cup {None}] /\ UNCHANGED <<proofs, tokens, now>>
          /\ \A k \in Keys : limits[k] # None => limits'[k] # None
      BY <2>5, LimitsFact
    <3>. QED BY <2>1, <3>1 DEF TypeOK, KeepsProof, KeepsToken
  <2>. QED BY <1>2, <2>3, <2>4, <2>5 DEF Writes
<1>. QED BY <1>1, <1>2

-----------------------------------------------------------------------------
\* Every request is still presented with what was issued.
LEMMA ShapeStep ==
  ASSUME TypeOK, Shape, Fresh, NEW r \in Requests, Reads(r) \/ Writes(r)
  PROVE  Shape'
<1>1. /\ TypeOK' /\ Control(rq'[r])
      /\ \A s \in Requests : s # r => rq'[s] = rq[s]
      /\ \A p \in Requests : proofs[p] # None => proofs'[p] # None
      /\ \A t \in Requests : tokens[t] # None => tokens'[t] # None
      /\ \A k \in Keys : limits[k] # None => limits'[k] # None
  BY KeepFact DEF KeepsProof, KeepsToken
<1>2. ASSUME NEW s \in Requests, rq'[s] = rq[s]
      PROVE  Control(rq'[s]) /\ Presented(rq[s])'
  <2>1. Control(rq[s]) /\ Presented(rq[s]) /\ rq[s] \in Request
    BY DEF Shape, TypeOK
  <2>2. rq[s].pc = "count" => KeyOf(rq[s], Head(rq[s].left)) \in Keys
    BY <2>1, KeyFact DEF Control
  <2>3. rq[s].kind \in {"token", "rotate", "revoke"} => rq[s].credential \in Requests
    BY <2>1 DEF Control
  <2>. QED BY <1>1, <1>2, <2>1, <2>2, <2>3 DEF Presented, KeyOf
<1>3. Presented(rq[r])'
  <2>1. CASE Start(r)
    <3>1. PICK kind \in Kinds : /\ rq'[r].kind = kind /\ rq'[r].pc = First(kind)
                                /\ IsValid(kind, rq'[r].credential)
      BY <2>1, StartFact
    <3>2. UNCHANGED <<proofs, tokens, limits, now>>
      BY <2>1, StartFact
    <3>3. rq'[r].pc # "count"
      BY <3>1 DEF First, Kinds
    <3>. QED BY <3>1, <3>2, <3>3 DEF IsValid, Presented
  <2>2. CASE ReadLimit(r)
    <3>1. rq[r].pc = "limit" /\ rq[r] \in Request /\ Control(rq[r]) /\ Presented(rq[r])
      BY <2>2 DEF ReadLimit, Shape, TypeOK
    <3>2. /\ Same(rq'[r], rq[r]) /\ rq'[r] \in Request
          /\ UNCHANGED <<proofs, tokens, limits, now>>
      BY <2>2, ReadsFact, StartFact DEF Reads, ReadLimit, Start
    <3>3. /\ rq'[r].left = rq[r].left /\ rq'[r].seen = limits[KeyOf(rq[r], Head(rq[r].left))]
      BY <2>2, <3>1 DEF ReadLimit, TypeOK
    <3>4. Head(rq[r].left) \in Subjects
      BY <3>1, KeyFact DEF Control
    <3>5. ASSUME NEW subject \in Subjects PROVE KeyOf(rq[r], subject) = KeyOf(rq'[r], subject)
      BY <3>1, <3>2 DEF KeyOf, Subjects, Same, Request
    <3>. QED BY <3>1, <3>2, <3>3, <3>4, <3>5 DEF Presented, Same, Control
  <2>3. CASE ~Start(r) /\ ~ReadLimit(r)
    <3>1. Same(rq'[r], rq[r]) /\ rq'[r].pc # "count"
      <4>1. CASE Writes(r)
        BY <4>1, WritesFact
      <4>2. CASE FindProof(r) \/ Authenticate(r) \/ Fail(r)
        <5>1. Same(rq'[r], rq[r])
          BY <2>3, <4>2, ReadsFact DEF Reads
        <5>2. rq'[r].pc # "count"
          BY <4>2, ReadsLead
        <5>. QED BY <5>1, <5>2
      <4>. QED BY <2>3, <4>1, <4>2 DEF Reads
    <3>2. Control(rq[r]) /\ Presented(rq[r])
      BY DEF Shape
    <3>. QED BY <1>1, <3>1, <3>2 DEF Presented, Same, Control
  <2>. QED BY <2>1, <2>2, <2>3
<1>. QED BY <1>1, <1>2, <1>3 DEF Shape

\* What a request has issued is there once it is done.
LEMMA FreshStep ==
  ASSUME TypeOK, Shape, Fresh, NEW r \in Requests, Reads(r) \/ Writes(r)
  PROVE  Fresh'
<1>1. /\ \A s \in Requests : s # r => rq'[s] = rq[s]
      /\ \A p \in Requests : proofs[p] = None /\ proofs'[p] # None => p = r /\ IssueProof(r)
      /\ \A t \in Requests : tokens[t] = None /\ tokens'[t] # None => t = r /\ IssueToken(r)
  BY KeepFact
<1>2. rq[r].pc # "done"
  BY ReadsFact, WritesFact
<1>3. IssueProof(r) \/ IssueToken(r) => rq'[r].pc = "done"
  BY GotoFact DEF IssueProof, IssueToken, Steps
<1>. QED BY <1>1, <1>2, <1>3 DEF Fresh

-----------------------------------------------------------------------------
\* A proof is used by one request, and buys a token of its install.
LEMMA PurchasesStep ==
  ASSUME TypeOK, Shape, Fresh, Purchases, NEW r \in Requests, Reads(r) \/ Writes(r)
  PROVE  Purchases'
<1>1. /\ TypeOK' /\ Shape'
      /\ \A s \in Requests : s # r => rq'[s] = rq[s]
      /\ \A p \in Requests : proofs[p] # None => KeepsProof(proofs[p], proofs'[p])
      /\ \A t \in Requests : tokens[t] # None => KeepsToken(tokens[t], tokens'[t])
      /\ \A t \in Requests : tokens[t] = None /\ tokens'[t] # None => t = r /\ IssueToken(r)
  BY KeepFact, ShapeStep
<1>2. proofs[r] = None /\ tokens[r] = None
  BY ReadsFact, WritesFact DEF Fresh, Bought
<1>3. Start(r) \/ Same(rq'[r], rq[r])
  BY ReadsFact, WritesFact
<1>4. \A s \in Requests : rq[s].kind = "token" => rq[s].credential \in Requests /\ proofs[rq[s].credential] # None
  BY DEF Shape, Control, Presented
<1>5. tokens'[r] # None => IssueToken(r) /\ rq[r].pc = "mint"
  BY <1>1, <1>2 DEF IssueToken
<1>6. rq'[r].kind = "token" /\ rq'[r].pc = "mint" => ConsumeProof(r)
  <2>1. CASE Writes(r)
    <3>1. DisableTokens(r) => rq[r].kind = "rotate"
      BY DEF DisableTokens, Shape, Control
    <3>2. Same(rq'[r], rq[r]) /\ (rq'[r].pc = "mint" => ConsumeProof(r) \/ DisableTokens(r))
      BY <2>1, WritesFact
    <3>. QED BY <3>1, <3>2 DEF Same
  <2>2. CASE Start(r)
    BY <2>2, StartFact DEF First, Kinds
  <2>3. CASE ReadLimit(r) \/ FindProof(r) \/ Authenticate(r) \/ Fail(r)
    BY <2>3, ReadsLead
  <2>. QED BY <2>1, <2>2, <2>3 DEF Reads
<1>7. rq'[r].kind = "token" /\ rq'[r].pc = "consume" =>
        FindProof(r) /\ IsPresentable(proofs[rq[r].credential], rq[r])
  <2>1. CASE Writes(r)
    BY <2>1, WritesFact
  <2>2. CASE Start(r)
    BY <2>2, StartFact DEF First, Kinds
  <2>3. CASE ReadLimit(r) \/ FindProof(r) \/ Authenticate(r) \/ Fail(r)
    BY <2>3, ReadsLead
  <2>. QED BY <2>1, <2>2, <2>3 DEF Reads
<1>8. Bought(r)' => \/ rq[r].pc = "mint" /\ rq[r].kind = "token" /\ IssueToken(r) /\ Same(rq'[r], rq[r])
                    \/ ConsumeProof(r) /\ Same(rq'[r], rq[r])
  <2>1. IssueToken(r) => Same(rq'[r], rq[r])
    BY WritesFact DEF Writes
  <2>2. ConsumeProof(r) => Same(rq'[r], rq[r])
    BY WritesFact DEF Writes
  <2>. QED BY <1>5, <1>6, <2>1, <2>2 DEF Bought, Same
<1>9. \A s \in Requests : s # r => (Bought(s)' <=> Bought(s)) /\ (Found(s)' <=> Found(s))
  BY <1>1 DEF Bought, Found, KeepsToken
<1>10. \A s \in Requests : s # r /\ Bought(s) =>
        /\ proofs'[rq'[s].credential].used /\ rq'[s].credential \in Requests
        /\ rq'[s].credential = rq[s].credential
  BY <1>1, <1>4 DEF Bought, Purchases, KeepsProof
<1>11. ConsumeProof(r) =>
        /\ rq[r].pc = "consume" /\ rq[r].kind = "token" /\ Found(r)
        /\ rq'[r].pc = "mint" => ~proofs[rq[r].credential].used
        /\ proofs'[rq[r].credential].used
  <2>1. ConsumeProof(r) => rq[r].pc = "consume" /\ rq[r].kind = "token" /\ Found(r)
    BY DEF ConsumeProof, Shape, Control, Found
  <2>2. ConsumeProof(r) => (rq'[r].pc = "mint" => ~proofs[rq[r].credential].used)
    BY DEF ConsumeProof, Goto, TypeOK
  <2>. QED BY <2>1, <2>2, ProofsFact
<1>12. \A s \in Requests : Bought(s)' => proofs'[rq'[s].credential].used
  <2>1. Bought(r)' => proofs'[rq'[r].credential].used
    <3>1. CASE ConsumeProof(r) /\ Same(rq'[r], rq[r])
      BY <1>11, <3>1 DEF Same
    <3>2. CASE rq[r].pc = "mint" /\ rq[r].kind = "token" /\ Same(rq'[r], rq[r])
      <4>1. Bought(r)
        BY <3>2 DEF Bought
      <4>. QED BY <1>1, <1>4, <3>2, <4>1 DEF Purchases, KeepsProof, Same
    <3>. QED BY <1>8, <3>1, <3>2
  <2>. QED BY <1>9, <1>10, <2>1
<1>13. \A s \in Requests : s # r /\ Bought(r)' /\ Bought(s)' => rq'[r].credential # rq'[s].credential
  <2> SUFFICES ASSUME NEW s \in Requests, s # r, Bought(r)', Bought(s)', rq'[r].credential = rq'[s].credential
               PROVE  FALSE
    OBVIOUS
  <2>1. Bought(s) /\ proofs[rq[s].credential].used /\ rq'[s] = rq[s]
    BY <1>1, <1>9 DEF Purchases
  <2>2. CASE rq[r].pc = "mint" /\ rq[r].kind = "token" /\ Same(rq'[r], rq[r])
    <3>1. Bought(r) /\ rq[r].credential = rq[s].credential
      BY <2>1, <2>2 DEF Bought, Same
    <3>. QED BY <2>1, <3>1 DEF Purchases
  <2>3. CASE ConsumeProof(r) /\ Same(rq'[r], rq[r])
    <3>1. rq'[r].pc = "mint"
      BY <1>5, <1>11, <2>3 DEF Bought
    <3>. QED BY <1>11, <2>1, <2>3, <3>1 DEF Same
  <2>. QED BY <1>8, <2>2, <2>3
<1>14. \A s \in Requests : tokens'[s] # None =>
        /\ tokens'[s].install = rq'[s].install
        /\ tokens'[s].proof = IF rq'[s].kind = "token" THEN rq'[s].credential ELSE None
  <2>1. ASSUME NEW s \in Requests, tokens'[s] # None, s # r
        PROVE  /\ tokens'[s].install = rq'[s].install
               /\ tokens'[s].proof = IF rq'[s].kind = "token" THEN rq'[s].credential ELSE None
    BY <1>1, <2>1 DEF KeepsToken, Purchases
  <2>2. ASSUME tokens'[r] # None
        PROVE  /\ tokens'[r].install = rq'[r].install
               /\ tokens'[r].proof = IF rq'[r].kind = "token" THEN rq'[r].credential ELSE None
    <3>1. IssueToken(r) /\ Same(rq'[r], rq[r])
      BY <1>5, <2>2, WritesFact DEF Writes
    <3>. QED BY <3>1, TokensFact DEF Same
  <2>. QED BY <2>1, <2>2
<1>15. \A s \in Requests : Found(s)' \/ Bought(s)' => proofs'[rq'[s].credential].install = rq'[s].install
  <2>1. ASSUME NEW s \in Requests, s # r, Found(s) \/ Bought(s)
        PROVE  proofs'[rq'[s].credential].install = rq'[s].install
    <3>1. rq[s].kind = "token" /\ rq'[s] = rq[s]
      BY <1>1, <2>1 DEF Found, Bought
    <3>. QED BY <1>1, <1>4, <2>1, <3>1 DEF Purchases, KeepsProof
  <2>2. ASSUME Found(r) \/ Bought(r), Same(rq'[r], rq[r])
        PROVE  proofs'[rq'[r].credential].install = rq'[r].install
    <3>1. rq[r].kind = "token"
      BY <2>2 DEF Found, Bought
    <3>. QED BY <1>1, <1>4, <2>2, <3>1 DEF Purchases, KeepsProof, Same
  <2>3. ASSUME FindProof(r), IsPresentable(proofs[rq[r].credential], rq[r])
        PROVE  proofs'[rq'[r].credential].install = rq'[r].install
    <3>1. UNCHANGED proofs /\ Same(rq'[r], rq[r])
      BY <2>3, <1>3, StartFact DEF FindProof, Start
    <3>. QED BY <2>3, <3>1 DEF IsPresentable, Same
  <2>4. Found(r)' \/ Bought(r)' =>
          \/ (Found(r) \/ Bought(r)) /\ Same(rq'[r], rq[r])
          \/ FindProof(r) /\ IsPresentable(proofs[rq[r].credential], rq[r])
    <3>1. ConsumeProof(r) => Found(r) /\ Same(rq'[r], rq[r])
      BY <1>11, WritesFact DEF Writes
    <3>2. rq[r].pc = "mint" /\ rq[r].kind = "token" => Found(r)
      BY DEF Found
    <3>3. Found(r)' => ConsumeProof(r) \/ (FindProof(r) /\ IsPresentable(proofs[rq[r].credential], rq[r]))
      BY <1>6, <1>7 DEF Found
    <3>. QED BY <1>8, <3>1, <3>2, <3>3
  <2>. QED BY <1>9, <2>1, <2>2, <2>3, <2>4
<1>16. \A s, t \in Requests : Bought(s)' /\ Bought(t)' /\ rq'[s].credential = rq'[t].credential => s = t
  BY <1>1, <1>9, <1>13 DEF Purchases
<1>. QED BY <1>12, <1>14, <1>15, <1>16 DEF Purchases

-----------------------------------------------------------------------------
\* What a rotation knows of stays disabled.
LEMMA RotationsStep ==
  ASSUME TypeOK, Shape, Fresh, Rotations, NEW r \in Requests, Reads(r) \/ Writes(r)
  PROVE  Rotations'
<1>1. /\ \A s \in Requests : s # r => rq'[s] = rq[s]
      /\ \A t \in Requests : tokens[t] # None => KeepsToken(tokens[t], tokens'[t])
  BY KeepFact
<1>2. rq \in [Requests -> Request] /\ Control(rq[r]) /\ rq' \in [Requests -> Request]
  BY KeepFact DEF TypeOK, Shape
<1>3. Start(r) \/ Same(rq'[r], rq[r])
  BY ReadsFact, WritesFact
<1>4. SUFFICES ASSUME NEW s \in Requests, rq'[s].kind = "rotate", rq'[s].pc \in {"disable", "mint", "done"},
                      NEW t \in rq'[s].known
               PROVE  /\ tokens'[t] # None /\ tokens'[t].install = rq'[s].install
                      /\ rq'[s].pc # "disable" => tokens'[t].disabled
  BY DEF Rotations
<1>5. t \in Requests
  BY <1>2 DEF Request
<1>6. CASE s # r
  BY <1>1, <1>4, <1>5, <1>6 DEF Rotations, KeepsToken
<1>7. CASE s = r /\ Reads(r)
  <2>1. Authenticate(r)
    BY <1>4, <1>7, ReadsLead, StartFact DEF Reads, First, Kinds
  <2>2. rq'[r].pc = "disable"
    BY <1>4, <1>7, <2>1, ReadsLead
  <2>3. rq'[r].known = OfInstall(rq[r].install)
    BY <1>2, <2>1 DEF Authenticate, Request
  <2>4. UNCHANGED tokens /\ Same(rq'[r], rq[r])
    BY <2>1, <1>3, StartFact DEF Authenticate
  <2>. QED BY <1>4, <1>5, <1>7, <2>2, <2>3, <2>4 DEF OfInstall, Same
<1>8. CASE s = r /\ Writes(r)
  <2>1. Same(rq'[r], rq[r]) /\ rq'[r].known = rq[r].known /\ rq'[r].pc # "disable"
    BY <1>8, WritesFact
  <2>2. CASE DisableTokens(r)
    <3>1. rq[r].pc = "disable"
      BY <2>2 DEF DisableTokens
    <3>2. tokens[t] # None /\ tokens[t].install = rq[r].install
      BY <1>4, <1>8, <2>1, <3>1 DEF Rotations, Same
    <3>3. t \in OfInstall(rq[r].install)
      BY <1>5, <3>2 DEF OfInstall
    <3>. QED BY <1>1, <1>5, <1>8, <2>1, <2>2, <3>2, <3>3, TokensFact DEF KeepsToken, Same
  <2>3. CASE IssueToken(r)
    <3>1. rq[r].pc = "mint"
      BY <2>3 DEF IssueToken
    <3>2. tokens[t] # None /\ tokens[t].install = rq[r].install /\ tokens[t].disabled
      BY <1>4, <1>8, <2>1, <3>1 DEF Rotations, Same
    <3>. QED BY <1>1, <1>5, <1>8, <2>1, <3>2 DEF KeepsToken, Same
  <2>4. DisableTokens(r) \/ IssueToken(r)
    <3>1. ~IssueProof(r) /\ ~ConsumeProof(r) /\ ~RevokeToken(r)
      BY <1>2, <1>4, <1>8, <2>1 DEF IssueProof, ConsumeProof, RevokeToken, Control, Same
    <3>. QED BY <1>4, <1>8, <3>1, WritesFact
  <2>. QED BY <2>2, <2>3, <2>4
<1>. QED BY <1>6, <1>7, <1>8

-----------------------------------------------------------------------------
LEMMA InitIInv == Init => IInv
<1> SUFFICES ASSUME Init PROVE IInv
  OBVIOUS
<1>1. Idle \in Request
  <2>1. Idle.install \in Installs /\ Idle.device \in Devices /\ Idle.ip \in Ips
    BY RequestAssumption DEF Idle
  <2>2. <<>> \in Seq(Subjects)
    OBVIOUS
  <2>. QED BY <2>1, <2>2 DEF Idle, Request
<1>2. TypeOK
  BY <1>1 DEF Init, TypeOK
<1>3. \A r \in Requests : proofs[r] = None /\ tokens[r] = None /\ rq[r].pc = "idle" /\ rq[r].kind = None
  BY DEF Init, Idle
<1>4. None \notin Kinds
  BY NoneAssumption
<1>5. Shape
  BY <1>3, <1>4 DEF Shape, Control, Presented, Kinds
<1>6. Fresh /\ Purchases /\ Rotations
  BY <1>3, <1>4 DEF Fresh, Purchases, Rotations, Found, Bought, Kinds
<1>. QED BY <1>2, <1>5, <1>6 DEF IInv

LEMMA NextIInv == IInv /\ [Next]_vars => IInv'
<1> SUFFICES ASSUME IInv, [Next]_vars PROVE IInv'
  OBVIOUS
<1>1. ASSUME NEW r \in Requests, Reads(r) \/ Writes(r) PROVE IInv'
  BY <1>1, KeepFact, ShapeStep, FreshStep, PurchasesStep, RotationsStep DEF IInv
<1>2. CASE Tick \/ UNCHANGED vars
  <2>1. UNCHANGED <<proofs, tokens, limits, rq>> /\ now' \in Nat
    BY <1>2 DEF Tick, vars, IInv, TypeOK
  <2>2. TypeOK'
    BY <2>1 DEF IInv, TypeOK
  <2>3. Shape' /\ Fresh'
    BY <2>1 DEF IInv, Shape, Fresh, Control, Presented, KeyOf
  <2>4. Purchases' /\ Rotations'
    BY <2>1 DEF IInv, Purchases, Rotations, Found, Bought
  <2>. QED BY <2>2, <2>3, <2>4 DEF IInv
<1>3. Next => Tick \/ \E r \in Requests : Reads(r) \/ Writes(r)
  BY DEF Next, Reads, Writes
<1>. QED BY <1>1, <1>2, <1>3

\* A bought proof was used by its buyer alone, and what a rotation knew of is
\* disabled when it mints.
LEMMA IInvImplies == IInv => OneLiveToken
<1> SUFFICES ASSUME IInv PROVE OneTokenPerProof /\ RotationSupersedes
  BY DEF OneLiveToken
<1>1. RotationSupersedes
  BY DEF IInv, Rotations, RotationSupersedes
<1>2. ASSUME NEW t \in Requests, tokens[t] # None, tokens[t].proof # None
      PROVE  /\ Bought(t) /\ rq[t].credential = tokens[t].proof
             /\ proofs[tokens[t].proof] # None /\ proofs[tokens[t].proof].install = tokens[t].install
  <2>1. rq[t].kind = "token" /\ rq[t].credential = tokens[t].proof /\ tokens[t].install = rq[t].install
    BY <1>2 DEF IInv, Purchases
  <2>2. Bought(t)
    BY <1>2, <2>1 DEF Bought
  <2>. QED BY <2>1, <2>2 DEF IInv, Purchases, Shape, Presented
<1>3. OneTokenPerProof
  <2> SUFFICES ASSUME NEW t \in Requests, tokens[t] # None, tokens[t].proof # None
               PROVE  LET p == tokens[t].proof
                      IN /\ proofs[p] # None /\ proofs[p].install = tokens[t].install
                         /\ \A u \in Requests : tokens[u] # None /\ tokens[u].proof = p => u = t
    BY DEF OneTokenPerProof
  <2>1. Bought(t) /\ rq[t].credential = tokens[t].proof
    BY <1>2
  <2>2. ASSUME NEW u \in Requests, tokens[u] # None, tokens[u].proof = tokens[t].proof PROVE u = t
    <3>1. Bought(u) /\ rq[u].credential = tokens[u].proof
      BY <1>2, <2>2
    <3>. QED BY <2>1, <2>2, <3>1 DEF IInv, Purchases
  <2>. QED BY <1>2, <2>2
<1>. QED BY <1>1, <1>3

\* The tables and the requests have their shape in every instance of the relay.
THEOREM TypeCorrect == Spec => []TypeOK
<1>1. IInv => TypeOK
  BY DEF IInv
<1>. QED BY <1>1, InitIInv, NextIInv, PTL DEF Spec

\* One proof buys one token, of its install, and a rotation leaves none of the
\* tokens it knew of active (consumeBootstrapProof, rotateInstallToken).
THEOREM OneTokenLives == Spec => []OneLiveToken
<1>. QED BY InitIInv, NextIInv, IInvImplies, PTL DEF Spec

-----------------------------------------------------------------------------
(***************************************************************************)
(* Pushes.                                                                 *)
(***************************************************************************)
PushTypes ==
  /\ rows \in [P!Keys -> P!Row \cup {None}] /\ events \in [Pushes -> P!Event \cup {None}]
  /\ details \in [Pushes -> [P!Failures -> Nat]] /\ pushes \in [Pushes -> P!Request]

\* The failures a request counted are those it was answered, and what it
\* audits is of all it tried.
CountAt(r) ==
  LET q == pushes[r]
  IN /\ q.pc # "idle" => q.ask \in P!Ask
     /\ DOMAIN q.sent \subseteq q.matched
     /\ q.pc \in {"idle", "auth", "write", "find", "read"} => q.matched = {}
     /\ q.pc \in {"send", "mark"} => q.left = q.matched \ DOMAIN q.sent
     /\ q.pc = "mark" => q.key \in DOMAIN q.sent
     /\ q.pc = "audit" => DOMAIN q.sent = q.matched
     /\ \A f \in P!Failures : q.failures[f] = Cardinality(P!Answered(r, f))

Went(r) == {k \in pushes[r].matched : pushes[r].sent[k] = "ok"}

WrittenAt(r) ==
  LET q == pushes[r]
  IN /\ q.pc = "detail" => events[r] # None
     /\ events[r] # None =>
          /\ q.pc \in {"detail", "ended", "failed"} /\ DOMAIN q.sent = q.matched
          /\ events[r].target = Cardinality(q.matched) /\ events[r].target = events[r].success + events[r].error
          /\ events[r].success = Cardinality(Went(r))
     /\ events[r] = None => \A f \in P!Failures : details[r][f] = 0
     /\ \A f \in P!Failures : details[r][f] \in {0, q.failures[f]}
     /\ q.pc = "detail" => \A f \in P!Failures \ q.left : details[r][f] = q.failures[f]
     /\ q.pc = "ended" /\ events[r] # None => \A f \in P!Failures : details[r][f] = q.failures[f]

ReportAt(r) ==
  LET report == pushes[r].report
  IN /\ \A e \in DOMAIN report.relay : report.relay[e].target = report.relay[e].success + report.relay[e].error
     /\ \A e \in DOMAIN report.reasons : e \in Pushes /\
          \A f \in P!Failures : report.reasons[e][f] \in Nat /\ report.reasons[e][f] <= pushes[e].failures[f]

\* APNs gave that answer for the token of this row, to some event.
Cause(k, outcome) == \E r \in Pushes : k \in DOMAIN pushes[r].sent /\ pushes[r].sent[k] = outcome
RowAt(k) == rows[k] # None =>
  /\ rows[k].invalid => Cause(k, "unregistered")
  /\ rows[k].error # None /\ ~rows[k].invalid => Cause(k, rows[k].error)

PushInv ==
  PushTypes /\ (\A r \in Pushes : CountAt(r) /\ WrittenAt(r) /\ ReportAt(r)) /\ \A k \in P!Keys : RowAt(k)

LEMMA PushSizes ==
  ASSUME NEW S
  PROVE  P!Cardinality(S) = Cardinality(S) /\ (P!IsFiniteSet(S) <=> IsFiniteSet(S))
BY DEF P!Cardinality, Cardinality, P!IsFiniteSet, IsFiniteSet

LEMMA KeysAreFinite == ASSUME P!DeliveryAssumption PROVE IsFiniteSet(P!Keys)
BY PushSizes, FS_Product DEF P!DeliveryAssumption, P!Keys

Sents == UNION {[K -> P!Outcomes] : K \in SUBSET P!Keys}
PushType ==
  [pc : {"idle", "auth", "write", "find", "send", "mark", "audit", "detail", "read", "ended", "failed"},
   ask : P!Ask \cup {None}, matched : SUBSET P!Keys, left : SUBSET (P!Keys \cup P!Failures \cup P!Summaries),
   sent : Sents, key : P!Keys \cup {None}, failures : [P!Failures -> Nat], report : P!Report]

LEMMA RequestType == P!Request = PushType
BY DEF P!Request, PushType, Sents

LEMMA SentFacts ==
  ASSUME NEW sent_ \in Sents
  PROVE  DOMAIN sent_ \subseteq P!Keys /\ \A k \in DOMAIN sent_ : sent_[k] \in P!Outcomes
<1>1. PICK K \in SUBSET P!Keys : sent_ \in [K -> P!Outcomes]
  BY DEF Sents
<1> QED BY <1>1

LEMMA PushFacts ==
  ASSUME PushInv, NEW r \in Pushes
  PROVE  /\ PushTypes /\ CountAt(r) /\ WrittenAt(r) /\ ReportAt(r) /\ pushes[r] \in PushType
         /\ pushes \in [Pushes -> PushType]
         /\ DOMAIN pushes[r].sent \subseteq P!Keys /\ \A k \in DOMAIN pushes[r].sent : pushes[r].sent[k] \in P!Outcomes
<1>1. PushTypes /\ CountAt(r) /\ WrittenAt(r) /\ ReportAt(r)
  BY DEF PushInv
<1>2. pushes \in [Pushes -> PushType]
  BY <1>1, RequestType DEF PushTypes
<1>3. pushes[r].sent \in Sents
  BY <1>2 DEF PushType
<1> QED BY <1>1, <1>2, <1>3, SentFacts

LEMMA PushStarts == ASSUME P!DeliveryAssumption, P!Init PROVE PushInv
<1>1. P!Idle \in PushType
  <2>1. [k \in {} |-> None] \in Sents
    <3>1. [k \in {} |-> None] \in [{} -> P!Outcomes] /\ {} \in SUBSET P!Keys
      OBVIOUS
    <3> QED BY <3>1 DEF Sents
  <2>2. [f \in P!Failures |-> 0] \in [P!Failures -> Nat]
    OBVIOUS
  <2>3. [total |-> 0, active |-> 0, relay |-> [e \in {} |-> None], reasons |-> [e \in {} |-> None]] \in P!Report
    <3>1. [e \in {} |-> None] \in UNION {[R -> P!Event] : R \in SUBSET Pushes}
      <4>1. [e \in {} |-> None] \in [{} -> P!Event] /\ {} \in SUBSET Pushes
        OBVIOUS
      <4> QED BY <4>1
    <3>2. [e \in {} |-> None] \in UNION {[R -> [P!Failures -> Nat]] : R \in SUBSET Pushes}
      <4>1. [e \in {} |-> None] \in [{} -> [P!Failures -> Nat]] /\ {} \in SUBSET Pushes
        OBVIOUS
      <4> QED BY <4>1
    <3> QED BY <3>1, <3>2 DEF P!Report
  <2> QED BY <2>1, <2>2, <2>3 DEF P!Idle, PushType
<1>2. PushTypes
  BY <1>1, RequestType DEF P!Init, PushTypes
<1>3. ASSUME NEW r \in Pushes PROVE CountAt(r) /\ WrittenAt(r) /\ ReportAt(r)
  <2>1. pushes[r] = P!Idle /\ events[r] = None /\ \A f \in P!Failures : details[r][f] = 0
    BY <1>3 DEF P!Init
  <2>2. \A f \in P!Failures : P!Answered(r, f) = {}
    BY <2>1 DEF P!Answered, P!Idle
  <2>3. CountAt(r)
    <3>1. /\ pushes[r].pc = "idle" /\ DOMAIN pushes[r].sent = {} /\ pushes[r].matched = {}
          /\ \A f \in P!Failures : pushes[r].failures[f] = 0
      BY <2>1 DEF P!Idle
    <3>2. Cardinality({}) = 0
      BY FS_EmptySet
    <3> QED BY <2>2, <3>1, <3>2 DEF CountAt
  <2>4. WrittenAt(r)
    BY <2>1 DEF WrittenAt, P!Idle
  <2>5. ReportAt(r)
    BY <2>1 DEF ReportAt, P!Idle
  <2> QED BY <2>3, <2>4, <2>5
<1>4. \A k \in P!Keys : RowAt(k)
  BY DEF P!Init, RowAt
<1> QED BY <1>2, <1>3, <1>4 DEF PushInv

\* A step of one request: what it sent and what it counted only grow.
Grows(r, n) ==
  /\ \A f \in P!Failures : n.failures[f] >= pushes[r].failures[f]
  /\ \A k \in DOMAIN pushes[r].sent : k \in DOMAIN n.sent /\ n.sent[k] = pushes[r].sent[k]

LEMMA CauseStays ==
  ASSUME PushInv, NEW r \in Pushes, NEW n, pushes' = [pushes EXCEPT ![r] = n], Grows(r, n),
         NEW k, NEW outcome, Cause(k, outcome)
  PROVE  Cause(k, outcome)'
<1>1. pushes'[r] = n /\ \A x \in Pushes : x # r => pushes'[x] = pushes[x]
  BY DEF PushInv, PushTypes
<1> QED BY <1>1 DEF Cause, Grows

LEMMA PushKeeps ==
  ASSUME P!DeliveryAssumption, PushInv, NEW r \in Pushes, NEW n \in PushType, pushes' = [pushes EXCEPT ![r] = n],
         rows' \in [P!Keys -> P!Row \cup {None}], events' \in [Pushes -> P!Event \cup {None}],
         details' \in [Pushes -> [P!Failures -> Nat]], Grows(r, n),
         \A x \in Pushes : x # r => events'[x] = events[x] /\ details'[x] = details[x],
         CountAt(r)', WrittenAt(r)', n.report = pushes[r].report \/ ReportAt(r)',
         \A k \in P!Keys : RowAt(k)'
  PROVE  PushInv'
<1>1. /\ pushes \in [Pushes -> PushType] /\ pushes'[r] = n /\ \A x \in Pushes : x # r => pushes'[x] = pushes[x]
  BY PushFacts
<1>2. PushTypes'
  BY <1>1, RequestType DEF PushTypes
<1>3. \A x \in Pushes, f \in P!Failures : /\ pushes[x].failures[f] \in Nat /\ pushes'[x].failures[f] \in Nat
                                        /\ pushes'[x].failures[f] >= pushes[x].failures[f]
  <2>1. \A x \in Pushes, f \in P!Failures : pushes[x].failures[f] \in Nat /\ n.failures[f] \in Nat
    BY <1>1 DEF PushType
  <2> QED BY <1>1, <2>1 DEF Grows
<1>4. ASSUME NEW x \in Pushes, pushes'[x].report = pushes[x].report PROVE ReportAt(x)'
  <2>1. ReportAt(x)
    BY DEF PushInv
  <2> QED BY <1>3, <1>4, <2>1 DEF ReportAt
<1>5. ASSUME NEW x \in Pushes, x # r PROVE CountAt(x)' /\ WrittenAt(x)' /\ ReportAt(x)'
  <2>1. CountAt(x) /\ WrittenAt(x)
    BY DEF PushInv
  <2>2. pushes'[x] = pushes[x] /\ events'[x] = events[x] /\ details'[x] = details[x]
    BY <1>1, <1>5
  <2>3. \A f : P!Answered(x, f)' = P!Answered(x, f)
    BY <2>2 DEF P!Answered
  <2>4. CountAt(x)'
    BY <2>1, <2>2, <2>3 DEF CountAt
  <2>5. WrittenAt(x)'
    <3>1. Went(x)' = Went(x)
      BY <2>2 DEF Went
    <3> QED BY <2>1, <2>2, <3>1 DEF WrittenAt
  <2> QED BY <1>4, <2>2, <2>4, <2>5
<1>6. ReportAt(r)'
  BY <1>1, <1>4
<1> QED BY <1>2, <1>5, <1>6 DEF PushInv

\* A step that sends nothing and counts nothing.
LEMMA QuietKeeps ==
  ASSUME P!DeliveryAssumption, PushInv, NEW r \in Pushes, NEW n \in PushType, pushes' = [pushes EXCEPT ![r] = n],
         n.sent = pushes[r].sent, n.failures = pushes[r].failures
  PROVE  /\ pushes'[r] = n /\ Grows(r, n) /\ \A f : P!Answered(r, f)' = P!Answered(r, f)
         /\ rows' = rows => \A k \in P!Keys : RowAt(k)'
<1>1. pushes'[r] = n
  BY PushFacts
<1>2. Grows(r, n)
  <2>1. \A f \in P!Failures : n.failures[f] \in Nat
    BY DEF PushType
  <2> QED BY <2>1 DEF Grows
<1>3. \A f : P!Answered(r, f)' = P!Answered(r, f)
  BY <1>1 DEF P!Answered
<1>4. \A k, outcome : Cause(k, outcome) => Cause(k, outcome)'
  BY <1>2, CauseStays
<1> QED BY <1>1, <1>2, <1>3, <1>4 DEF PushInv, RowAt

\* A step of a request that has audited nothing, and changes no table.
LEMMA EarlyKeeps ==
  ASSUME P!DeliveryAssumption, PushInv, NEW r \in Pushes, NEW n \in PushType, pushes' = [pushes EXCEPT ![r] = n],
         n.sent = pushes[r].sent, n.failures = pushes[r].failures, n.report = pushes[r].report \/ ReportAt(r)',
         UNCHANGED <<rows, events, details>>, events[r] = None, n.pc \notin {"idle", "detail"},
         n.ask \in P!Ask, DOMAIN n.sent \subseteq n.matched,
         n.pc \in {"auth", "write", "find", "read"} => n.matched = {},
         n.pc \in {"send", "mark"} => n.left = n.matched \ DOMAIN n.sent,
         n.pc = "mark" => n.key \in DOMAIN n.sent, n.pc = "audit" => DOMAIN n.sent = n.matched
  PROVE  PushInv'
<1>1. PushTypes /\ CountAt(r) /\ WrittenAt(r)
  BY PushFacts
<1>2. /\ pushes'[r] = n /\ Grows(r, n) /\ (\A f : P!Answered(r, f)' = P!Answered(r, f))
      /\ \A k \in P!Keys : RowAt(k)'
  BY QuietKeeps
<1>3. CountAt(r)'
  BY <1>1, <1>2 DEF CountAt
<1>4. WrittenAt(r)'
  BY <1>1, <1>2 DEF WrittenAt
<1> QED BY <1>1, <1>2, <1>3, <1>4, PushKeeps DEF PushTypes

LEMMA StartKeeps == ASSUME P!DeliveryAssumption, PushInv, NEW r \in Pushes, P!Start(r) PROVE PushInv'
<1>1. /\ CountAt(r) /\ WrittenAt(r) /\ pushes[r] \in PushType /\ pushes \in [Pushes -> PushType]
  BY PushFacts
<1>2. PICK a \in PushAsks[r] : pushes' = [pushes EXCEPT ![r].ask = a,
       ![r].pc = IF a.kind = "report" THEN "read" ELSE "auth",
       ![r].left = IF a.kind = "report" THEN P!Summaries ELSE {}]
  BY DEF P!Start
<1> DEFINE pc == IF a.kind = "report" THEN "read" ELSE "auth"
           left == IF a.kind = "report" THEN P!Summaries ELSE {}
           n == [pushes[r] EXCEPT !.ask = a, !.pc = pc, !.left = left]
<1>3. a \in P!Ask
  BY DEF P!DeliveryAssumption
<1>4. pc \in {"auth", "read"} /\ left \in SUBSET (P!Keys \cup P!Failures \cup P!Summaries)
  OBVIOUS
<1>5. pushes' = [pushes EXCEPT ![r] = n]
  BY <1>1, <1>2
<1> HIDE DEF pc, left
<1>6. /\ n \in PushType /\ n.pc = pc /\ n.ask = a /\ n.matched = pushes[r].matched /\ n.sent = pushes[r].sent
      /\ n.failures = pushes[r].failures /\ n.report = pushes[r].report
  BY <1>1, <1>3, <1>4 DEF PushType
<1> HIDE DEF n
<1>7. pushes[r].pc = "idle" /\ UNCHANGED <<rows, events, details>>
  BY DEF P!Start
<1>8. events[r] = None /\ n.matched = {} /\ DOMAIN n.sent \subseteq n.matched
  BY <1>1, <1>6, <1>7 DEF CountAt, WrittenAt
<1> QED BY <1>3, <1>4, <1>5, <1>6, <1>7, <1>8, EarlyKeeps

LEMMA AuthenticateKeeps == ASSUME P!DeliveryAssumption, PushInv, NEW r \in Pushes, P!Authenticate(r) PROVE PushInv'
<1>1. /\ CountAt(r) /\ WrittenAt(r) /\ pushes[r] \in PushType /\ pushes \in [Pushes -> PushType]
  BY PushFacts
<1>2. PICK pc \in {"failed", "find", "write"} : pushes' = [pushes EXCEPT ![r].pc = pc]
  BY DEF P!Authenticate, P!Goto
<1> DEFINE n == [pushes[r] EXCEPT !.pc = pc]
<1>3. pushes' = [pushes EXCEPT ![r] = n]
  BY <1>1, <1>2
<1>4. /\ n \in PushType /\ n.pc = pc /\ n.ask = pushes[r].ask /\ n.matched = pushes[r].matched
      /\ n.sent = pushes[r].sent /\ n.failures = pushes[r].failures /\ n.report = pushes[r].report
  BY <1>1 DEF PushType
<1> HIDE DEF n
<1>5. pushes[r].pc = "auth" /\ UNCHANGED <<rows, events, details>>
  BY DEF P!Authenticate
<1>6. events[r] = None /\ n.matched = {} /\ DOMAIN n.sent \subseteq n.matched /\ n.ask \in P!Ask
  BY <1>1, <1>4, <1>5 DEF CountAt, WrittenAt
<1> QED BY <1>3, <1>4, <1>5, <1>6, EarlyKeeps

LEMMA FindKeeps == ASSUME P!DeliveryAssumption, PushInv, NEW r \in Pushes, P!Find(r) PROVE PushInv'
<1>1. /\ CountAt(r) /\ WrittenAt(r) /\ pushes[r] \in PushType /\ pushes \in [Pushes -> PushType]
  BY PushFacts
<1>2. PICK matched \in SUBSET P!Keys :
        pushes' = [pushes EXCEPT ![r].pc = IF matched = {} THEN "audit" ELSE "send",
                                 ![r].matched = matched, ![r].left = matched]
  BY DEF P!Find
<1> DEFINE pc == IF matched = {} THEN "audit" ELSE "send"
           n == [pushes[r] EXCEPT !.pc = pc, !.matched = matched, !.left = matched]
<1>3. pushes' = [pushes EXCEPT ![r] = n]
  BY <1>1, <1>2
<1>4. pc \in {"audit", "send"} /\ (pc = "audit" => matched = {})
  OBVIOUS
<1> HIDE DEF pc
<1>5. /\ n \in PushType /\ n.pc = pc /\ n.ask = pushes[r].ask /\ n.matched = matched /\ n.left = matched
      /\ n.sent = pushes[r].sent /\ n.failures = pushes[r].failures /\ n.report = pushes[r].report
  BY <1>1, <1>4 DEF PushType
<1> HIDE DEF n
<1>6. pushes[r].pc = "find" /\ UNCHANGED <<rows, events, details>>
  BY DEF P!Find
<1>7. events[r] = None /\ DOMAIN n.sent = {} /\ n.ask \in P!Ask
  BY <1>1, <1>5, <1>6 DEF CountAt, WrittenAt
<1> QED BY <1>3, <1>4, <1>5, <1>6, <1>7, EarlyKeeps

\* A row is written: what it says was answered before.
LEMMA RegisterKeeps ==
  ASSUME P!DeliveryAssumption, PushInv, NEW r \in Pushes, P!Register(r) \/ P!Unregister(r)
  PROVE  PushInv'
<1>1. /\ CountAt(r) /\ WrittenAt(r) /\ pushes[r] \in PushType /\ pushes \in [Pushes -> PushType] /\ PushTypes
  BY PushFacts
<1> DEFINE n == [pushes[r] EXCEPT !.pc = "ended"]
<1>2. /\ pushes' = [pushes EXCEPT ![r].pc = "ended"] /\ pushes[r].pc = "write" /\ UNCHANGED <<events, details>>
  BY DEF P!Register, P!Unregister, P!Goto
<1>3. pushes' = [pushes EXCEPT ![r] = n]
  BY <1>1, <1>2
<1>4. /\ n \in PushType /\ n.pc = "ended" /\ n.ask = pushes[r].ask /\ n.matched = pushes[r].matched
      /\ n.sent = pushes[r].sent /\ n.failures = pushes[r].failures /\ n.report = pushes[r].report
  BY <1>1 DEF PushType
<1> HIDE DEF n
<1>5. pushes[r].ask \in P!Ask /\ events[r] = None /\ DOMAIN n.sent \subseteq n.matched
  BY <1>1, <1>2, <1>4 DEF CountAt, WrittenAt
<1>6. pushes'[r] = n /\ Grows(r, n) /\ \A f : P!Answered(r, f)' = P!Answered(r, f)
  BY <1>3, <1>4, QuietKeeps
<1>7. rows' \in [P!Keys -> P!Row \cup {None}] /\
      \A k \in P!Keys : rows'[k] # None => \/ ~rows'[k].invalid /\ rows'[k].error = None
                                           \/ /\ rows[k] # None /\ rows'[k].invalid = rows[k].invalid
                                              /\ rows'[k].error = rows[k].error
  <2>1. CASE P!Register(r)
    <3> DEFINE row == [user |-> pushes[r].ask.user, disabled |-> FALSE, invalid |-> FALSE, error |-> None]
    <3>1. rows' = [rows EXCEPT ![pushes[r].ask.key] = row]
      BY <2>1 DEF P!Register
    <3>2. row \in P!Row /\ ~row.invalid /\ row.error = None
      BY <1>5 DEF P!Row, P!Ask
    <3> HIDE DEF row
    <3> QED BY <1>1, <3>1, <3>2 DEF PushTypes
  <2>2. CASE P!Unregister(r)
    <3>1. \A k \in P!Keys : rows'[k] = rows[k] \/ (rows[k] # None /\ rows'[k] = [rows[k] EXCEPT !.disabled = TRUE])
      BY <2>2 DEF P!Unregister
    <3>2. DOMAIN rows' = P!Keys /\ rows' = [k \in P!Keys |-> rows'[k]]
      BY <2>2 DEF P!Unregister
    <3>3. \A k \in P!Keys : rows[k] # None => rows[k] \in P!Row
      BY <1>1 DEF PushTypes
    <3>4. \A k \in P!Keys : rows[k] # None =>
            LET row == [rows[k] EXCEPT !.disabled = TRUE]
            IN row \in P!Row /\ row.invalid = rows[k].invalid /\ row.error = rows[k].error
      BY <3>3 DEF P!Row
    <3>5. \A k \in P!Keys : rows'[k] \in P!Row \cup {None}
      BY <3>1, <3>3, <3>4
    <3> QED BY <3>1, <3>2, <3>4, <3>5
  <2> QED BY <2>1, <2>2
<1>8. \A k \in P!Keys : RowAt(k)'
  <2>1. \A k, outcome : Cause(k, outcome) => Cause(k, outcome)'
    BY <1>3, <1>6, CauseStays
  <2>2. \A k \in P!Keys : RowAt(k)
    BY DEF PushInv
  <2> QED BY <1>7, <2>1, <2>2 DEF RowAt
<1>9. CountAt(r)'
  BY <1>1, <1>4, <1>5, <1>6 DEF CountAt
<1>10. WrittenAt(r)'
  BY <1>1, <1>2, <1>4, <1>5, <1>6 DEF WrittenAt
<1> QED BY <1>1, <1>2, <1>3, <1>4, <1>6, <1>7, <1>8, <1>9, <1>10, PushKeeps DEF PushTypes

LEMMA SendKeeps == ASSUME P!DeliveryAssumption, PushInv, NEW r \in Pushes, P!Send(r) PROVE PushInv'
<1>1. /\ CountAt(r) /\ WrittenAt(r) /\ pushes[r] \in PushType /\ pushes \in [Pushes -> PushType] /\ PushTypes
      /\ DOMAIN pushes[r].sent \subseteq P!Keys /\ \A k \in DOMAIN pushes[r].sent : pushes[r].sent[k] \in P!Outcomes
  BY PushFacts
<1>2. pushes[r].pc = "send" /\ UNCHANGED <<rows, events, details>>
  BY DEF P!Send
<1>3. PICK k \in pushes[r].left, outcome \in P!Outcomes :
       pushes' = [pushes EXCEPT ![r].pc = "mark", ![r].key = k, ![r].left = @ \ {k},
         ![r].sent = [x \in DOMAIN @ \cup {k} |-> IF x = k THEN outcome ELSE @[x]],
         ![r].failures = IF outcome = "ok" THEN @ ELSE P!Counted(@, <<ClientOf[k[1]], outcome>>)]
  BY DEF P!Send
<1> DEFINE went == pushes[r].sent
           answers == [x \in DOMAIN went \cup {k} |-> IF x = k THEN outcome ELSE went[x]]
           class == <<ClientOf[k[1]], outcome>>
           old == pushes[r].failures
           counted == IF outcome = "ok" THEN old ELSE P!Counted(old, class)
           left == pushes[r].left \ {k}
           n == [pushes[r] EXCEPT !.pc = "mark", !.key = k, !.left = left, !.sent = answers, !.failures = counted]
<1>4. pushes' = [pushes EXCEPT ![r] = n]
  BY <1>1, <1>3
<1>5. /\ pushes[r].matched \subseteq P!Keys /\ old \in [P!Failures -> Nat] /\ k \in P!Keys
      /\ pushes[r].left = pushes[r].matched \ DOMAIN went /\ k \in pushes[r].matched /\ k \notin DOMAIN went
      /\ DOMAIN went \subseteq pushes[r].matched /\ pushes[r].ask \in P!Ask
  BY <1>1, <1>2 DEF PushType, CountAt
<1>6. outcome # "ok" => class \in P!Failures
  <2>1. k[1] \in Phones
    BY <1>5 DEF P!Keys
  <2> QED BY <2>1 DEF P!Failures, P!DeliveryAssumption
<1>7. /\ counted \in [P!Failures -> Nat]
      /\ \A f \in P!Failures : counted[f] = IF f = class THEN old[f] + 1 ELSE old[f]
  <2>1. CASE outcome = "ok"
    <3>1. class \notin P!Failures
      BY <2>1 DEF P!Failures
    <3> QED BY <1>5, <2>1, <3>1
  <2>2. CASE outcome # "ok"
    <3>1. counted = [old EXCEPT ![class] = old[class] + 1] /\ class \in P!Failures
      BY <1>6, <2>2 DEF P!Counted
    <3> HIDE DEF class
    <3> QED BY <1>5, <3>1
  <2> QED BY <2>1, <2>2
<1>8. /\ DOMAIN answers = DOMAIN went \cup {k} /\ answers[k] = outcome
      /\ \A x \in DOMAIN went : answers[x] = went[x]
  BY <1>5
<1>9. answers \in Sents
  <2>1. answers \in [DOMAIN went \cup {k} -> P!Outcomes] /\ DOMAIN went \cup {k} \in SUBSET P!Keys
    BY <1>1, <1>5
  <2> HIDE DEF answers
  <2> QED BY <2>1 DEF Sents
<1>10. left \in SUBSET (P!Keys \cup P!Failures \cup P!Summaries)
  BY <1>1 DEF PushType
<1> HIDE DEF answers, counted, left
<1>11. /\ n \in PushType /\ n.pc = "mark" /\ n.ask = pushes[r].ask /\ n.matched = pushes[r].matched /\ n.key = k
       /\ n.left = left /\ n.sent = answers /\ n.failures = counted /\ n.report = pushes[r].report
  BY <1>1, <1>5, <1>7, <1>9, <1>10 DEF PushType
<1> HIDE DEF n
<1>12. pushes'[r] = n
  BY <1>1, <1>4
<1>13. Grows(r, n)
  BY <1>5, <1>7, <1>8, <1>11 DEF Grows
<1>14. ASSUME NEW f \in P!Failures PROVE counted[f] = Cardinality(P!Answered(r, f)')
  <2>1. P!Answered(r, f)' = {x \in DOMAIN answers : <<ClientOf[x[1]], answers[x]>> = f}
    BY <1>11, <1>12 DEF P!Answered
  <2>2. P!Answered(r, f)' = IF f = class THEN P!Answered(r, f) \cup {k} ELSE P!Answered(r, f)
    BY <1>5, <1>8, <2>1 DEF P!Answered
  <2>3. old[f] = Cardinality(P!Answered(r, f)) /\ k \notin P!Answered(r, f)
    BY <1>1, <1>5 DEF CountAt, P!Answered
  <2>4. IsFiniteSet(P!Answered(r, f))
    <3>1. P!Answered(r, f) \in SUBSET P!Keys
      BY <1>1 DEF P!Answered
    <3> QED BY <3>1, KeysAreFinite, FS_Subset
  <2>5. Cardinality(P!Answered(r, f) \cup {k}) = Cardinality(P!Answered(r, f)) + 1
    BY <2>3, <2>4, FS_AddElement
  <2> QED BY <1>7, <2>2, <2>3, <2>5
<1>15. CountAt(r)'
  <2>1. n.left = n.matched \ DOMAIN n.sent /\ DOMAIN n.sent \subseteq n.matched /\ n.key \in DOMAIN n.sent
    BY <1>5, <1>8, <1>11 DEF left
  <2> QED BY <1>5, <1>11, <1>12, <1>14, <2>1 DEF CountAt
<1>16. WrittenAt(r)'
  <2>1. events[r] = None /\ \A f \in P!Failures : details[r][f] = 0
    BY <1>1, <1>2 DEF WrittenAt
  <2> QED BY <1>2, <1>11, <1>12, <2>1 DEF WrittenAt
<1>17. \A x \in P!Keys : RowAt(x)'
  <2>1. \A x, y : Cause(x, y) => Cause(x, y)'
    BY <1>4, <1>13, CauseStays
  <2>2. \A x \in P!Keys : RowAt(x)
    BY DEF PushInv
  <2> QED BY <1>2, <2>1, <2>2 DEF RowAt
<1> QED BY <1>1, <1>2, <1>4, <1>11, <1>13, <1>15, <1>16, <1>17, PushKeeps DEF PushTypes

LEMMA MarkKeeps == ASSUME P!DeliveryAssumption, PushInv, NEW r \in Pushes, P!Mark(r) PROVE PushInv'
<1>1. /\ CountAt(r) /\ WrittenAt(r) /\ pushes[r] \in PushType /\ pushes \in [Pushes -> PushType] /\ PushTypes
      /\ DOMAIN pushes[r].sent \subseteq P!Keys /\ \A k \in DOMAIN pushes[r].sent : pushes[r].sent[k] \in P!Outcomes
  BY PushFacts
<1> DEFINE key == pushes[r].key
           outcome == pushes[r].sent[key]
           pc == IF pushes[r].left = {} THEN "audit" ELSE "send"
           n == [pushes[r] EXCEPT !.pc = pc, !.key = None]
           after == CASE outcome = "ok"           -> [rows[key] EXCEPT !.error = None]
                      [] outcome = "unregistered" -> [rows[key] EXCEPT !.error = outcome, !.disabled = TRUE, !.invalid = TRUE]
                      [] OTHER                    -> [rows[key] EXCEPT !.error = outcome]
<1>2. /\ pushes[r].pc = "mark" /\ UNCHANGED <<events, details>>
      /\ rows' = [k \in P!Keys |-> IF rows[k] # None /\ k = key THEN after ELSE rows[k]]
      /\ pushes' = [pushes EXCEPT ![r].pc = pc, ![r].key = None]
  BY DEF P!Mark, P!Marked
<1>3. /\ pushes' = [pushes EXCEPT ![r] = n] /\ pc \in {"audit", "send"} /\ (pc = "audit" => pushes[r].left = {})
  BY <1>1, <1>2
<1> HIDE DEF pc
<1>4. /\ n \in PushType /\ n.pc = pc /\ n.ask = pushes[r].ask /\ n.matched = pushes[r].matched
      /\ n.left = pushes[r].left /\ n.sent = pushes[r].sent /\ n.failures = pushes[r].failures
      /\ n.report = pushes[r].report
  BY <1>1, <1>3 DEF PushType
<1> HIDE DEF n
<1>5. /\ pushes[r].ask \in P!Ask /\ events[r] = None /\ DOMAIN n.sent \subseteq n.matched
      /\ n.left = n.matched \ DOMAIN n.sent /\ key \in DOMAIN pushes[r].sent /\ key \in P!Keys /\ outcome \in P!Outcomes
  BY <1>1, <1>2, <1>4 DEF CountAt, WrittenAt
<1>6. pushes'[r] = n /\ Grows(r, n) /\ \A f : P!Answered(r, f)' = P!Answered(r, f)
  BY <1>3, <1>4, QuietKeeps
<1>7. CountAt(r)'
  BY <1>1, <1>3, <1>4, <1>5, <1>6 DEF CountAt
<1>8. WrittenAt(r)'
  BY <1>1, <1>2, <1>3, <1>4, <1>5, <1>6 DEF WrittenAt
<1>9. ASSUME rows[key] # None
      PROVE  /\ after \in P!Row
             /\ \/ outcome = "ok" /\ after.error = None /\ after.invalid = rows[key].invalid
                \/ outcome = "unregistered" /\ after.invalid
                \/ outcome # "ok" /\ after.error = outcome /\ after.invalid = rows[key].invalid
  <2>1. rows[key] \in P!Row
    BY <1>1, <1>5, <1>9 DEF PushTypes
  <2>2. CASE outcome = "ok"
    BY <2>1, <2>2 DEF P!Row
  <2>3. CASE outcome = "unregistered"
    <3> HIDE DEF outcome
    <3> QED BY <1>5, <2>1, <2>3 DEF P!Row, P!Outcomes
  <2>4. CASE outcome \notin {"ok", "unregistered"}
    <3> HIDE DEF outcome
    <3> QED BY <1>5, <2>1, <2>4 DEF P!Row, P!Outcomes
  <2> QED BY <2>2, <2>3, <2>4
<1> HIDE DEF after
<1>10. rows' \in [P!Keys -> P!Row \cup {None}]
  <2>1. \A k \in P!Keys : (IF rows[k] # None /\ k = key THEN after ELSE rows[k]) \in P!Row \cup {None}
    BY <1>1, <1>9 DEF PushTypes
  <2> QED BY <1>2, <2>1
<1>11. ASSUME NEW k \in P!Keys PROVE RowAt(k)'
  <2>1. \A x, y : Cause(x, y) => Cause(x, y)'
    BY <1>3, <1>6, CauseStays
  <2>2. RowAt(k)
    BY DEF PushInv
  <2>3. CASE rows'[k] = rows[k]
    BY <2>1, <2>2, <2>3 DEF RowAt
  <2>4. CASE rows[k] # None /\ k = key /\ rows'[k] = after
    <3>1. PICK o \in P!Outcomes : o = outcome
      BY <1>5
    <3>2. Cause(k, o)
      BY <1>5, <2>4, <3>1 DEF Cause
    <3>3. Cause(k, o)' /\ (Cause(k, "unregistered") => Cause(k, "unregistered")')
      BY <2>1, <3>2
    <3>4. \/ o = "ok" /\ after.error = None /\ after.invalid = rows[k].invalid
          \/ o = "unregistered" /\ after.invalid
          \/ o # "ok" /\ after.error = o /\ after.invalid = rows[k].invalid
      BY <1>9, <2>4, <3>1
    <3>5. rows[k].invalid => Cause(k, "unregistered")
      BY <2>2, <2>4 DEF RowAt
    <3> HIDE DEF outcome, key
    <3>6. rows'[k].invalid => Cause(k, "unregistered")'
      BY <2>4, <3>3, <3>4, <3>5
    <3>7. rows'[k].error # None /\ ~rows'[k].invalid => rows'[k].error = o
      BY <2>4, <3>4
    <3> QED BY <3>3, <3>6, <3>7 DEF RowAt, Cause
  <2> QED BY <1>2, <2>3, <2>4
<1> QED BY <1>1, <1>2, <1>3, <1>4, <1>6, <1>7, <1>8, <1>10, <1>11, PushKeeps DEF PushTypes

LEMMA AuditKeeps == ASSUME P!DeliveryAssumption, PushInv, NEW r \in Pushes, P!Audit(r) PROVE PushInv'
<1>1. /\ CountAt(r) /\ WrittenAt(r) /\ pushes[r] \in PushType /\ pushes \in [Pushes -> PushType] /\ PushTypes
      /\ pushes[r].matched \subseteq P!Keys /\ pushes[r].failures \in [P!Failures -> Nat]
  BY PushFacts DEF PushType
<1> DEFINE left == {f \in P!Failures : pushes[r].failures[f] > 0}
           pc == IF left = {} THEN "ended" ELSE "detail"
           n == [pushes[r] EXCEPT !.pc = pc, !.left = left]
           ev == [target |-> Cardinality(pushes[r].matched), success |-> Cardinality(P!Accepted(r)),
                  error |-> Cardinality(DOMAIN pushes[r].sent \ P!Accepted(r))]
<1>2. /\ pushes[r].pc = "audit" /\ UNCHANGED <<rows, details>> /\ events' = [events EXCEPT ![r] = ev]
      /\ pushes' = [pushes EXCEPT ![r].pc = pc, ![r].left = left]
  <2>1. \A S : P!Cardinality(S) = Cardinality(S)
    BY PushSizes
  <2> DEFINE told == [target |-> P!Cardinality(pushes[r].matched), success |-> P!Cardinality(P!Accepted(r)),
                      error |-> P!Cardinality(DOMAIN pushes[r].sent \ P!Accepted(r))]
  <2>2. /\ pushes[r].pc = "audit" /\ UNCHANGED <<rows, details>> /\ events' = [events EXCEPT ![r] = told]
        /\ pushes' = [pushes EXCEPT ![r].pc = pc, ![r].left = left]
    BY DEF P!Audit
  <2>3. told = ev
    <3>1. P!Cardinality(pushes[r].matched) = Cardinality(pushes[r].matched)
      BY <2>1
    <3>2. P!Cardinality(P!Accepted(r)) = Cardinality(P!Accepted(r))
      BY <2>1
    <3>3. P!Cardinality(DOMAIN pushes[r].sent \ P!Accepted(r)) = Cardinality(DOMAIN pushes[r].sent \ P!Accepted(r))
      BY <2>1
    <3> QED BY <3>1, <3>2, <3>3
  <2> HIDE DEF told, ev, pc, left
  <2> QED BY <2>2, <2>3
<1>3. /\ pushes' = [pushes EXCEPT ![r] = n] /\ pc \in {"ended", "detail"} /\ (pc = "ended" => left = {})
      /\ left \in SUBSET (P!Keys \cup P!Failures \cup P!Summaries)
  BY <1>1, <1>2
<1>4. \A f \in P!Failures : f \notin left => pushes[r].failures[f] = 0
  BY <1>1
<1> HIDE DEF pc, left
<1>5. /\ n \in PushType /\ n.pc = pc /\ n.ask = pushes[r].ask /\ n.matched = pushes[r].matched
      /\ n.left = left /\ n.sent = pushes[r].sent /\ n.failures = pushes[r].failures
      /\ n.report = pushes[r].report
  BY <1>1, <1>3 DEF PushType
<1> HIDE DEF n
<1>6. /\ pushes[r].ask \in P!Ask /\ DOMAIN n.sent = n.matched /\ events[r] = None
      /\ \A f \in P!Failures : details[r][f] = 0
  BY <1>1, <1>2, <1>5 DEF CountAt, WrittenAt
<1>7. /\ pushes'[r] = n /\ Grows(r, n) /\ (\A f : P!Answered(r, f)' = P!Answered(r, f))
      /\ \A k \in P!Keys : RowAt(k)'
  BY <1>2, <1>3, <1>5, QuietKeeps
<1>8. CountAt(r)'
  BY <1>1, <1>3, <1>5, <1>6, <1>7 DEF CountAt
<1>9. /\ ev.target = Cardinality(n.matched) /\ ev.success = Cardinality(Went(r)') /\ ev.target = ev.success + ev.error
      /\ ev \in P!Event
  <2>1. Went(r)' = P!Accepted(r) /\ DOMAIN pushes[r].sent = pushes[r].matched
    BY <1>5, <1>6, <1>7 DEF Went, P!Accepted
  <2>2. IsFiniteSet(pushes[r].matched)
    BY <1>1, KeysAreFinite, FS_Subset
  <2> DEFINE m == pushes[r].matched
             ok == P!Accepted(r)
  <2>3. ok \subseteq m /\ m \cap ok = ok
    BY <2>1 DEF P!Accepted
  <2>4. /\ IsFiniteSet(ok) /\ IsFiniteSet(m \ ok) /\ Cardinality(m \ ok) = Cardinality(m) - Cardinality(ok)
    <3>1. IsFiniteSet(ok) /\ Cardinality(m \ ok) = Cardinality(m) - Cardinality(m \cap ok)
      <4> HIDE DEF m, ok
      <4>1. IsFiniteSet(m)
        BY <2>2 DEF m
      <4>2. IsFiniteSet(ok)
        BY <2>3, <4>1, FS_Subset
      <4> QED BY <4>1, <4>2, FS_Difference
    <3>2. IsFiniteSet(m \ ok)
      BY <2>2, FS_Difference
    <3> HIDE DEF m, ok
    <3> QED BY <2>3, <3>1, <3>2
  <2>5. Cardinality(m) \in Nat /\ Cardinality(ok) \in Nat /\ Cardinality(m \ ok) \in Nat
    BY <2>2, <2>4, FS_CardinalityType
  <2> QED BY <1>5, <2>1, <2>4, <2>5 DEF P!Event
<1> HIDE DEF ev
<1>10. events' \in [Pushes -> P!Event \cup {None}] /\ events'[r] = ev /\ \A x \in Pushes : x # r => events'[x] = events[x]
  BY <1>1, <1>2, <1>9 DEF PushTypes
<1>11. WrittenAt(r)'
  <2>1. events'[r] # None
    BY <1>9, <1>10 DEF P!DeliveryAssumption
  <2>2. \A f \in P!Failures : details'[r][f] = 0 /\ (f \notin n.left => n.failures[f] = 0)
    BY <1>2, <1>4, <1>5, <1>6
  <2>3. n.pc = "ended" => n.left = {}
    BY <1>3, <1>5
  <2> QED BY <1>3, <1>5, <1>6, <1>7, <1>9, <1>10, <2>1, <2>2, <2>3 DEF WrittenAt
<1> QED BY <1>1, <1>2, <1>3, <1>5, <1>7, <1>8, <1>10, <1>11, PushKeeps DEF PushTypes

LEMMA DetailKeeps == ASSUME P!DeliveryAssumption, PushInv, NEW r \in Pushes, P!Detail(r) PROVE PushInv'
<1>1. /\ CountAt(r) /\ WrittenAt(r) /\ pushes[r] \in PushType /\ pushes \in [Pushes -> PushType] /\ PushTypes
      /\ pushes[r].failures \in [P!Failures -> Nat]
  BY PushFacts DEF PushType
<1>2. /\ pushes[r].pc = "detail" /\ UNCHANGED <<rows, events>>
  BY DEF P!Detail
<1>3. PICK f \in pushes[r].left :
        /\ details' = [details EXCEPT ![r] = [@ EXCEPT ![f] = pushes[r].failures[f]]]
        /\ pushes' = [pushes EXCEPT ![r].pc = IF pushes[r].left = {f} THEN "ended" ELSE "detail", ![r].left = @ \ {f}]
  BY DEF P!Detail
<1> DEFINE left == pushes[r].left \ {f}
           pc == IF pushes[r].left = {f} THEN "ended" ELSE "detail"
           n == [pushes[r] EXCEPT !.pc = pc, !.left = left]
           det == [details[r] EXCEPT ![f] = pushes[r].failures[f]]
<1>4. /\ pushes' = [pushes EXCEPT ![r] = n] /\ pc \in {"ended", "detail"} /\ (pc = "ended" => left = {})
      /\ left \in SUBSET (P!Keys \cup P!Failures \cup P!Summaries)
  <2>1. pushes[r].left \in SUBSET (P!Keys \cup P!Failures \cup P!Summaries)
    BY <1>1 DEF PushType
  <2> QED BY <1>1, <1>3, <2>1
<1>5. details' = [details EXCEPT ![r] = det]
  BY <1>1, <1>3 DEF PushTypes
<1>6. /\ det \in [P!Failures -> Nat]
      /\ \A x \in P!Failures : /\ det[x] \in {0, pushes[r].failures[x]}
                               /\ x \notin left => det[x] = pushes[r].failures[x]
  BY <1>1, <1>2 DEF PushTypes, WrittenAt
<1> HIDE DEF pc, left, det
<1>7. /\ n \in PushType /\ n.pc = pc /\ n.ask = pushes[r].ask /\ n.matched = pushes[r].matched
      /\ n.left = left /\ n.sent = pushes[r].sent /\ n.failures = pushes[r].failures
      /\ n.report = pushes[r].report
  BY <1>1, <1>4 DEF PushType
<1> HIDE DEF n
<1>8. /\ pushes'[r] = n /\ Grows(r, n) /\ (\A x : P!Answered(r, x)' = P!Answered(r, x))
      /\ \A k \in P!Keys : RowAt(k)'
  BY <1>2, <1>4, <1>7, QuietKeeps
<1>9. CountAt(r)'
  BY <1>1, <1>2, <1>4, <1>7, <1>8 DEF CountAt
<1>10. /\ details' \in [Pushes -> [P!Failures -> Nat]] /\ details'[r] = det
       /\ \A x \in Pushes : x # r => details'[x] = details[x]
  BY <1>1, <1>5, <1>6 DEF PushTypes
<1>11. WrittenAt(r)'
  <2>1. Went(r)' = Went(r)
    BY <1>7, <1>8 DEF Went
  <2>2. n.pc = "ended" => n.left = {}
    BY <1>4, <1>7
  <2> QED BY <1>1, <1>2, <1>4, <1>6, <1>7, <1>8, <1>10, <2>1, <2>2 DEF WrittenAt
<1> QED BY <1>1, <1>2, <1>4, <1>7, <1>8, <1>9, <1>10, <1>11, PushKeeps DEF PushTypes

LEMMA FailKeeps == ASSUME P!DeliveryAssumption, PushInv, NEW r \in Pushes, P!Fail(r) PROVE PushInv'
<1>1. /\ CountAt(r) /\ WrittenAt(r) /\ pushes[r] \in PushType /\ pushes \in [Pushes -> PushType] /\ PushTypes
  BY PushFacts
<1> DEFINE n == [pushes[r] EXCEPT !.pc = "failed"]
<1>2. /\ pushes' = [pushes EXCEPT ![r].pc = "failed"] /\ UNCHANGED <<rows, events, details>>
      /\ pushes[r].pc \notin {"idle", "ended", "failed"}
  BY DEF P!Fail, P!Goto
<1>3. pushes' = [pushes EXCEPT ![r] = n]
  BY <1>1, <1>2
<1>4. /\ n \in PushType /\ n.pc = "failed" /\ n.ask = pushes[r].ask /\ n.matched = pushes[r].matched
      /\ n.sent = pushes[r].sent /\ n.failures = pushes[r].failures /\ n.report = pushes[r].report
  BY <1>1 DEF PushType
<1> HIDE DEF n
<1>5. /\ pushes'[r] = n /\ Grows(r, n) /\ (\A x : P!Answered(r, x)' = P!Answered(r, x))
      /\ \A k \in P!Keys : RowAt(k)'
  BY <1>2, <1>3, <1>4, QuietKeeps
<1>6. CountAt(r)'
  BY <1>1, <1>2, <1>4, <1>5 DEF CountAt
<1>7. WrittenAt(r)'
  <2>1. Went(r)' = Went(r)
    BY <1>4, <1>5 DEF Went
  <2> QED BY <1>1, <1>2, <1>4, <1>5, <2>1 DEF WrittenAt
<1> QED BY <1>1, <1>2, <1>3, <1>4, <1>5, <1>6, <1>7, PushKeeps DEF PushTypes

LEMMA SummarizeKeeps == ASSUME P!DeliveryAssumption, PushInv, NEW r \in Pushes, P!Summarize(r) PROVE PushInv'
<1>1. /\ CountAt(r) /\ WrittenAt(r) /\ ReportAt(r) /\ pushes[r] \in PushType /\ pushes \in [Pushes -> PushType] /\ PushTypes
      /\ pushes[r].report \in P!Report
  BY PushFacts DEF PushType
<1> DEFINE present == {k \in P!Keys : rows[k] # None}
           live == {k \in present : P!Active(k)}
           old == pushes[r].report
           counts == [old EXCEPT !.total = Cardinality(present), !.active = Cardinality(live)]
           relay == [e \in P!Audited |-> events[e]]
           reasons == [e \in Pushes |-> details[e]]
           report(s) == CASE s = "rows"  -> counts
                          [] s = "relay" -> [old EXCEPT !.relay = relay]
                          [] OTHER       -> [old EXCEPT !.reasons = reasons]
<1>2. pushes[r].pc = "read" /\ UNCHANGED <<rows, events, details>>
  BY DEF P!Summarize
<1>3. PICK s \in pushes[r].left :
        pushes' = [pushes EXCEPT ![r].left = @ \ {s}, ![r].pc = IF pushes[r].left = {s} THEN "ended" ELSE "read",
            ![r].report =
              CASE s = "rows"  -> [@ EXCEPT !.total = P!Cardinality(present),
                                            !.active = P!Cardinality({k \in present : P!Active(k)})]
                [] s = "relay" -> [@ EXCEPT !.relay = [e \in P!Audited |-> events[e]]]
                [] OTHER       -> [@ EXCEPT !.reasons = [e \in Pushes |-> details[e]]]]
  BY DEF P!Summarize
<1> DEFINE left == pushes[r].left \ {s}
           pc == IF pushes[r].left = {s} THEN "ended" ELSE "read"
           told == report(s)
           n == [pushes[r] EXCEPT !.left = left, !.pc = pc, !.report = told]
<1>4. /\ pushes' = [pushes EXCEPT ![r] = n] /\ pc \in {"ended", "read"}
      /\ left \in SUBSET (P!Keys \cup P!Failures \cup P!Summaries)
  <2>1. pushes[r].left \in SUBSET (P!Keys \cup P!Failures \cup P!Summaries)
    BY <1>1 DEF PushType
  <2>2. P!Cardinality(present) = Cardinality(present) /\ P!Cardinality(live) = Cardinality(live)
    BY PushSizes
  <2> HIDE DEF present
  <2> QED BY <1>1, <1>3, <2>1, <2>2
<1>5. /\ relay \in UNION {[R -> P!Event] : R \in SUBSET Pushes}
      /\ \A e \in DOMAIN relay : relay[e].target = relay[e].success + relay[e].error
  <2>1. relay \in [P!Audited -> P!Event] /\ P!Audited \in SUBSET Pushes
    BY <1>1 DEF P!Audited, PushTypes
  <2>2. \A e \in P!Audited : e \in Pushes /\ events[e] # None
    BY DEF P!Audited
  <2>3. \A e \in P!Audited : WrittenAt(e)
    BY <2>2 DEF PushInv
  <2>4. \A e \in P!Audited : events[e].target = events[e].success + events[e].error
    BY <2>2, <2>3 DEF WrittenAt
  <2> HIDE DEF relay
  <2>5. relay \in UNION {[R -> P!Event] : R \in SUBSET Pushes}
    BY <2>1
  <2> QED BY <2>1, <2>4, <2>5 DEF relay
<1>6. /\ reasons \in UNION {[R -> [P!Failures -> Nat]] : R \in SUBSET Pushes}
      /\ \A e \in DOMAIN reasons : e \in Pushes /\
           \A f \in P!Failures : reasons[e][f] \in Nat /\ reasons[e][f] <= pushes[e].failures[f]
  <2>1. reasons \in [Pushes -> [P!Failures -> Nat]] /\ Pushes \in SUBSET Pushes
    BY <1>1 DEF PushTypes
  <2>2. ASSUME NEW e \in Pushes, NEW f \in P!Failures
        PROVE  reasons[e][f] \in Nat /\ reasons[e][f] <= pushes[e].failures[f]
    <3>1. reasons[e][f] = details[e][f] /\ details[e][f] \in {0, pushes[e].failures[f]}
      BY DEF PushInv, WrittenAt
    <3>2. pushes[e].failures[f] \in Nat
      BY <1>1 DEF PushType
    <3> QED BY <3>1, <3>2
  <2> HIDE DEF reasons
  <2>3. reasons \in UNION {[R -> [P!Failures -> Nat]] : R \in SUBSET Pushes}
    BY <2>1
  <2> QED BY <2>1, <2>2, <2>3
<1>7. Cardinality(present) \in Nat /\ Cardinality(live) \in Nat
  <2>1. present \in SUBSET P!Keys /\ live \in SUBSET P!Keys
    OBVIOUS
  <2> QED BY <2>1, KeysAreFinite, FS_Subset, FS_CardinalityType
<1> HIDE DEF present, live, relay, reasons
<1>8. told \in P!Report /\ told.relay \in {old.relay, relay} /\ told.reasons \in {old.reasons, reasons}
  <2>1. CASE s = "rows"
    BY <1>1, <1>7, <2>1 DEF P!Report
  <2>2. CASE s = "relay"
    BY <1>1, <1>5, <2>2 DEF P!Report
  <2>3. CASE s \notin {"rows", "relay"}
    BY <1>1, <1>6, <2>3 DEF P!Report
  <2> QED BY <2>1, <2>2, <2>3
<1> HIDE DEF told, left, pc
<1>9. /\ n \in PushType /\ n.pc = pc /\ n.ask = pushes[r].ask /\ n.matched = pushes[r].matched
      /\ n.sent = pushes[r].sent /\ n.failures = pushes[r].failures /\ n.report = told
  BY <1>1, <1>4, <1>8 DEF PushType
<1> HIDE DEF n
<1>10. /\ pushes'[r] = n /\ Grows(r, n) /\ (\A x : P!Answered(r, x)' = P!Answered(r, x))
       /\ \A k \in P!Keys : RowAt(k)'
  BY <1>2, <1>4, <1>9, QuietKeeps
<1>11. ReportAt(r)'
  <2>1. \A e \in Pushes : pushes'[e].failures = pushes[e].failures
    BY <1>1, <1>4, <1>9, <1>10
  <2> QED BY <1>1, <1>5, <1>6, <1>8, <1>9, <1>10, <2>1 DEF ReportAt
<1>12. /\ events[r] = None /\ n.ask \in P!Ask /\ n.matched = {} /\ DOMAIN n.sent \subseteq n.matched
  BY <1>1, <1>2, <1>9 DEF CountAt, WrittenAt
<1> QED BY <1>2, <1>4, <1>9, <1>11, <1>12, EarlyKeeps

\* Revoking the token disturbs nothing of this.
LEMMA PushUnchanged == ASSUME PushInv, UNCHANGED <<rows, events, details, pushes>> PROVE PushInv'
<1>1. PushTypes'
  BY DEF PushInv, PushTypes
<1>2. ASSUME NEW r \in Pushes PROVE CountAt(r)' /\ WrittenAt(r)' /\ ReportAt(r)'
  <2>1. CountAt(r) /\ WrittenAt(r) /\ ReportAt(r)
    BY DEF PushInv
  <2>2. (\A f : P!Answered(r, f)' = P!Answered(r, f)) /\ Went(r)' = Went(r)
    BY DEF P!Answered, Went
  <2> QED BY <2>1, <2>2 DEF CountAt, WrittenAt, ReportAt
<1>3. ASSUME NEW k \in P!Keys PROVE RowAt(k)'
  <2>1. \A outcome : Cause(k, outcome)' <=> Cause(k, outcome)
    BY DEF Cause
  <2>2. RowAt(k)
    BY DEF PushInv
  <2> QED BY <2>1, <2>2 DEF RowAt
<1> QED BY <1>1, <1>2, <1>3 DEF PushInv

LEMMA PushStep == ASSUME P!DeliveryAssumption, PushInv, [P!Next]_P!vars PROVE PushInv'
<1>1. CASE P!RevokeToken \/ UNCHANGED P!vars
  BY <1>1, PushUnchanged DEF P!RevokeToken, P!vars
<1>2. CASE \E r \in Pushes : P!Start(r) \/ P!Authenticate(r) \/ P!Find(r)
  BY <1>2, StartKeeps, AuthenticateKeeps, FindKeeps
<1>3. CASE \E r \in Pushes : P!Register(r) \/ P!Unregister(r)
  BY <1>3, RegisterKeeps
<1>4. CASE \E r \in Pushes : P!Send(r) \/ P!Mark(r)
  BY <1>4, SendKeeps, MarkKeeps
<1>5. CASE \E r \in Pushes : P!Audit(r) \/ P!Detail(r)
  BY <1>5, AuditKeeps, DetailKeeps
<1>6. CASE \E r \in Pushes : P!Summarize(r) \/ P!Fail(r)
  BY <1>6, SummarizeKeeps, FailKeeps
<1> QED BY <1>1, <1>2, <1>3, <1>4, <1>5, <1>6 DEF P!Next

LEMMA PushEnough == ASSUME P!DeliveryAssumption, PushInv PROVE P!ReportTruthful
<1>1. \A S : P!Cardinality(S) = Cardinality(S)
  BY PushSizes
<1>2. ASSUME NEW r \in P!Audited
      PROVE  /\ DOMAIN pushes[r].sent = pushes[r].matched
             /\ events[r].target = P!Cardinality(pushes[r].matched)
             /\ events[r].target = events[r].success + events[r].error
             /\ events[r].success = P!Cardinality({k \in pushes[r].matched : pushes[r].sent[k] = "ok"})
  <2>1. r \in Pushes /\ events[r] # None
    BY DEF P!Audited
  <2>2. WrittenAt(r)
    BY <2>1 DEF PushInv
  <2>3. Went(r) = {k \in pushes[r].matched : pushes[r].sent[k] = "ok"}
    BY DEF Went
  <2>4. /\ P!Cardinality(pushes[r].matched) = Cardinality(pushes[r].matched)
        /\ P!Cardinality(Went(r)) = Cardinality(Went(r))
    BY <1>1
  <2> QED BY <2>1, <2>2, <2>3, <2>4 DEF WrittenAt
<1>3. ASSUME NEW r \in Pushes, NEW f \in P!Failures
      PROVE  pushes[r].failures[f] = P!Cardinality(P!Answered(r, f))
  <2>1. P!Cardinality(P!Answered(r, f)) = Cardinality(P!Answered(r, f))
    BY <1>1
  <2> QED BY <2>1 DEF PushInv, CountAt
<1>4. ASSUME NEW r \in P!Audited, NEW f \in P!Failures
      PROVE  details[r][f] = P!Cardinality(P!Answered(r, f)) \/ (details[r][f] = 0 /\ pushes[r].pc # "ended")
  <2>1. r \in Pushes /\ events[r] # None
    BY DEF P!Audited
  <2>2. WrittenAt(r)
    BY <2>1 DEF PushInv
  <2>3. pushes[r].failures[f] = P!Cardinality(P!Answered(r, f))
    BY <1>3, <2>1
  <2> QED BY <2>1, <2>2, <2>3 DEF WrittenAt
<1>5. \A r \in Pushes \ P!Audited, f \in P!Failures : details[r][f] = 0
  BY DEF P!Audited, PushInv, WrittenAt
<1>6. ASSUME NEW r \in Pushes
      PROVE  /\ \A e \in DOMAIN pushes[r].report.relay :
                   pushes[r].report.relay[e].target = pushes[r].report.relay[e].success + pushes[r].report.relay[e].error
             /\ \A e \in DOMAIN pushes[r].report.reasons, f \in P!Failures :
                   pushes[r].report.reasons[e][f] <= P!Cardinality(P!Answered(e, f))
  <2>1. ReportAt(r)
    BY DEF PushInv
  <2> QED BY <1>3, <2>1 DEF ReportAt
<1>7. P!AuditTruthful
  BY <1>2, <1>4, <1>5, <1>6 DEF P!AuditTruthful
<1>8. P!RefusedForCause
  <2>1. \A k \in P!Keys : RowAt(k)
    BY DEF PushInv
  <2> QED BY <2>1 DEF RowAt, Cause, P!RefusedForCause
<1> QED BY <1>7, <1>8 DEF P!ReportTruthful

\* What an audit and a mark say of an event, APNs answered (deliverPushEvent,
\* auditEvent, markRegistrationSuccess, markRegistrationError).
THEOREM PushesAreTruthful == P!Spec => []P!ReportTruthful
<1>1. P!Init => PushInv
  BY RelayAssumption, PushStarts
<1>2. PushInv /\ [P!Next]_P!vars => PushInv'
  BY RelayAssumption, PushStep
<1>3. PushInv => P!ReportTruthful
  BY RelayAssumption, PushEnough
<1> QED BY <1>1, <1>2, <1>3, PTL DEF P!Spec

-----------------------------------------------------------------------------
(***************************************************************************)
(* The delivery of rich sessions.                                          *)
(***************************************************************************)
RichTypes ==
  /\ hour \in D!Time /\ current \subseteq Operations /\ marked \subseteq Operations
  /\ adapter \in [Adapters -> D!Adapter]
  /\ sent \subseteq [by : Deliveries, at : D!Time] /\ deliveries \in [Deliveries -> D!Request]

\* What a call has been given, by its step.
Given(r) ==
  LET q == deliveries[r]
  IN /\ q.pc # "idle" => q.on \in Adapters
     /\ q.pc \in {"idle", "admit"} => q.lease = None
     /\ q.pc \notin {"idle", "admit", "threw"} => q.lease \in D!Lease
     /\ q.outcome # None => q.pc \in {"finish", "ended", "threw"} /\ q.lease \in D!Lease
     /\ q.pc = "finish" => q.outcome \in D!Observations

\* Until it is sent, a carrier was found fit at a reading of its adapter.
Fit(r) ==
  LET q == deliveries[r]
      f == q.lease.frame
  IN q.pc \in {"digest", "authorize", "mark", "marked", "spent"} =>
       /\ D!Decodes(f) /\ D!IsOriginal(q.lease) /\ q.lease.expires <= f.bounds.to
       /\ f.bounds.from <= adapter[q.on].highWater

\* An adapter remembers operations that one of its calls was given.
Remembered == \A a \in Adapters : \A op \in adapter[a].operations :
  \E q \in Deliveries : deliveries[q].on = a /\ deliveries[q].lease # None /\ deliveries[q].lease.op = op

\* Who found the marker of its operation unset, and may send or has sent.
Holds(r) == deliveries[r].pc = "marked" \/ \E s \in sent : s.by = r

\* A marker that was set lets one call send, and is there from then on.
Markers ==
  /\ \A r \in Deliveries : Holds(r) \/ deliveries[r].pc = "spent" => deliveries[r].lease.op \in marked
  /\ \A r, q \in Deliveries : Holds(r) /\ Holds(q) /\ deliveries[r].lease.op = deliveries[q].lease.op => r = q

\* What left, left once for its call, in time, and the call knows.
Departures ==
  /\ \A s, t \in sent : s.by = t.by => s = t
  /\ \A s \in sent :
       /\ deliveries[s.by].pc \in {"fetch", "finish", "ended", "threw"} /\ deliveries[s.by].lease \in D!Lease
       /\ deliveries[s.by].outcome \notin {"not_sent", "already_attempted"}
  /\ \A r \in Deliveries : deliveries[r].pc = "fetch" => \E s \in sent : s.by = r

RichInv ==
  /\ RichTypes /\ (\A r \in Deliveries : Given(r) /\ Fit(r))
  /\ Remembered /\ Markers /\ Departures /\ D!SentInTime /\ D!AnswerTruthful

LEMMA RichStarts == ASSUME D!RichAssumption, D!Init PROVE RichInv
<1> USE DEF D!RichAssumption, D!Init, D!Idle, D!Fresh
<1>1. RichTypes
  BY DEF RichTypes, D!Time, D!Adapter, D!Request
<1>2. \A r \in Deliveries : Given(r) /\ Fit(r)
  BY DEF Given, Fit
<1>3. Remembered /\ Markers /\ Departures
  BY DEF Remembered, Markers, Departures, Holds
<1>4. D!SentInTime /\ D!AnswerTruthful
  BY DEF D!SentInTime, D!AnswerTruthful, D!Observations
<1> QED BY <1>1, <1>2, <1>3, <1>4 DEF RichInv

\* A step of one call: what it was given it keeps, and its adapter only learns.
RichTurn(r) ==
  LET p == deliveries[r]
      q == deliveries'[r]
  IN /\ RichTypes' /\ Given(r)' /\ Fit(r)' /\ hour' = hour
     /\ deliveries' = [deliveries EXCEPT ![r] = q]
     /\ p.pc # "idle" => q.on = p.on
     /\ p.pc \notin {"idle", "admit"} => q.lease = p.lease
     /\ \A a \in Adapters :
          /\ adapter[a].highWater <= adapter'[a].highWater
          /\ \A op \in adapter'[a].operations \ adapter[a].operations :
               q.on = a /\ q.lease # None /\ q.lease.op = op
     /\ p.pc \in {"fetch", "finish", "ended", "threw"} => q.pc \in {"finish", "ended", "threw"}
     /\ q.outcome \in {"provider_accepted", "provider_rejected"} => p.pc = "fetch" \/ q.outcome = p.outcome
     /\ q.outcome = "not_sent" => p.pc \notin {"fetch", "ended", "threw"} /\ (p.pc = "finish" => p.outcome = "not_sent")
     /\ q.outcome = "already_attempted" =>
          \/ p.pc = "spent"
          \/ p.pc = "admit" /\ q.lease.op \in adapter[q.on].operations
          \/ q.outcome = p.outcome
     /\ \/ /\ UNCHANGED <<marked, sent>> /\ q.pc # "fetch"
           /\ q.pc \in {"marked", "spent"} => q.pc = p.pc
        \/ /\ p.pc = "mark" /\ marked' = marked \cup {p.lease.op} /\ UNCHANGED sent
           /\ q.pc = IF p.lease.op \in marked THEN "spent" ELSE "marked"
        \/ /\ p.pc = "marked" /\ q.pc = "fetch" /\ UNCHANGED marked /\ sent' = sent \cup {[by |-> r, at |-> hour]}
           /\ hour < p.lease.expires /\ \A a \in Adapters : p.on = a => adapter[a].highWater <= hour

LEMMA RichTimes == ASSUME D!RichAssumption PROVE MaxHour \in Nat /\ D!Time \subseteq Int
BY DEF D!RichAssumption, D!Time

LEMMA LeaseTimes ==
  ASSUME D!RichAssumption, NEW l \in D!Lease
  PROVE  l.frame.bounds.from \in Int /\ l.frame.bounds.to \in Int /\ l.expires \in Int
<1>1. l.frame \in D!Frame /\ l.expires \in D!Time
  BY DEF D!Lease
<1>2. l.frame.bounds \in D!Interval
  BY <1>1 DEF D!Frame
<1> QED BY <1>1, <1>2, RichTimes DEF D!Interval

\* What a reading leaves of an adapter.
LEMMA Readings ==
  ASSUME D!RichAssumption, RichInv, NEW a \in Adapters
  PROVE  /\ D!Read(a) \in D!Adapter /\ D!Read(a).operations = adapter[a].operations
         /\ adapter[a].highWater <= D!Read(a).highWater
         /\ D!Ticking(a) => D!Read(a).highWater = hour
<1>1. adapter[a] \in [closed : BOOLEAN, highWater : D!Time, operations : SUBSET Operations] /\ hour \in D!Time
  BY DEF RichInv, RichTypes, D!Adapter
<1>2. adapter[a].highWater \in Int /\ hour \in Int
  BY <1>1, RichTimes
<1>3. CASE adapter[a].closed
  BY <1>1, <1>2, <1>3 DEF D!Read, D!Ticking, D!StepsBack, D!Adapter
<1>4. CASE ~adapter[a].closed /\ hour < adapter[a].highWater
  <2>1. D!Read(a) = [adapter[a] EXCEPT !.closed = TRUE] /\ ~D!Ticking(a)
    BY <1>4 DEF D!Read, D!Ticking, D!StepsBack
  <2>2. D!Read(a) \in D!Adapter
    BY <1>1, <2>1 DEF D!Adapter
  <2>3. D!Read(a).operations = adapter[a].operations /\ D!Read(a).highWater = adapter[a].highWater
    BY <1>1, <2>1
  <2> QED BY <1>2, <2>1, <2>2, <2>3
<1>5. CASE ~adapter[a].closed /\ ~(hour < adapter[a].highWater)
  <2>1. D!Read(a) = [adapter[a] EXCEPT !.highWater = hour]
    BY <1>5 DEF D!Read, D!StepsBack
  <2> QED BY <1>1, <1>2, <1>5, <2>1 DEF D!Adapter
<1> QED BY <1>3, <1>4, <1>5

\* A guard that holds has read a clock that is not before any earlier reading.
LEMMA Guards ==
  ASSUME D!RichAssumption, RichInv, NEW r \in Deliveries, deliveries[r].on \in Adapters, D!GuardReads(r)
  PROVE  /\ adapter' \in [Adapters -> D!Adapter]
         /\ \A a \in Adapters : /\ adapter'[a].operations = adapter[a].operations
                                /\ adapter[a].highWater <= adapter'[a].highWater
<1> DEFINE a == deliveries[r].on
<1>1. adapter \in [Adapters -> D!Adapter] /\ \A b \in Adapters : adapter[b].highWater \in Int
  BY RichTimes DEF RichInv, RichTypes, D!Adapter
<1>2. adapter' = adapter \/ adapter' = [adapter EXCEPT ![a] = D!Read(a)]
  BY <1>1 DEF D!GuardReads
<1>3. D!Read(a) \in D!Adapter /\ D!Read(a).operations = adapter[a].operations /\ adapter[a].highWater <= D!Read(a).highWater
  BY Readings
<1> HIDE DEF a
<1> QED BY <1>1, <1>2, <1>3

LEMMA DeliverTurns ==
  ASSUME D!RichAssumption, RichInv, NEW r \in Deliveries, D!Deliver(r)
  PROVE  RichTurn(r)
<1>1. PICK a \in Adapters :
        /\ deliveries' = [deliveries EXCEPT ![r].on = a,
             ![r].pc = IF D!Ticking(a) /\ ~deliveries[r].aborted THEN "admit" ELSE "threw"]
        /\ adapter' = [adapter EXCEPT ![a] = IF deliveries[r].aborted THEN @ ELSE D!Read(a)]
  BY DEF D!Deliver
<1>2. deliveries[r].pc = "idle" /\ UNCHANGED <<hour, current, marked, sent>>
  BY DEF D!Deliver
<1>3. /\ deliveries \in [Deliveries -> D!Request] /\ adapter \in [Adapters -> D!Adapter]
      /\ Given(r)
  BY DEF RichInv, RichTypes
<1>4. /\ adapter' \in [Adapters -> D!Adapter]
      /\ \A b \in Adapters : adapter'[b].operations = adapter[b].operations /\ adapter[b].highWater <= adapter'[b].highWater
  <2>1. \A b \in Adapters : adapter[b].highWater \in Int
    BY <1>3, RichTimes DEF D!Adapter
  <2>2. D!Read(a) \in D!Adapter /\ D!Read(a).operations = adapter[a].operations /\ adapter[a].highWater <= D!Read(a).highWater
    BY Readings
  <2> QED BY <1>1, <1>3, <2>1, <2>2
<1>5. /\ deliveries' = [deliveries EXCEPT ![r] = deliveries'[r]] /\ deliveries'[r] \in D!Request
      /\ deliveries'[r].on = a /\ deliveries'[r].pc \in {"admit", "threw"} /\ deliveries'[r].lease = None
      /\ deliveries'[r].outcome = None
  BY <1>1, <1>2, <1>3 DEF D!Request, Given
<1>6. RichTypes'
  BY <1>2, <1>3, <1>4, <1>5 DEF RichInv, RichTypes
<1> QED BY <1>2, <1>4, <1>5, <1>6 DEF RichTurn, Given, Fit, D!RichAssumption, D!Observations

\* What the lemmas about the later steps of a call rest on.
LEMMA CallFacts ==
  ASSUME D!RichAssumption, RichInv, NEW r \in Deliveries
  PROVE  /\ deliveries \in [Deliveries -> D!Request] /\ adapter \in [Adapters -> D!Adapter]
         /\ \A a \in Adapters : adapter[a].highWater \in Int
         /\ \A a \in Adapters : adapter[a].highWater <= adapter[a].highWater
         /\ hour \in Int /\ Given(r) /\ Fit(r)
BY RichTimes DEF RichInv, RichTypes, D!Adapter

\* A call past its admission has an adapter and a lease, and its adapter learns.
LEMMA Learns ==
  ASSUME D!RichAssumption, RichInv, NEW r \in Deliveries,
         deliveries[r].pc \notin {"idle", "admit", "threw"}, D!GuardReads(r) \/ UNCHANGED adapter
  PROVE  /\ deliveries[r].on \in Adapters /\ deliveries[r].lease \in D!Lease
         /\ adapter' \in [Adapters -> D!Adapter]
         /\ \A a \in Adapters : /\ adapter'[a].operations = adapter[a].operations
                                /\ adapter[a].highWater <= adapter'[a].highWater
<1>1. /\ adapter \in [Adapters -> D!Adapter] /\ Given(r)
      /\ \A a \in Adapters : adapter[a].highWater <= adapter[a].highWater
  BY CallFacts
<1>2. deliveries[r].on \in Adapters /\ deliveries[r].lease \in D!Lease
  BY <1>1 DEF Given
<1> QED BY <1>1, <1>2, Guards

\* Such a step is a turn, if it goes where it may.
LEMMA QuietTurns ==
  ASSUME D!RichAssumption, RichInv, NEW r \in Deliveries,
         deliveries[r].pc \notin {"idle", "admit", "ended", "threw"},
         UNCHANGED <<hour, current, marked, sent>>, D!GuardReads(r) \/ UNCHANGED adapter,
         NEW pc, NEW outcome,
         deliveries' = [deliveries EXCEPT ![r].pc = pc, ![r].outcome = outcome],
         \/ /\ deliveries[r].pc \in {"digest", "authorize"} /\ pc \in {"authorize", "mark"}
            /\ outcome = deliveries[r].outcome
         \/ /\ deliveries[r].pc \in {"digest", "authorize", "marked"} /\ pc = "finish" /\ outcome = "not_sent"
         \/ /\ deliveries[r].pc \in {"mark", "marked", "spent"} /\ pc = "finish" /\ outcome = "outcome_unknown"
         \/ /\ deliveries[r].pc = "spent" /\ pc = "ended" /\ outcome = "already_attempted"
         \/ /\ deliveries[r].pc = "fetch" /\ pc = "finish"
            /\ outcome \in {"provider_accepted", "provider_rejected", "outcome_unknown"}
         \/ /\ deliveries[r].pc = "finish" /\ pc = "ended" /\ outcome \in {deliveries[r].outcome, "outcome_unknown"}
  PROVE  RichTurn(r)
<1>1. /\ adapter' \in [Adapters -> D!Adapter]
      /\ \A a \in Adapters : /\ adapter'[a].operations = adapter[a].operations
                             /\ adapter[a].highWater <= adapter'[a].highWater
      /\ deliveries' = [deliveries EXCEPT ![r] = deliveries'[r]]
      /\ deliveries'[r].pc = pc /\ deliveries'[r].outcome = outcome
      /\ deliveries'[r].lease = deliveries[r].lease /\ deliveries'[r].on = deliveries[r].on
      /\ deliveries[r].on \in Adapters /\ deliveries[r].lease \in D!Lease
      /\ [deliveries[r] EXCEPT !.pc = pc, !.outcome = outcome] = deliveries'[r]
  <2>1. deliveries \in [Deliveries -> D!Request]
    BY CallFacts
  <2>2. deliveries[r].pc \notin {"idle", "admit", "threw"}
    OBVIOUS
  <2>3. /\ deliveries[r].on \in Adapters /\ deliveries[r].lease \in D!Lease
        /\ adapter' \in [Adapters -> D!Adapter]
        /\ \A a \in Adapters : /\ adapter'[a].operations = adapter[a].operations
                               /\ adapter[a].highWater <= adapter'[a].highWater
    BY <2>2, Learns
  <2> QED BY <2>1, <2>3 DEF D!Request
<1>2. deliveries \in [Deliveries -> D!Request] /\ Given(r) /\ Fit(r) /\ \A a \in Adapters : adapter[a].highWater \in Int
  BY CallFacts
<1>3. deliveries'[r] \in D!Request
  BY <1>1, <1>2 DEF D!Request, D!Observations
<1>4. RichTypes'
  BY <1>1, <1>2, <1>3 DEF RichInv, RichTypes
<1>5. Given(r)'
  BY <1>1, <1>2 DEF Given, D!RichAssumption, D!Observations
<1>6. Fit(r)'
  <2>1. adapter'[deliveries[r].on].highWater \in Int /\ adapter[deliveries[r].on].highWater \in Int
    BY <1>1, <1>2, RichTimes DEF D!Adapter
  <2>3. deliveries[r].lease.frame.bounds.from \in Int
    BY <1>1, LeaseTimes
  <2>2. adapter[deliveries[r].on].highWater <= adapter'[deliveries[r].on].highWater
    BY <1>1
  <2>4. CASE pc \in {"authorize", "mark"}
    <3>1. /\ deliveries[r].pc \in {"digest", "authorize"}
          /\ adapter[deliveries[r].on].highWater \in Int /\ adapter'[deliveries[r].on].highWater \in Int
      BY <2>1, <2>4
    <3>2. deliveries[r].lease.frame.bounds.from <= adapter'[deliveries[r].on].highWater
      BY <1>2, <2>2, <2>3, <3>1 DEF Fit
    <3> QED BY <1>1, <1>2, <3>1, <3>2 DEF Fit
  <2>5. CASE pc \notin {"authorize", "mark"}
    BY <1>1, <2>5 DEF Fit
  <2> QED BY <2>4, <2>5
<1> QED BY <1>1, <1>2, <1>4, <1>5, <1>6 DEF RichTurn, Given

LEMMA CallTurns ==
  ASSUME D!RichAssumption, RichInv, NEW r \in Deliveries,
         \/ D!Digest(r) \/ D!Authorize(r) \/ D!AlreadyAttempted(r) \/ D!LoseMarker(r) \/ D!Answer(r) \/ D!Finish(r)
  PROVE  RichTurn(r)
<1> DEFINE p == deliveries[r]
           Goes(pc, outcome) == deliveries' = [deliveries EXCEPT ![r].pc = pc, ![r].outcome = outcome]
<1>1. deliveries \in [Deliveries -> D!Request]
  BY CallFacts
<1>2. \A pc : D!Goto(r, pc) => Goes(pc, p.outcome)
  BY <1>1 DEF D!Goto, D!Request
<1>3. \A outcome : (D!Observe(r, outcome) => Goes("finish", outcome)) /\ (D!Return(r, outcome) => Goes("ended", outcome))
  BY DEF D!Observe, D!Return
<1>4. CASE D!Digest(r)
  BY <1>2, <1>3, <1>4, QuietTurns DEF D!Digest
<1>5. CASE D!Authorize(r)
  BY <1>2, <1>3, <1>5, QuietTurns DEF D!Authorize
<1>6. CASE D!AlreadyAttempted(r)
  BY <1>3, <1>6, QuietTurns DEF D!AlreadyAttempted
<1>7. CASE D!LoseMarker(r)
  BY <1>3, <1>7, QuietTurns DEF D!LoseMarker
<1>8. CASE D!Answer(r)
  BY <1>3, <1>8, QuietTurns DEF D!Answer
<1>9. CASE D!Finish(r)
  BY <1>3, <1>9, QuietTurns DEF D!Finish
<1> QED BY <1>4, <1>5, <1>6, <1>7, <1>8, <1>9

LEMMA MarkTurns ==
  ASSUME D!RichAssumption, RichInv, NEW r \in Deliveries, D!SetMarker(r)
  PROVE  RichTurn(r)
<1> DEFINE p == deliveries[r]
           pc == IF p.lease.op \in marked THEN "spent" ELSE "marked"
<1>1. /\ deliveries' = [deliveries EXCEPT ![r].pc = pc] /\ p.pc = "mark" /\ marked' = marked \cup {p.lease.op}
      /\ UNCHANGED <<hour, current, adapter, sent>>
  BY DEF D!SetMarker, D!Goto
<1>2. /\ deliveries \in [Deliveries -> D!Request] /\ adapter \in [Adapters -> D!Adapter] /\ Given(r) /\ Fit(r)
      /\ \A a \in Adapters : adapter[a].highWater <= adapter[a].highWater
  BY CallFacts
<1>3. p.lease.op \in Operations /\ p.on \in Adapters /\ p.lease \in D!Lease /\ p.outcome = None
  BY <1>1, <1>2 DEF Given, D!Lease
<1>4. deliveries'[r] = [p EXCEPT !.pc = pc] /\ deliveries' = [deliveries EXCEPT ![r] = deliveries'[r]]
  BY <1>1, <1>2
<1>5. /\ deliveries'[r].pc = pc /\ deliveries'[r].lease = p.lease /\ deliveries'[r].on = p.on
      /\ deliveries'[r].outcome = None /\ deliveries'[r] \in D!Request
  BY <1>2, <1>3, <1>4 DEF D!Request
<1>6. pc \in {"spent", "marked"}
  OBVIOUS
<1> HIDE DEF pc
<1>7. RichTypes'
  BY <1>1, <1>2, <1>3, <1>4, <1>5 DEF RichInv, RichTypes
<1>8. Given(r)' /\ Fit(r)'
  BY <1>1, <1>2, <1>3, <1>5, <1>6 DEF Given, Fit
<1>9. None \notin D!Observations \cup {"already_attempted"}
  BY DEF D!RichAssumption
<1> QED BY <1>1, <1>2, <1>4, <1>5, <1>7, <1>8, <1>9 DEF RichTurn, D!Observations, pc

LEMMA SendTurns ==
  ASSUME D!RichAssumption, RichInv, NEW r \in Deliveries, D!Send(r)
  PROVE  RichTurn(r)
<1> DEFINE p == deliveries[r]
<1>1. p.pc = "marked" /\ D!GuardReads(r) /\ UNCHANGED <<hour, current, marked>>
  BY DEF D!Send
<1>2. /\ deliveries \in [Deliveries -> D!Request] /\ adapter \in [Adapters -> D!Adapter] /\ Given(r) /\ hour \in Int
      /\ \A a \in Adapters : adapter[a].highWater \in Int
  BY CallFacts
<1>3. CASE ~D!Guarded(r, p.lease)
  BY <1>1, <1>3, QuietTurns DEF D!Send, D!Observe
<1>4. CASE D!Guarded(r, p.lease)
  <2>1. deliveries' = [deliveries EXCEPT ![r].pc = "fetch"] /\ sent' = sent \cup {[by |-> r, at |-> hour]}
    BY <1>4 DEF D!Send, D!Goto
  <2>2. deliveries' = [deliveries EXCEPT ![r].pc = "fetch", ![r].outcome = p.outcome]
    BY <1>2, <2>1 DEF D!Request
  <2>3. /\ adapter' \in [Adapters -> D!Adapter]
        /\ \A a \in Adapters : /\ adapter'[a].operations = adapter[a].operations
                               /\ adapter[a].highWater <= adapter'[a].highWater
        /\ deliveries' = [deliveries EXCEPT ![r] = deliveries'[r]]
        /\ deliveries'[r].pc = "fetch" /\ deliveries'[r].outcome = p.outcome
        /\ deliveries'[r].lease = p.lease /\ deliveries'[r].on = p.on
        /\ p.on \in Adapters /\ p.lease \in D!Lease
        /\ [p EXCEPT !.pc = "fetch", !.outcome = p.outcome] = deliveries'[r]
    <3>1. /\ p.on \in Adapters /\ p.lease \in D!Lease
          /\ adapter' \in [Adapters -> D!Adapter]
          /\ \A a \in Adapters : /\ adapter'[a].operations = adapter[a].operations
                                 /\ adapter[a].highWater <= adapter'[a].highWater
      BY <1>1, Learns
    <3> QED BY <1>2, <2>2, <3>1 DEF D!Request
  <2>4. deliveries'[r] \in D!Request /\ p.outcome = None
    BY <1>1, <1>2, <2>3 DEF D!Request, Given
  <2>5. hour < p.lease.expires /\ ~(hour < adapter[p.on].highWater)
    BY <1>4 DEF D!Guarded, D!Ticking, D!StepsBack
  <2>6. RichTypes'
    BY <1>1, <1>2, <2>1, <2>3, <2>4 DEF RichInv, RichTypes
  <2>7. Given(r)' /\ Fit(r)'
    BY <2>3, <2>4 DEF Given, Fit
  <2>8. \A a \in Adapters : p.on = a => adapter[a].highWater <= hour
    BY <1>2, <2>5
  <2>9. None \notin D!Observations \cup {"already_attempted"}
    BY DEF D!RichAssumption
  <2> QED BY <1>1, <2>1, <2>3, <2>4, <2>5, <2>6, <2>7, <2>8, <2>9 DEF RichTurn, D!Observations
<1> QED BY <1>3, <1>4

LEMMA AdmitTurns ==
  ASSUME D!RichAssumption, RichInv, NEW r \in Deliveries, D!Admit(r)
  PROVE  RichTurn(r)
<1> DEFINE p == deliveries[r]
           a == p.on
<1>1. p.pc = "admit" /\ UNCHANGED <<hour, current, marked, sent>>
  BY DEF D!Admit
<1>2. /\ deliveries \in [Deliveries -> D!Request] /\ adapter \in [Adapters -> D!Adapter] /\ Given(r) /\ hour \in Int
      /\ \A b \in Adapters : adapter[b].highWater \in Int
      /\ \A b \in Adapters : adapter[b].highWater <= adapter[b].highWater
  BY CallFacts
<1>3. a \in Adapters /\ p.lease = None /\ p.outcome = None
  BY <1>1, <1>2 DEF Given
<1>4. None \notin D!Observations \cup {"already_attempted"} /\ None \notin D!Lease
  BY DEF D!RichAssumption
<1>5. PICK l \in Leases[r] :
        \/ D!Goto(r, "threw") /\ UNCHANGED adapter
        \/ /\ l.op \in adapter[a].operations
           /\ deliveries' = [deliveries EXCEPT ![r].pc = "ended", ![r].lease = l, ![r].outcome = "already_attempted"]
           /\ UNCHANGED adapter
        \/ /\ adapter' = [adapter EXCEPT ![a] = [D!Read(a) EXCEPT !.operations = @ \cup {l.op}]]
           /\ deliveries' = [deliveries EXCEPT ![r].lease = l,
                  ![r].pc = IF D!Guarded(r, l) /\ D!Valid(l) THEN "digest" ELSE "finish",
                  ![r].outcome = IF D!Guarded(r, l) /\ D!Valid(l) THEN None ELSE "not_sent"]
  BY DEF D!Admit
<1>6. l \in D!Lease /\ l.op \in Operations /\ l # None
  BY <1>4 DEF D!RichAssumption, D!Lease
<1>7. CASE D!Goto(r, "threw") /\ UNCHANGED adapter
  <2>1. /\ deliveries' = [deliveries EXCEPT ![r] = deliveries'[r]] /\ deliveries'[r] = [p EXCEPT !.pc = "threw"]
        /\ deliveries'[r] \in D!Request
    BY <1>2, <1>7 DEF D!Goto, D!Request
  <2>2. RichTypes'
    BY <1>1, <1>2, <1>7, <2>1 DEF RichInv, RichTypes
  <2> QED BY <1>1, <1>2, <1>3, <1>4, <1>7, <2>1, <2>2 DEF RichTurn, Given, Fit, D!Observations, D!Request
<1>8. CASE /\ l.op \in adapter[a].operations
           /\ deliveries' = [deliveries EXCEPT ![r].pc = "ended", ![r].lease = l, ![r].outcome = "already_attempted"]
           /\ UNCHANGED adapter
  <2>1. /\ deliveries' = [deliveries EXCEPT ![r] = deliveries'[r]]
        /\ deliveries'[r] = [p EXCEPT !.pc = "ended", !.lease = l, !.outcome = "already_attempted"]
        /\ deliveries'[r] \in D!Request
    BY <1>2, <1>6, <1>8 DEF D!Request
  <2>2. RichTypes'
    BY <1>1, <1>2, <1>8, <2>1 DEF RichInv, RichTypes
  <2> QED BY <1>1, <1>2, <1>3, <1>6, <1>8, <2>1, <2>2 DEF RichTurn, Given, Fit, D!Request
<1>9. CASE /\ adapter' = [adapter EXCEPT ![a] = [D!Read(a) EXCEPT !.operations = @ \cup {l.op}]]
           /\ deliveries' = [deliveries EXCEPT ![r].lease = l,
                  ![r].pc = IF D!Guarded(r, l) /\ D!Valid(l) THEN "digest" ELSE "finish",
                  ![r].outcome = IF D!Guarded(r, l) /\ D!Valid(l) THEN None ELSE "not_sent"]
  <2>1. /\ D!Read(a) \in D!Adapter /\ D!Read(a).operations = adapter[a].operations
        /\ adapter[a].highWater <= D!Read(a).highWater
        /\ D!Ticking(a) => D!Read(a).highWater = hour
    BY <1>3, Readings
  <2>2. /\ adapter' \in [Adapters -> D!Adapter] /\ adapter'[a].highWater = D!Read(a).highWater
        /\ adapter'[a].operations = adapter[a].operations \cup {l.op}
        /\ \A b \in Adapters : /\ b # a => adapter'[b] = adapter[b]
                               /\ adapter[b].highWater <= adapter'[b].highWater
    BY <1>2, <1>3, <1>6, <1>9, <2>1 DEF D!Adapter
  <2>3. CASE D!Guarded(r, l) /\ D!Valid(l)
    <3>1. /\ deliveries' = [deliveries EXCEPT ![r] = deliveries'[r]]
          /\ deliveries'[r] = [p EXCEPT !.lease = l, !.pc = "digest", !.outcome = None]
          /\ deliveries'[r] \in D!Request
      BY <1>2, <1>6, <1>9, <2>3 DEF D!Request
    <3>2. deliveries'[r].pc = "digest" /\ deliveries'[r].lease = l /\ deliveries'[r].on = a /\ deliveries'[r].outcome = None
      BY <1>2, <3>1 DEF D!Request
    <3>3. RichTypes'
      BY <1>1, <1>2, <2>2, <3>1 DEF RichInv, RichTypes
    <3>4. Fit(r)'
      BY <2>1, <2>2, <2>3, <3>2 DEF Fit, D!Guarded, D!Valid
    <3> QED BY <1>1, <1>2, <1>3, <1>4, <1>6, <2>2, <3>1, <3>2, <3>3, <3>4 DEF RichTurn, Given, D!Observations
  <2>4. CASE ~(D!Guarded(r, l) /\ D!Valid(l))
    <3>1. /\ deliveries' = [deliveries EXCEPT ![r] = deliveries'[r]]
          /\ deliveries'[r] = [p EXCEPT !.lease = l, !.pc = "finish", !.outcome = "not_sent"]
          /\ deliveries'[r] \in D!Request
      BY <1>2, <1>6, <1>9, <2>4 DEF D!Request, D!Observations
    <3>2. deliveries'[r].pc = "finish" /\ deliveries'[r].lease = l /\ deliveries'[r].on = a /\ deliveries'[r].outcome = "not_sent"
      BY <1>2, <3>1 DEF D!Request
    <3>3. RichTypes'
      BY <1>1, <1>2, <2>2, <3>1 DEF RichInv, RichTypes
    <3> QED BY <1>1, <1>2, <1>3, <1>4, <1>6, <2>2, <3>1, <3>2, <3>3 DEF RichTurn, Given, Fit, D!Observations
  <2> QED BY <2>3, <2>4
<1> QED BY <1>5, <1>7, <1>8, <1>9

\* A turn of a call keeps what the calls share.
LEMMA TurnKeeps ==
  ASSUME D!RichAssumption, RichInv, NEW r \in Deliveries, RichTurn(r)
  PROVE  RichInv'
<1> DEFINE p == deliveries[r]
           q == deliveries'[r]
<1>1. RichTypes' /\ Given(r)' /\ Fit(r)'
  BY DEF RichTurn
<1>2. /\ RichTypes /\ Given(r) /\ Fit(r) /\ Remembered /\ Markers /\ Departures /\ D!SentInTime /\ D!AnswerTruthful
      /\ deliveries \in [Deliveries -> D!Request] /\ adapter \in [Adapters -> D!Adapter]
      /\ \A a \in Adapters : adapter[a].highWater \in Int /\ adapter'[a].highWater \in Int
      /\ None \notin D!Lease /\ None \notin D!Observations \cup {"already_attempted"}
  <2>1. adapter' \in [Adapters -> D!Adapter]
    BY <1>1 DEF RichTypes
  <2>2. \A a \in Adapters : adapter'[a].highWater \in Int
    BY <2>1, RichTimes DEF D!Adapter
  <2> QED BY <2>2, CallFacts DEF RichInv, D!RichAssumption
<1>3. \A x \in Deliveries : x # r => deliveries'[x] = deliveries[x]
  BY <1>2 DEF RichTurn
<1>4. ASSUME NEW x \in Deliveries PROVE Given(x)' /\ Fit(x)'
  <2>1. CASE x = r
    BY <1>1, <2>1
  <2>2. CASE x # r
    <3>1. Given(x) /\ Fit(x) /\ deliveries'[x] = deliveries[x]
      BY <1>3, <2>2 DEF RichInv
    <3>2. deliveries[x].pc \notin {"idle", "admit", "threw"} =>
            deliveries[x].on \in Adapters /\ deliveries[x].lease.frame.bounds.from \in Int
      BY <3>1, LeaseTimes DEF Given
    <3>3. \A a \in Adapters : adapter[a].highWater <= adapter'[a].highWater
      BY DEF RichTurn
    <3>4. Given(x)'
      BY <3>1 DEF Given
    <3>5. Fit(x)'
      BY <1>2, <3>1, <3>2, <3>3 DEF Fit
    <3> QED BY <3>4, <3>5
  <2> QED BY <2>1, <2>2
<1>5. Remembered'
  <2> SUFFICES ASSUME NEW a \in Adapters, NEW op \in adapter'[a].operations
               PROVE  \E x \in Deliveries :
                        deliveries'[x].on = a /\ deliveries'[x].lease # None /\ deliveries'[x].lease.op = op
    BY DEF Remembered
  <2>1. CASE op \in adapter[a].operations
    <3>1. PICK x \in Deliveries : deliveries[x].on = a /\ deliveries[x].lease # None /\ deliveries[x].lease.op = op
      BY <1>2, <2>1 DEF Remembered
    <3>2. deliveries'[x].on = a /\ deliveries'[x].lease = deliveries[x].lease
      BY <1>2, <1>3, <3>1 DEF RichTurn, Given
    <3> QED BY <3>1, <3>2
  <2>2. CASE op \notin adapter[a].operations
    BY <2>2 DEF RichTurn
  <2> QED BY <2>1, <2>2
<1>6. \A x \in Deliveries : Holds(x)' => Holds(x) \/ (x = r /\ p.pc = "mark" /\ p.lease.op \notin marked)
  BY <1>3 DEF RichTurn, Holds
<1>7. \A x \in Deliveries : Holds(x) => deliveries'[x].lease = deliveries[x].lease
  BY <1>2, <1>3 DEF RichTurn, Holds, Departures
<1>8. marked \subseteq marked'
  BY DEF RichTurn
<1>9. Markers'
  <2>1. ASSUME NEW x \in Deliveries, Holds(x)' PROVE deliveries'[x].lease.op \in marked'
    <3>1. CASE Holds(x)
      BY <1>2, <1>7, <1>8, <3>1 DEF Markers
    <3>2. CASE ~Holds(x)
      <4>1. x = r /\ p.pc = "mark"
        BY <1>6, <2>1, <3>2
      <4>2. \A s \in sent : s.by # r
        BY <1>2, <4>1 DEF Departures
      <4>3. p.pc = "mark" => q.lease = p.lease
        BY DEF RichTurn
      <4>4. marked' = marked \cup {p.lease.op} \/ (UNCHANGED sent /\ q.pc # "marked")
        BY <4>1 DEF RichTurn
      <4> QED BY <2>1, <4>1, <4>2, <4>3, <4>4 DEF Holds
    <3> QED BY <3>1, <3>2
  <2>2. ASSUME NEW x \in Deliveries, deliveries'[x].pc = "spent" PROVE deliveries'[x].lease.op \in marked'
    BY <1>2, <1>3, <1>8, <2>2 DEF Markers, RichTurn
  <2>3. ASSUME NEW x \in Deliveries, NEW y \in Deliveries, Holds(x)', Holds(y)',
               deliveries'[x].lease.op = deliveries'[y].lease.op
        PROVE  x = y
    <3>1. CASE Holds(x) /\ Holds(y)
      BY <1>2, <1>7, <2>3, <3>1 DEF Markers
    <3>2. CASE ~(Holds(x) /\ Holds(y))
      <4>1. p.pc = "mark" /\ p.lease.op \notin marked /\ q.lease = p.lease
        BY <1>6, <2>3, <3>2 DEF RichTurn
      <4>2. \A z \in Deliveries : Holds(z) => deliveries'[z].lease.op \in marked
        BY <1>2, <1>7 DEF Markers
      <4> QED BY <1>6, <2>3, <3>2, <4>1, <4>2
    <3> QED BY <3>1, <3>2
  <2> QED BY <2>1, <2>2, <2>3 DEF Markers
<1>10. \A s \in sent' : s \in sent \/ (s = [by |-> r, at |-> hour] /\ p.pc = "marked" /\ q.pc = "fetch")
  BY DEF RichTurn
<1>11. \A s \in sent : s.by \in Deliveries /\ deliveries'[s.by].lease = deliveries[s.by].lease
  BY <1>2, <1>7 DEF Holds, RichTypes
<1>12. Departures'
  <2>1. p.pc = "marked" => \A s \in sent : s.by # r
    BY <1>2 DEF Departures
  <2>2. \A s, t \in sent' : s.by = t.by => s = t
    BY <1>2, <1>10, <2>1 DEF Departures
  <2>3. ASSUME NEW s \in sent'
        PROVE  /\ deliveries'[s.by].pc \in {"fetch", "finish", "ended", "threw"} /\ deliveries'[s.by].lease \in D!Lease
               /\ deliveries'[s.by].outcome \notin {"not_sent", "already_attempted"}
    <3>1. CASE s \in sent /\ s.by # r
      BY <1>2, <1>3, <1>11, <3>1 DEF Departures
    <3>2. CASE s \in sent /\ s.by = r
      <4>1. /\ p.pc \in {"fetch", "finish", "ended", "threw"} /\ p.lease \in D!Lease
            /\ p.outcome \notin {"not_sent", "already_attempted"}
        BY <1>2, <3>2 DEF Departures
      <4>2. q.pc \in {"finish", "ended", "threw"} /\ q.lease = p.lease
        BY <4>1 DEF RichTurn
      <4>3. q.outcome \notin {"not_sent", "already_attempted"}
        BY <4>1 DEF RichTurn
      <4> QED BY <3>2, <4>1, <4>2, <4>3
    <3>3. CASE s = [by |-> r, at |-> hour] /\ p.pc = "marked" /\ q.pc = "fetch"
      BY <1>1, <1>2, <3>3 DEF Given, D!Observations
    <3> QED BY <1>10, <3>1, <3>2, <3>3
  <2>4. ASSUME NEW x \in Deliveries, deliveries'[x].pc = "fetch" PROVE \E s \in sent' : s.by = x
    <3>1. CASE x = r
      <4>1. [by |-> r, at |-> hour] \in sent'
        BY <2>4, <3>1 DEF RichTurn
      <4> QED BY <3>1, <4>1
    <3>2. CASE x # r
      BY <1>2, <1>3, <2>4, <3>2 DEF RichTurn, Departures
    <3> QED BY <3>1, <3>2
  <2> QED BY <2>2, <2>3, <2>4 DEF Departures
<1>13. D!SentInTime'
  <2> SUFFICES ASSUME NEW s \in sent'
               PROVE  LET l == deliveries'[s.by].lease IN
                        /\ D!Decodes(l.frame) /\ D!IsOriginal(l) /\ l.frame.bounds.from <= s.at
                        /\ s.at < l.frame.bounds.to /\ s.at < l.expires
    BY DEF D!SentInTime
  <2>1. CASE s \in sent
    BY <1>2, <1>11, <2>1 DEF D!SentInTime
  <2>2. CASE s = [by |-> r, at |-> hour] /\ p.pc = "marked" /\ q.pc = "fetch"
    <3>1. /\ q.lease = p.lease /\ p.lease \in D!Lease /\ p.on \in Adapters /\ hour \in Int
          /\ hour < p.lease.expires /\ adapter[p.on].highWater <= hour
      BY <1>2, <2>2, CallFacts DEF RichTurn, Given
    <3>2. p.lease.frame.bounds.from \in Int /\ p.lease.frame.bounds.to \in Int /\ p.lease.expires \in Int
      BY <3>1, LeaseTimes
    <3>3. /\ D!Decodes(p.lease.frame) /\ D!IsOriginal(p.lease) /\ p.lease.expires <= p.lease.frame.bounds.to
          /\ p.lease.frame.bounds.from <= adapter[p.on].highWater
      BY <1>2, <2>2 DEF Fit
    <3> QED BY <1>2, <2>2, <3>1, <3>2, <3>3
  <2> QED BY <1>10, <2>1, <2>2
<1>14. D!AnswerTruthful'
  <2> SUFFICES ASSUME NEW x \in Deliveries
               PROVE  /\ deliveries'[x].outcome \in {"provider_accepted", "provider_rejected"} => \E s \in sent' : s.by = x
                      /\ deliveries'[x].outcome = "not_sent" => \A s \in sent' : s.by # x
                      /\ deliveries'[x].outcome = "already_attempted" =>
                           \/ deliveries'[x].lease.op \in marked'
                           \/ \E y \in Deliveries \ {x} : deliveries'[y].on = deliveries'[x].on
                                  /\ deliveries'[y].lease # None /\ deliveries'[y].lease.op = deliveries'[x].lease.op
    BY DEF D!AnswerTruthful
  <2>1. sent \subseteq sent'
    BY DEF RichTurn
  <2>2. \A y \in Deliveries : deliveries[y].lease # None =>
          deliveries'[y].on = deliveries[y].on /\ deliveries'[y].lease = deliveries[y].lease
    BY <1>2, <1>3 DEF RichTurn, Given
  <2>3. deliveries'[x].outcome \in {"provider_accepted", "provider_rejected"} => \E s \in sent' : s.by = x
    BY <1>2, <1>3, <2>1 DEF RichTurn, Departures, D!AnswerTruthful
  <2>4. deliveries'[x].outcome = "not_sent" => \A s \in sent' : s.by # x
    BY <1>12 DEF Departures
  <2>5. ASSUME deliveries'[x].outcome = "already_attempted", deliveries[x].outcome = "already_attempted"
        PROVE  \/ deliveries'[x].lease.op \in marked'
               \/ \E y \in Deliveries \ {x} : deliveries'[y].on = deliveries'[x].on
                      /\ deliveries'[y].lease # None /\ deliveries'[y].lease.op = deliveries'[x].lease.op
    <3>1. deliveries[x].lease # None
      BY <1>2, <2>5 DEF RichInv, Given
    <3> QED BY <1>2, <1>8, <2>2, <2>5, <3>1 DEF D!AnswerTruthful
  <2>6. ASSUME deliveries'[x].outcome = "already_attempted", deliveries[x].outcome # "already_attempted"
        PROVE  \/ deliveries'[x].lease.op \in marked'
               \/ \E y \in Deliveries \ {x} : deliveries'[y].on = deliveries'[x].on
                      /\ deliveries'[y].lease # None /\ deliveries'[y].lease.op = deliveries'[x].lease.op
    <3>1. x = r
      BY <1>3, <2>6
    <3>2. CASE p.pc = "spent"
      BY <1>2, <1>8, <3>1, <3>2 DEF RichTurn, Markers
    <3>3. CASE p.pc = "admit" /\ q.lease.op \in adapter[q.on].operations
      <4>1. q.on = p.on /\ p.on \in Adapters /\ p.lease = None
        BY <1>2, <3>3 DEF RichTurn, Given
      <4>2. PICK y \in Deliveries : deliveries[y].on = q.on /\ deliveries[y].lease # None /\ deliveries[y].lease.op = q.lease.op
        BY <1>2, <3>3, <4>1 DEF Remembered
      <4>3. y # r
        BY <4>1, <4>2
      <4> QED BY <2>2, <3>1, <4>2, <4>3
    <3> QED BY <2>6, <3>1, <3>2, <3>3 DEF RichTurn
  <2> QED BY <2>3, <2>4, <2>5, <2>6
<1> QED BY <1>1, <1>4, <1>5, <1>9, <1>12, <1>13, <1>14 DEF RichInv

\* What goes on around the calls lets each stay as it is, or throw.
LEMMA AroundKeeps ==
  ASSUME D!RichAssumption, RichInv, RichTypes', UNCHANGED <<marked, sent>>,
         \A r \in Deliveries :
           /\ deliveries'[r].on = deliveries[r].on /\ deliveries'[r].lease = deliveries[r].lease
           /\ deliveries'[r].outcome = deliveries[r].outcome
           /\ \/ deliveries'[r].pc = deliveries[r].pc
              \/ /\ deliveries'[r].pc = "threw" /\ deliveries[r].pc \notin {"ended", "threw"}
                 /\ deliveries[r].on \in Adapters,
         \A r \in Deliveries, a \in Adapters :
           deliveries'[r].on = a /\ deliveries'[r].pc \notin {"ended", "threw"} =>
             adapter'[a].highWater = adapter[a].highWater,
         \A a \in Adapters : adapter'[a].operations \subseteq adapter[a].operations
  PROVE  RichInv'
<1>1. /\ Remembered /\ Markers /\ Departures /\ D!SentInTime /\ D!AnswerTruthful
      /\ \A r \in Deliveries : Given(r) /\ Fit(r)
  BY DEF RichInv
<1>2. \A s \in sent : s.by \in Deliveries
  BY DEF RichInv, RichTypes
<1>3. \A r \in Deliveries : Given(r)'
  BY <1>1 DEF Given
<1>4. \A r \in Deliveries : Fit(r)'
  BY <1>1 DEF Fit, Given
<1>5. Remembered'
  BY <1>1 DEF Remembered
<1>6. Markers'
  BY <1>1, <1>2 DEF Markers, Holds
<1>7. Departures'
  BY <1>1, <1>2 DEF Departures
<1>8. D!SentInTime' /\ D!AnswerTruthful'
  BY <1>1, <1>2 DEF D!SentInTime, D!AnswerTruthful
<1> QED BY <1>3, <1>4, <1>5, <1>6, <1>7, <1>8 DEF RichInv

LEMMA RichStep ==
  ASSUME D!RichAssumption, RichInv, [D!Next]_(D!vars)
  PROVE  RichInv'
<1>1. /\ deliveries \in [Deliveries -> D!Request] /\ adapter \in [Adapters -> D!Adapter] /\ RichTypes
  BY DEF RichInv, RichTypes
<1>2. ASSUME NEW r \in Deliveries, D!Refuse(r) PROVE RichInv'
  <2>1. deliveries' = [deliveries EXCEPT ![r].pc = "threw"] /\ UNCHANGED <<hour, current, marked, adapter, sent>>
        /\ deliveries[r].pc = "admit"
    BY <1>2 DEF D!Refuse, D!Goto
  <2>2. RichTypes'
    BY <1>1, <2>1 DEF RichTypes, D!Request
  <2>3. deliveries[r].on \in Adapters
    BY <2>1 DEF RichInv, Given
  <2> QED BY <1>1, <2>1, <2>2, <2>3, AroundKeeps DEF D!Request
<1>3. ASSUME NEW r \in Deliveries, D!Abort(r) PROVE RichInv'
  <2>1. deliveries' = [deliveries EXCEPT ![r].aborted = TRUE] /\ UNCHANGED <<hour, current, marked, adapter, sent>>
    BY <1>3 DEF D!Abort
  <2>2. RichTypes'
    BY <1>1, <2>1 DEF RichTypes, D!Request
  <2> QED BY <1>1, <2>1, <2>2, AroundKeeps DEF D!Request
<1>4. ASSUME NEW a \in Adapters, D!Close(a) PROVE RichInv'
  <2>1. adapter' = [adapter EXCEPT ![a].closed = TRUE] /\ UNCHANGED <<hour, current, marked, sent, deliveries>>
    BY <1>4 DEF D!Close
  <2>2. RichTypes'
    BY <1>1, <2>1 DEF RichTypes, D!Adapter
  <2> QED BY <1>1, <2>1, <2>2, AroundKeeps DEF D!Adapter
<1>5. ASSUME NEW a \in Adapters, D!Restart(a) PROVE RichInv'
  <2>1. /\ adapter' = [adapter EXCEPT ![a] = D!Fresh] /\ UNCHANGED <<hour, current, marked, sent>>
        /\ deliveries' = [r \in Deliveries |-> IF deliveries[r].on = a /\ D!IsOpen(r)
                                               THEN [deliveries[r] EXCEPT !.pc = "threw"] ELSE deliveries[r]]
    BY <1>5 DEF D!Restart
  <2>2. D!Fresh \in D!Adapter /\ D!Fresh.operations = {}
    BY DEF D!Fresh, D!Adapter, D!Time, D!RichAssumption
  <2>3. RichTypes'
    BY <1>1, <2>1, <2>2 DEF RichTypes, D!Request
  <2>4. \A r \in Deliveries : deliveries[r] \in D!Request
    BY <1>1
  <2> QED BY <1>1, <2>1, <2>2, <2>3, <2>4, AroundKeeps DEF D!Request, D!IsOpen
<1>6. CASE D!Withdraw \/ D!Tick \/ UNCHANGED D!vars
  <2>1. UNCHANGED <<marked, adapter, sent, deliveries>> /\ RichTypes'
    BY <1>1, <1>6 DEF D!Withdraw, D!Tick, D!vars, RichTypes
  <2> QED BY <2>1, AroundKeeps
<1>7. ASSUME NEW r \in Deliveries,
             \/ D!Deliver(r) \/ D!Admit(r) \/ D!Digest(r) \/ D!Authorize(r) \/ D!SetMarker(r)
             \/ D!AlreadyAttempted(r) \/ D!LoseMarker(r) \/ D!Send(r) \/ D!Answer(r) \/ D!Finish(r)
      PROVE  RichInv'
  BY <1>7, DeliverTurns, AdmitTurns, CallTurns, MarkTurns, SendTurns, TurnKeeps
<1> QED BY <1>2, <1>3, <1>4, <1>5, <1>6, <1>7 DEF D!Next

LEMMA RichHolds == ASSUME RichInv PROVE D!DeliveryTruthful
<1>1. ASSUME NEW s \in sent, NEW t \in sent, deliveries[s.by].lease.op = deliveries[t.by].lease.op PROVE s = t
  <2>1. s.by \in Deliveries /\ t.by \in Deliveries /\ Holds(s.by) /\ Holds(t.by)
    BY DEF RichInv, RichTypes, Holds
  <2>2. s.by = t.by
    BY <1>1, <2>1 DEF RichInv, Markers
  <2> QED BY <2>2 DEF RichInv, Departures
<1> QED BY <1>1 DEF D!DeliveryTruthful, D!SentOnce, RichInv

\* A rich session leaves once for its operation, in its time, and its call is
\* answered what happened (RichSessionDelivery).
THEOREM RichDeliveriesAreTruthful == D!Spec => []D!DeliveryTruthful
<1>1. D!Init => RichInv
  BY RelayAssumption, RichStarts
<1>2. RichInv /\ [D!Next]_(D!vars) => RichInv'
  BY RelayAssumption, RichStep
<1>3. RichInv => D!DeliveryTruthful
  BY RichHolds
<1> QED BY <1>1, <1>2, <1>3, PTL DEF D!Spec

-----------------------------------------------------------------------------
(***************************************************************************)
(* The status of certificates.                                             *)
(***************************************************************************)
Calls == Verifies \X {"crl", "ocsp"}
UnderWay == {"fetch", "verify", "stored"}

StatusTypes ==
  /\ clock \in Int /\ slot \in [V!Roles -> Calls \cup {None}] /\ active \in [V!Roles -> Calls \cup {None}]
  /\ cache \in [Calls -> V!Status \cup {None}] /\ notBefore \in [V!Roles -> Int]
  /\ asked \subseteq [by : Calls, at : Int]
  /\ checks \in [Calls ->
       [pc : {"idle", "prepare", "look", "cached", "join", "end"} \cup UnderWay, tuple : Tuples \cup {None},
        from : Calls \cup {None}, got : V!Response \cup {None}, at : Int, deadline : Int,
        answer : V!Status \cup {None}, told : Int]]

\* What a status that was kept says of its own times.
Sound(s) == s.this <= s.checkedAt /\ s.until <= s.next /\ s.until <= s.checkedAt + CacheLife

\* A check is of its certificates from its call on; what it reads is of them.
CallAt(c) ==
  LET q == checks[c]
  IN /\ q.pc = "idle" <=> q.tuple = None
     /\ q.answer # None => /\ q.pc = "end" /\ q.answer.tuple = q.tuple /\ Sound(q.answer)
                           /\ q.answer.checkedAt <= q.told /\ q.told < q.answer.until
     /\ q.pc = "cached" => q.from \in Calls /\ checks[q.from].tuple = q.tuple
     /\ q.pc = "verify" => q.got \in V!Response

\* The request of a role and those who wait for it.
Requested ==
  /\ \A c \in Calls : checks[c].pc \in UnderWay => active[V!Role(c)] = c
  /\ \A c \in Calls : checks[c].pc = "join" =>
       active[V!Role(c)] \in Calls /\ checks[active[V!Role(c)]].tuple = checks[c].tuple
  /\ \A r \in V!Roles : active[r] # None => checks[active[r]].pc \in UnderWay /\ V!Role(active[r]) = r

Kept ==
  /\ \A c \in Calls : cache[c] # None => checks[c].pc # "idle" /\ cache[c].tuple = checks[c].tuple /\ Sound(cache[c])
  /\ \A r \in V!Roles : slot[r] # None => checks[slot[r]].pc # "idle"

\* A role is not asked for again before its time, which the clock does not move.
Spaced ==
  /\ \A a \in asked : checks[a.by].pc # "idle" /\ a.at + Spacing <= notBefore[V!Role(a.by)]
  /\ \A a, b \in asked : a # b /\ V!Role(a.by) = V!Role(b.by) => a.at - b.at >= Spacing \/ b.at - a.at >= Spacing

StatusInv == StatusTypes /\ (\A c \in Calls : CallAt(c)) /\ Requested /\ Kept /\ Spaced

HasLeast(S) == \E m \in S : \A x \in S : m <= x

LEMMA LeastOfMore ==
  ASSUME NEW S, S \subseteq Int, HasLeast(S), NEW x \in Int
  PROVE  S \cup {x} \subseteq Int /\ HasLeast(S \cup {x})
<1>1. PICK m \in S : \A y \in S : m <= y
  BY DEF HasLeast
<1>2. CASE m <= x
  BY <1>1, <1>2 DEF HasLeast
<1>3. CASE x < m
  BY <1>1, <1>3 DEF HasLeast
<1> QED BY <1>1, <1>2, <1>3

LEMMA LeastOfOne == ASSUME NEW x \in Int PROVE {x} \subseteq Int /\ HasLeast({x})
BY DEF HasLeast

LEMMA MinIsLeast ==
  ASSUME NEW S, S \subseteq Int, HasLeast(S)
  PROVE  V!Min(S) \in S /\ \A x \in S : V!Min(S) <= x
BY DEF V!Min, HasLeast

\* How long a status may be kept.
LEMMA UntilBounds ==
  ASSUME V!StatusAssumption, NEW r \in V!Response, NEW t \in Tuples, NEW at \in Int
  PROVE  V!Until(r, t, at) \in Int /\ V!Until(r, t, at) <= r.next /\ V!Until(r, t, at) <= at + CacheLife
<1> DEFINE three == {at + CacheLife, r.next, CertEnds[t]}
           S == {r.next, at + CacheLife, CertEnds[t]} \cup IF V!IsListing(t) THEN {} ELSE {r.this + Day}
<1>1. r.next \in Int /\ r.this + Day \in Int /\ at + CacheLife \in Int /\ CertEnds[t] \in Int
  BY DEF V!StatusAssumption, V!Response
<1>2. {r.next} \subseteq Int /\ HasLeast({r.next})
  BY <1>1, LeastOfOne
<1>3. {r.next} \cup {at + CacheLife} \subseteq Int /\ HasLeast({r.next} \cup {at + CacheLife})
  BY <1>1, <1>2, LeastOfMore
<1>4. ({r.next} \cup {at + CacheLife}) \cup {CertEnds[t]} \subseteq Int
      /\ HasLeast(({r.next} \cup {at + CacheLife}) \cup {CertEnds[t]})
  BY <1>1, <1>3, LeastOfMore
<1>5. (({r.next} \cup {at + CacheLife}) \cup {CertEnds[t]}) \cup {r.this + Day} \subseteq Int
      /\ HasLeast((({r.next} \cup {at + CacheLife}) \cup {CertEnds[t]}) \cup {r.this + Day})
  BY <1>1, <1>4, LeastOfMore
<1>6. \/ S = ({r.next} \cup {at + CacheLife}) \cup {CertEnds[t]}
      \/ S = (({r.next} \cup {at + CacheLife}) \cup {CertEnds[t]}) \cup {r.this + Day}
  OBVIOUS
<1>7. S \subseteq Int /\ HasLeast(S) /\ r.next \in S /\ at + CacheLife \in S
  BY <1>4, <1>5, <1>6
<1>8. V!Until(r, t, at) = V!Min(S)
  BY DEF V!Until
<1> HIDE DEF S
<1>9. V!Min(S) \in S /\ \A x \in S : V!Min(S) <= x
  BY <1>7, MinIsLeast
<1> QED BY <1>7, <1>8, <1>9

LEMMA StatusStarts == ASSUME V!StatusAssumption, V!StatusInit PROVE StatusInv
<1> USE DEF V!StatusAssumption, V!StatusInit, V!Idle
<1>1. StatusTypes
  BY DEF StatusTypes, Calls, UnderWay
<1>2. \A c \in Calls : CallAt(c)
  BY DEF CallAt, Calls
<1>3. Requested /\ Kept /\ Spaced
  BY DEF Requested, Kept, Spaced, Calls, UnderWay
<1> QED BY <1>1, <1>2, <1>3 DEF StatusInv

LEMMA StatusFacts ==
  ASSUME V!StatusAssumption, StatusInv
  PROVE  /\ StatusTypes /\ (\A c \in Calls : CallAt(c)) /\ Requested /\ Kept /\ Spaced
         /\ \A c \in Calls : checks[c].pc # "idle" => checks[c].tuple \in Tuples /\ V!Role(c) \in V!Roles
         /\ None \notin Calls /\ None \notin Tuples /\ None \notin V!Response /\ None \notin V!Status /\ Spacing \in Nat
<1>1. /\ StatusTypes /\ (\A c \in Calls : CallAt(c)) /\ Requested /\ Kept /\ Spaced
  BY DEF StatusInv
<1>2. \A c \in Calls : checks[c].pc # "idle" => checks[c].tuple \in Tuples
  BY <1>1 DEF StatusTypes, CallAt
<1> QED BY <1>1, <1>2 DEF V!StatusAssumption, V!Role, Calls

\* A check goes on by itself, and writes at most its own cache.
OwnCache(c, t) ==
  \A x \in Calls : \/ cache'[x] \in {cache[x], None}
                   \/ x = c /\ cache'[x].tuple = t /\ Sound(cache'[x])

LEMMA OwnKeeps ==
  ASSUME V!StatusAssumption, StatusInv, NEW c \in Calls, NEW n,
         StatusTypes', checks' = [checks EXCEPT ![c] = n],
         UNCHANGED <<clock, slot, active, notBefore, asked>>,
         checks[c].pc \notin {"join", "end"}, n.pc # "idle", n.tuple # None,
         checks[c].pc # "idle" => n.tuple = checks[c].tuple,
         n.pc \in UnderWay <=> checks[c].pc \in UnderWay,
         n.pc = "join" => active[RoleOf[n.tuple]] \in Calls /\ checks[active[RoleOf[n.tuple]]].tuple = n.tuple,
         n.answer # None => /\ n.pc = "end" /\ n.answer.tuple = n.tuple /\ Sound(n.answer)
                            /\ n.answer.checkedAt <= n.told /\ n.told < n.answer.until,
         n.pc = "cached" => n.from \in Calls /\ checks[n.from].pc # "idle" /\ checks[n.from].tuple = n.tuple,
         n.pc = "verify" => n.got \in V!Response,
         OwnCache(c, n.tuple)
  PROVE  StatusInv'
<1>1. /\ StatusTypes /\ (\A x \in Calls : CallAt(x)) /\ Requested /\ Kept /\ Spaced
      /\ \A x \in Calls : checks[x].pc # "idle" => checks[x].tuple \in Tuples /\ V!Role(x) \in V!Roles
      /\ None \notin Calls /\ None \notin Tuples
  BY StatusFacts
<1>2. checks'[c] = n /\ \A x \in Calls : x # c => checks'[x] = checks[x]
  BY <1>1 DEF StatusTypes
<1>3. \A x \in Calls : checks[x].pc # "idle" =>
        checks'[x].pc # "idle" /\ checks'[x].tuple = checks[x].tuple /\ V!Role(x)' = V!Role(x)
  BY <1>2 DEF V!Role
<1>4. \A x \in Calls : CallAt(x)'
  <2>1. CallAt(c)'
    BY <1>2, <1>3 DEF CallAt
  <2>2. ASSUME NEW x \in Calls, x # c PROVE CallAt(x)'
    <3>1. CallAt(x) /\ checks'[x] = checks[x]
      BY <1>1, <1>2, <2>2
    <3>2. checks[x].pc = "cached" => checks[checks[x].from].pc # "idle"
      BY <1>1, <3>1 DEF CallAt
    <3> QED BY <1>3, <3>1, <3>2 DEF CallAt
  <2> QED BY <2>1, <2>2
<1>5. Requested'
  <2>1. ASSUME NEW x \in Calls, checks'[x].pc \in UnderWay PROVE active[V!Role(x)'] = x
    <3>1. checks[x].pc \in UnderWay
      BY <1>2, <2>1
    <3> QED BY <1>1, <1>3, <3>1 DEF Requested, UnderWay
  <2>2. ASSUME NEW x \in Calls, checks'[x].pc = "join"
        PROVE  active[V!Role(x)'] \in Calls /\ checks'[active[V!Role(x)']].tuple = checks'[x].tuple
    <3>1. CASE x = c
      <4>1. active[RoleOf[n.tuple]] \in Calls /\ checks[active[RoleOf[n.tuple]]].tuple = n.tuple
        BY <1>2, <2>2, <3>1
      <4>2. checks[active[RoleOf[n.tuple]]].pc # "idle"
        BY <1>1, <4>1 DEF CallAt
      <4> QED BY <1>2, <1>3, <3>1, <4>1, <4>2 DEF V!Role
    <3>2. CASE x # c
      <4>1. checks[x].pc = "join"
        BY <1>2, <2>2, <3>2
      <4>2. /\ active[V!Role(x)] \in Calls /\ checks[active[V!Role(x)]].tuple = checks[x].tuple
            /\ checks[x].tuple # None
        BY <1>1, <4>1 DEF Requested
      <4>3. checks[active[V!Role(x)]].pc # "idle"
        BY <1>1, <4>2 DEF CallAt
      <4> QED BY <1>3, <4>1, <4>2, <4>3
    <3> QED BY <3>1, <3>2
  <2>3. ASSUME NEW r \in V!Roles, active[r] # None PROVE checks'[active[r]].pc \in UnderWay /\ V!Role(active[r])' = r
    <3>1. active[r] \in Calls /\ checks[active[r]].pc \in UnderWay /\ V!Role(active[r]) = r
      BY <1>1, <2>3 DEF Requested, StatusTypes
    <3> QED BY <1>2, <1>3, <3>1 DEF UnderWay
  <2> QED BY <2>1, <2>2, <2>3 DEF Requested
<1>6. Kept'
  <2>1. \A r \in V!Roles : slot[r] # None => slot[r] \in Calls
    BY <1>1 DEF StatusTypes
  <2> QED BY <1>1, <1>2, <1>3, <2>1 DEF Kept, OwnCache
<1>7. Spaced'
  <2>1. \A a \in asked : a.by \in Calls
    BY <1>1 DEF StatusTypes
  <2> QED BY <1>1, <1>3, <2>1 DEF Spaced
<1> QED BY <1>4, <1>5, <1>6, <1>7 DEF StatusInv

\* A check that asks becomes the one its role waits for.
LEMMA AskKeeps ==
  ASSUME V!StatusAssumption, StatusInv, NEW c \in Calls, StatusTypes',
         checks[c].pc \in {"look", "cached"}, active[V!Role(c)] = None, notBefore[V!Role(c)] <= clock,
         checks'[c].pc = "fetch", checks'[c].tuple = checks[c].tuple, checks'[c].answer = None,
         \A x \in Calls : x # c => checks'[x] = checks[x],
         active' = [active EXCEPT ![V!Role(c)] = c], notBefore' = [notBefore EXCEPT ![V!Role(c)] = clock + Spacing],
         asked' = asked \cup {[by |-> c, at |-> clock]}, UNCHANGED <<clock, slot>>,
         \A x \in Calls : cache'[x] \in {cache[x], None}
  PROVE  StatusInv'
<1>1. /\ StatusTypes /\ (\A x \in Calls : CallAt(x)) /\ Requested /\ Kept /\ Spaced
      /\ \A x \in Calls : checks[x].pc # "idle" => checks[x].tuple \in Tuples /\ V!Role(x) \in V!Roles
      /\ None \notin Calls /\ None \notin Tuples /\ Spacing \in Nat
  BY StatusFacts
<1>2. \A x \in Calls : /\ checks'[x].tuple = checks[x].tuple /\ V!Role(x)' = V!Role(x)
                       /\ checks'[x].pc = "idle" <=> checks[x].pc = "idle"
  BY DEF V!Role
<1>3. \A x \in Calls : CallAt(x)'
  BY <1>1, <1>2 DEF CallAt
<1>4. /\ active \in [V!Roles -> Calls \cup {None}] /\ V!Role(c) \in V!Roles
      /\ active'[V!Role(c)] = c /\ \A r \in V!Roles : r # V!Role(c) => active'[r] = active[r]
  BY <1>1 DEF StatusTypes
<1>5. Requested'
  <2>1. ASSUME NEW x \in Calls, checks'[x].pc \in UnderWay PROVE active'[V!Role(x)] = x
    <3>1. CASE x = c
      BY <1>4, <3>1
    <3>2. CASE x # c
      <4>1. active[V!Role(x)] = x /\ V!Role(x) \in V!Roles
        BY <1>1, <2>1, <3>2 DEF Requested, UnderWay
      <4> QED BY <1>1, <1>4, <4>1
    <3> QED BY <3>1, <3>2
  <2>2. ASSUME NEW x \in Calls, checks'[x].pc = "join"
        PROVE  active'[V!Role(x)] \in Calls /\ checks'[active'[V!Role(x)]].tuple = checks'[x].tuple
    <3>1. checks[x].pc = "join"
      BY <2>2
    <3>2. active[V!Role(x)] \in Calls /\ checks[active[V!Role(x)]].tuple = checks[x].tuple /\ V!Role(x) \in V!Roles
      BY <1>1, <3>1 DEF Requested
    <3>3. active'[V!Role(x)] = active[V!Role(x)]
      BY <1>1, <1>4, <3>2
    <3> QED BY <1>2, <3>2, <3>3
  <2>3. ASSUME NEW r \in V!Roles, active'[r] # None PROVE checks'[active'[r]].pc \in UnderWay /\ V!Role(active'[r]) = r
    <3>1. CASE r = V!Role(c)
      BY <1>4, <3>1 DEF UnderWay
    <3>2. CASE r # V!Role(c)
      <4>1. active[r] \in Calls /\ checks[active[r]].pc \in UnderWay /\ V!Role(active[r]) = r /\ active'[r] = active[r]
        BY <1>1, <1>4, <2>3, <3>2 DEF Requested, StatusTypes
      <4> QED BY <3>2, <4>1
    <3> QED BY <3>1, <3>2
  <2>4. \A r \in V!Roles : active'[r] # None => active'[r] \in Calls
    BY <1>4
  <2> QED BY <1>2, <2>1, <2>2, <2>3, <2>4 DEF Requested
<1>6. Kept'
  <2>1. \A r \in V!Roles : slot[r] # None => slot[r] \in Calls
    BY <1>1 DEF StatusTypes
  <2> QED BY <1>1, <1>2, <2>1 DEF Kept
<1>7. Spaced'
  <2>1. /\ \A a \in asked : a.by \in Calls /\ a.at \in Int /\ V!Role(a.by) \in V!Roles
        /\ \A r \in V!Roles : notBefore[r] \in Int
        /\ clock \in Int /\ notBefore \in [V!Roles -> Int]
    BY <1>1 DEF StatusTypes, Spaced
  <2>2. \A r \in V!Roles : notBefore[r] <= notBefore'[r] /\ notBefore'[r] \in Int
    BY <1>1, <1>4, <2>1
  <2>3. notBefore'[V!Role(c)] = clock + Spacing
    BY <1>4, <2>1
  <2>4. ASSUME NEW a \in asked' PROVE checks'[a.by].pc # "idle" /\ a.at + Spacing <= notBefore'[V!Role(a.by)]
    <3>1. CASE a \in asked
      <4>1. a.at + Spacing <= notBefore[V!Role(a.by)] /\ checks[a.by].pc # "idle"
        BY <1>1, <3>1 DEF Spaced
      <4>2. notBefore[V!Role(a.by)] <= notBefore'[V!Role(a.by)] /\ notBefore'[V!Role(a.by)] \in Int
        BY <2>1, <2>2, <3>1
      <4> QED BY <1>1, <1>2, <2>1, <3>1, <4>1, <4>2
    <3>2. CASE a = [by |-> c, at |-> clock]
      <4>1. a.by = c /\ a.at = clock /\ clock + Spacing \in Int
        BY <1>1, <2>1, <3>2
      <4> QED BY <2>3, <4>1
    <3> QED BY <3>1, <3>2
  <2>5. \A a \in asked : V!Role(a.by) = V!Role(c) => clock - a.at >= Spacing
    BY <1>1, <2>1 DEF Spaced
  <2>6. ASSUME NEW a \in asked', NEW b \in asked', a # b, V!Role(a.by) = V!Role(b.by)
        PROVE  a.at - b.at >= Spacing \/ b.at - a.at >= Spacing
    BY <1>1, <2>1, <2>5, <2>6 DEF Spaced
  <2>7. \A a \in asked' : a.by \in Calls
    BY <2>1
  <2> QED BY <1>2, <2>4, <2>6, <2>7 DEF Spaced
<1> QED BY <1>3, <1>5, <1>6, <1>7 DEF StatusInv

\* The answer of a request ends it, for all who wait for it.
LEMMA EndKeeps ==
  ASSUME V!StatusAssumption, StatusInv, NEW c \in Calls, NEW what, StatusTypes',
         checks[c].pc \in UnderWay, V!Release(c), V!Answers({c} \cup V!Joined(c), what),
         what # None => /\ what.tuple = checks[c].tuple /\ Sound(what)
                        /\ what.checkedAt <= clock /\ clock < what.until,
         slot' = slot \/ slot' = [slot EXCEPT ![V!Role(c)] = c],
         UNCHANGED <<clock, cache, notBefore, asked>>
  PROVE  StatusInv'
<1> DEFINE ends == {c} \cup V!Joined(c)
           ended(x) == [V!Idle EXCEPT !.pc = "end", !.tuple = checks[x].tuple, !.answer = what, !.told = clock]
<1>1. /\ StatusTypes /\ (\A x \in Calls : CallAt(x)) /\ Requested /\ Kept /\ Spaced
      /\ \A x \in Calls : checks[x].pc # "idle" => checks[x].tuple \in Tuples /\ V!Role(x) \in V!Roles
      /\ None \notin Calls /\ None \notin Tuples
  BY StatusFacts
<1>2. \A x \in Calls : checks'[x] = IF x \in ends THEN ended(x) ELSE checks[x]
  BY DEF V!Answers, Calls
<1>3. \A x \in Calls : x \in ends <=> x = c \/ (checks[x].pc = "join" /\ active[V!Role(x)] = c)
  BY DEF V!Joined, Calls
<1>4. \A x \in Calls : x \in ends => checks[x].pc # "idle" /\ checks[x].tuple = checks[c].tuple
  BY <1>1, <1>3 DEF Requested, UnderWay
<1> HIDE DEF ends
<1>5. \A x \in Calls : /\ checks'[x].tuple = checks[x].tuple /\ V!Role(x)' = V!Role(x)
                       /\ checks'[x].pc = "idle" <=> checks[x].pc = "idle"
                       /\ checks'[x].pc # "end" => checks'[x] = checks[x] /\ x \notin ends
  BY <1>2, <1>4 DEF V!Role, V!Idle
<1>6. \A x \in Calls : CallAt(x)'
  <2> SUFFICES ASSUME NEW x \in Calls PROVE CallAt(x)'
    OBVIOUS
  <2>1. CASE x \in ends
    <3>1. /\ checks'[x].pc = "end" /\ checks'[x].answer = what /\ checks'[x].told = clock
          /\ checks'[x].tuple = checks[x].tuple /\ checks[x].tuple = checks[c].tuple /\ checks[x].tuple # None
      BY <1>1, <1>2, <1>4, <2>1 DEF V!Idle
    <3> QED BY <3>1 DEF CallAt
  <2>2. CASE x \notin ends
    <3>1. CallAt(x) /\ checks'[x] = checks[x]
      BY <1>1, <1>2, <2>2
    <3> QED BY <1>5, <3>1 DEF CallAt
  <2> QED BY <2>1, <2>2
<1>7. /\ active \in [V!Roles -> Calls \cup {None}] /\ V!Role(c) \in V!Roles /\ active[V!Role(c)] = c
      /\ active'[V!Role(c)] = None /\ \A r \in V!Roles : r # V!Role(c) => active'[r] = active[r]
  BY <1>1 DEF StatusTypes, V!Release, Requested, UnderWay
<1>8. Requested'
  <2>1. ASSUME NEW x \in Calls, checks'[x].pc \in UnderWay PROVE active'[V!Role(x)] = x
    <3>1. checks[x].pc \in UnderWay /\ x \notin ends
      BY <1>5, <2>1 DEF UnderWay
    <3>2. active[V!Role(x)] = x /\ x # c /\ V!Role(x) \in V!Roles
      BY <1>1, <1>3, <3>1 DEF Requested, UnderWay
    <3> QED BY <1>7, <3>2
  <2>2. ASSUME NEW x \in Calls, checks'[x].pc = "join"
        PROVE  active'[V!Role(x)] \in Calls /\ checks'[active'[V!Role(x)]].tuple = checks'[x].tuple
    <3>1. checks[x].pc = "join" /\ x \notin ends
      BY <1>5, <2>2
    <3>2. active[V!Role(x)] # c
      BY <1>3, <3>1
    <3>3. active[V!Role(x)] \in Calls /\ checks[active[V!Role(x)]].tuple = checks[x].tuple /\ V!Role(x) \in V!Roles
      BY <1>1, <3>1 DEF Requested
    <3>4. active'[V!Role(x)] = active[V!Role(x)]
      BY <1>7, <3>2, <3>3
    <3> QED BY <1>5, <3>3, <3>4
  <2>3. ASSUME NEW r \in V!Roles, active'[r] # None PROVE checks'[active'[r]].pc \in UnderWay /\ V!Role(active'[r]) = r
    <3>1. r # V!Role(c) /\ active'[r] = active[r]
      BY <1>7, <2>3
    <3>2. active[r] \in Calls /\ checks[active[r]].pc \in UnderWay /\ V!Role(active[r]) = r
      BY <1>1, <2>3, <3>1 DEF Requested, StatusTypes
    <3>3. active[r] \notin ends
      BY <1>3, <3>1, <3>2 DEF UnderWay
    <3> QED BY <1>2, <3>1, <3>2, <3>3
  <2>4. \A r \in V!Roles : active'[r] # None => active'[r] \in Calls
    BY <1>7
  <2> QED BY <1>5, <2>1, <2>2, <2>3, <2>4 DEF Requested
<1>9. Kept'
  <2>1. \A r \in V!Roles : slot'[r] # None => slot'[r] = c \/ (slot[r] = slot'[r] /\ slot[r] \in Calls)
    BY <1>1 DEF StatusTypes
  <2>2. checks[c].pc # "idle"
    BY DEF UnderWay
  <2> QED BY <1>1, <1>5, <2>1, <2>2 DEF Kept
<1>10. Spaced'
  <2>1. \A a \in asked : a.by \in Calls
    BY <1>1 DEF StatusTypes
  <2> QED BY <1>1, <1>5, <2>1 DEF Spaced
<1> QED BY <1>6, <1>8, <1>9, <1>10 DEF StatusInv

\* The types of what the steps of a check leave.
CallType ==
  [pc : {"idle", "prepare", "look", "cached", "join", "end"} \cup UnderWay, tuple : Tuples \cup {None},
   from : Calls \cup {None}, got : V!Response \cup {None}, at : Int, deadline : Int,
   answer : V!Status \cup {None}, told : Int]

LEMMA AnswerTypes ==
  ASSUME V!StatusAssumption, StatusInv, NEW set, NEW what \in V!Status \cup {None}, V!Answers(set, what)
  PROVE  /\ checks' \in [Calls -> CallType]
         /\ \A c \in set \cap Calls : /\ checks'[c].pc = "end" /\ checks'[c].tuple = checks[c].tuple
                                      /\ checks'[c].answer = what /\ checks'[c].told = clock
<1>1. /\ checks \in [Calls -> CallType] /\ clock \in Int
  BY DEF StatusInv, StatusTypes, CallType
<1>2. \A c \in Calls : checks[c].tuple \in Tuples \cup {None}
  BY <1>1 DEF CallType
<1>3. ASSUME NEW c \in Calls
      PROVE  [V!Idle EXCEPT !.pc = "end", !.tuple = checks[c].tuple, !.answer = what, !.told = clock] \in CallType
  <2>1. checks[c].tuple \in Tuples \cup {None} /\ clock \in Int
    BY <1>1, <1>2
  <2>2. V!Idle \in CallType
    BY DEF V!Idle, CallType
  <2> HIDE DEF V!Idle
  <2> QED BY <2>1, <2>2 DEF CallType
<1>4. checks' = [c \in Calls |->
        IF c \in set THEN [V!Idle EXCEPT !.pc = "end", !.tuple = checks[c].tuple, !.answer = what, !.told = clock]
        ELSE checks[c]]
  BY DEF V!Answers, Calls
<1>5. checks' \in [Calls -> CallType]
  BY <1>1, <1>3, <1>4
<1> QED BY <1>4, <1>5 DEF V!Idle

LEMMA StatusTyped ==
  ASSUME StatusInv, clock' \in Int, checks' \in [Calls -> CallType],
         \/ UNCHANGED slot \/ \E c \in Calls, r \in V!Roles : slot' = [slot EXCEPT ![r] = c],
         \/ UNCHANGED cache \/ \E c \in Calls, v \in V!Status \cup {None} : cache' = [cache EXCEPT ![c] = v],
         \/ UNCHANGED active \/ \E c \in Calls \cup {None}, r \in V!Roles : active' = [active EXCEPT ![r] = c],
         \/ UNCHANGED notBefore \/ \E t \in Int, r \in V!Roles : notBefore' = [notBefore EXCEPT ![r] = t],
         \/ UNCHANGED asked \/ \E c \in Calls : asked' = asked \cup {[by |-> c, at |-> clock]}
  PROVE  StatusTypes'
<1>1. StatusTypes
  BY DEF StatusInv
<1>2. slot' \in [V!Roles -> Calls \cup {None}] /\ active' \in [V!Roles -> Calls \cup {None}]
  BY <1>1 DEF StatusTypes
<1>3. cache' \in [Calls -> V!Status \cup {None}] /\ notBefore' \in [V!Roles -> Int]
  BY <1>1 DEF StatusTypes
<1>4. asked' \subseteq [by : Calls, at : Int]
  BY <1>1 DEF StatusTypes
<1> QED BY <1>2, <1>3, <1>4 DEF StatusTypes, CallType

\* The way in when no status is kept, whatever the read left of a cache.
LEMMA EnterKeeps ==
  ASSUME V!StatusAssumption, StatusInv, NEW c \in Calls, checks[c].pc \in {"look", "cached"}, V!Enter(c),
         UNCHANGED <<clock, slot>>, cache' = cache \/ \E x \in Calls : cache' = [cache EXCEPT ![x] = None]
  PROVE  StatusInv'
<1> DEFINE role == V!Role(c)
<1>1. /\ StatusTypes /\ (\A x \in Calls : CallAt(x)) /\ Requested
      /\ checks[c].tuple \in Tuples /\ role \in V!Roles
      /\ None \notin Calls /\ None \notin Tuples /\ Spacing \in Nat
  BY StatusFacts
<1>2. checks \in [Calls -> CallType] /\ clock \in Int /\ notBefore \in [V!Roles -> Int]
  BY <1>1 DEF StatusTypes, CallType
<1>3. \A x \in Calls : cache'[x] \in {cache[x], None}
  BY <1>1 DEF StatusTypes
<1>4. checks[c].answer = None /\ checks[c].pc # "idle"
  BY <1>1 DEF CallAt
<1>5. CASE V!Unavailable({c}) /\ UNCHANGED <<active, notBefore, asked>>
  <2>1. /\ checks' \in [Calls -> CallType]
        /\ checks'[c].pc = "end" /\ checks'[c].tuple = checks[c].tuple /\ checks'[c].answer = None
    BY <1>5, AnswerTypes DEF V!Unavailable
  <2>2. checks' = [checks EXCEPT ![c] = checks'[c]]
    BY <1>2, <1>5 DEF V!Unavailable, V!Answers, Calls
  <2>3. StatusTypes'
    BY <1>2, <1>5, <2>1, StatusTyped
  <2> QED BY <1>1, <1>3, <1>4, <1>5, <2>1, <2>2, <2>3, OwnKeeps DEF UnderWay, OwnCache
<1>6. CASE /\ active[role] # None /\ checks[c].tuple = checks[active[role]].tuple
           /\ checks' = [checks EXCEPT ![c].pc = "join"] /\ UNCHANGED <<active, notBefore, asked>>
  <2> DEFINE n == [checks[c] EXCEPT !.pc = "join"]
  <2>1. checks' = [checks EXCEPT ![c] = n] /\ n \in CallType
    BY <1>2, <1>6 DEF CallType
  <2>2. n.pc = "join" /\ n.tuple = checks[c].tuple /\ n.answer = None
    BY <1>2, <1>4 DEF CallType
  <2>3. StatusTypes'
    <3>1. checks' \in [Calls -> CallType]
      BY <1>2, <2>1
    <3> QED BY <1>2, <1>6, <3>1, StatusTyped
  <2>4. active[RoleOf[n.tuple]] \in Calls /\ checks[active[RoleOf[n.tuple]]].tuple = n.tuple
    BY <1>1, <1>6, <2>2 DEF StatusTypes, V!Role
  <2> HIDE DEF n
  <2> QED BY <1>1, <1>3, <1>4, <1>6, <2>1, <2>2, <2>3, <2>4, OwnKeeps DEF UnderWay, OwnCache
<1>7. CASE /\ ~(clock < notBefore[role]) /\ active[role] = None
           /\ active' = [active EXCEPT ![role] = c] /\ notBefore' = [notBefore EXCEPT ![role] = clock + Spacing]
           /\ asked' = asked \cup {[by |-> c, at |-> clock]}
           /\ checks' = [checks EXCEPT ![c].pc = "fetch", ![c].deadline = clock + Timeout]
  <2>1. checks' \in [Calls -> CallType]
    <3>1. clock + Timeout \in Int
      BY <1>2 DEF V!StatusAssumption
    <3>2. [checks[c] EXCEPT !.pc = "fetch", !.deadline = clock + Timeout] \in CallType
      BY <1>2, <3>1 DEF CallType, UnderWay
    <3>3. checks' = [checks EXCEPT ![c] = [checks[c] EXCEPT !.pc = "fetch", !.deadline = clock + Timeout]]
      BY <1>2, <1>7
    <3> QED BY <1>2, <3>2, <3>3
  <2>2. /\ checks'[c].pc = "fetch" /\ checks'[c].tuple = checks[c].tuple /\ checks'[c].answer = None
        /\ \A x \in Calls : x # c => checks'[x] = checks[x]
    BY <1>2, <1>4, <1>7 DEF CallType
  <2>3. StatusTypes'
    <3>1. clock + Spacing \in Int
      BY <1>1, <1>2
    <3> QED BY <1>1, <1>2, <1>7, <2>1, <3>1, StatusTyped
  <2>4. notBefore[role] <= clock
    BY <1>1, <1>2, <1>7
  <2> QED BY <1>3, <1>7, <2>2, <2>3, <2>4, AskKeeps
<1> QED BY <1>5, <1>6, <1>7 DEF V!Enter, V!IsSame


\* What was asked is not asked of others, and what was answered stays.
Steady == \A c \in Calls :
  checks[c].pc # "idle" => /\ checks'[c].pc # "idle" /\ checks'[c].tuple = checks[c].tuple
                           /\ checks[c].pc = "end" => checks'[c] = checks[c]

LEMMA CheckKeeps ==
  ASSUME V!StatusAssumption, StatusInv, NEW c \in Calls, NEW t \in Tuples, V!Check(c, t)
  PROVE  StatusInv' /\ Steady
<1> DEFINE n == [checks[c] EXCEPT !.pc = "prepare", !.tuple = t, !.at = clock]
<1>1. /\ StatusTypes /\ CallAt(c) /\ None \notin Tuples
  BY StatusFacts
<1>2. checks \in [Calls -> CallType] /\ clock \in Int
  BY <1>1 DEF StatusTypes, CallType
<1>3. checks[c].pc = "idle" /\ checks' = [checks EXCEPT ![c] = n]
  BY <1>2 DEF V!Check
<1>4. n \in CallType /\ n.pc = "prepare" /\ n.tuple = t /\ n.answer = None
  BY <1>1, <1>2, <1>3 DEF CallType, CallAt
<1> HIDE DEF n
<1>5. checks' \in [Calls -> CallType]
  BY <1>2, <1>3, <1>4
<1>6. StatusTypes'
  BY <1>2, <1>5, StatusTyped DEF V!Check
<1>7. StatusInv'
  <2>1. UNCHANGED <<clock, slot, cache, active, notBefore, asked>>
    BY DEF V!Check
  <2> QED BY <1>1, <1>3, <1>4, <1>6, <2>1, OwnKeeps DEF UnderWay, OwnCache
<1> QED BY <1>2, <1>3, <1>7 DEF Steady

LEMMA PrepareKeeps ==
  ASSUME V!StatusAssumption, StatusInv, NEW c \in Calls, V!Prepare(c)
  PROVE  StatusInv' /\ Steady
<1>1. /\ StatusTypes /\ CallAt(c) /\ None \notin Tuples /\ checks[c].pc = "prepare"
      /\ checks[c].tuple \in Tuples
  BY StatusFacts DEF V!Prepare
<1>2. checks \in [Calls -> CallType] /\ clock \in Int
  BY <1>1 DEF StatusTypes, CallType
<1>3. checks[c].answer = None
  BY <1>1 DEF CallAt
<1>4. /\ checks' = [checks EXCEPT ![c] = checks'[c]] /\ checks' \in [Calls -> CallType]
      /\ checks'[c].pc \in {"look", "end"} /\ checks'[c].tuple = checks[c].tuple /\ checks'[c].answer = None
  <2>1. CASE checks' = [checks EXCEPT ![c].pc = "look", ![c].at = 0]
    <3> PICK z \in Int : z = 0
      OBVIOUS
    <3> DEFINE n == [checks[c] EXCEPT !.pc = "look", !.at = z]
    <3>1. checks' = [checks EXCEPT ![c] = n]
      BY <1>2, <2>1
    <3>2. n \in CallType /\ n.pc = "look" /\ n.tuple = checks[c].tuple /\ n.answer = None
      BY <1>2, <1>3 DEF CallType
    <3> HIDE DEF n
    <3>3. checks'[c] = n
      BY <1>2, <3>1
    <3> QED BY <1>2, <3>1, <3>2, <3>3
  <2>2. CASE V!Unavailable({c})
    <3>1. /\ checks' \in [Calls -> CallType] /\ checks'[c].pc = "end"
          /\ checks'[c].tuple = checks[c].tuple /\ checks'[c].answer = None
      BY <2>2, AnswerTypes DEF V!Unavailable
    <3>2. checks' = [checks EXCEPT ![c] = checks'[c]]
      BY <1>2, <2>2 DEF V!Unavailable, V!Answers, Calls
    <3> QED BY <3>1, <3>2
  <2> QED BY <2>1, <2>2 DEF V!Prepare
<1>5. UNCHANGED <<clock, slot, cache, active, notBefore, asked>>
  BY DEF V!Prepare
<1>6. StatusTypes'
  BY <1>2, <1>4, <1>5, StatusTyped
<1>7. StatusInv'
  BY <1>1, <1>3, <1>4, <1>5, <1>6, OwnKeeps DEF UnderWay, OwnCache
<1> QED BY <1>1, <1>2, <1>4, <1>7 DEF Steady

LEMMA EnterSteady ==
  ASSUME V!StatusAssumption, StatusInv, NEW c \in Calls, checks[c].pc \in {"look", "cached"}, V!Enter(c)
  PROVE  Steady
<1>1. checks \in [Calls -> CallType]
  BY DEF StatusInv, StatusTypes, CallType
<1>2. CASE V!Unavailable({c})
  BY <1>1, <1>2, AnswerTypes DEF V!Unavailable, V!Answers, Calls, Steady
<1>3. CASE checks' = [checks EXCEPT ![c].pc = "join"]
  BY <1>1, <1>3 DEF CallType, Steady
<1>4. CASE checks' = [checks EXCEPT ![c].pc = "fetch", ![c].deadline = clock + Timeout]
  BY <1>1, <1>4 DEF CallType, Steady
<1> QED BY <1>2, <1>3, <1>4 DEF V!Enter

LEMMA LookKeeps ==
  ASSUME V!StatusAssumption, StatusInv, NEW c \in Calls, V!Look(c)
  PROVE  StatusInv' /\ Steady
<1> DEFINE held == slot[V!Role(c)]
           n == [checks[c] EXCEPT !.pc = "cached", !.from = held]
<1>1. /\ StatusTypes /\ CallAt(c) /\ Kept /\ None \notin Tuples /\ checks[c].pc = "look"
      /\ checks[c].tuple \in Tuples /\ V!Role(c) \in V!Roles
  BY StatusFacts DEF V!Look
<1>2. CASE held # None /\ V!IsSame(c, held) /\ checks' = [checks EXCEPT ![c].pc = "cached", ![c].from = held]
           /\ UNCHANGED <<active, notBefore, asked>>
  <2>1. checks \in [Calls -> CallType] /\ clock \in Int /\ held \in Calls
    BY <1>1, <1>2 DEF StatusTypes, CallType
  <2>2. checks' = [checks EXCEPT ![c] = n]
    BY <1>2, <2>1
  <2>3. n \in CallType /\ n.pc = "cached" /\ n.from = held /\ n.tuple = checks[c].tuple /\ n.answer = None
    BY <1>1, <2>1 DEF CallType, CallAt
  <2>4. checks[held].tuple = n.tuple /\ checks[held].pc # "idle"
    BY <1>1, <1>2, <2>3 DEF V!IsSame, Kept
  <2>5. UNCHANGED <<clock, slot, cache, active, notBefore, asked>>
    BY <1>2 DEF V!Look
  <2> HIDE DEF n, held
  <2>6. StatusTypes'
    <3>1. checks' \in [Calls -> CallType]
      BY <2>1, <2>2, <2>3
    <3> QED BY <2>1, <2>5, <3>1, StatusTyped
  <2>7. StatusInv'
    BY <1>1, <2>1, <2>2, <2>3, <2>4, <2>5, <2>6, OwnKeeps DEF UnderWay, OwnCache
  <2> QED BY <1>1, <2>1, <2>2, <2>3, <2>7 DEF Steady
<1>3. CASE V!Enter(c)
  BY <1>1, <1>3, EnterKeeps, EnterSteady DEF V!Look
<1> QED BY <1>2, <1>3 DEF V!Look

LEMMA ReadCacheKeeps ==
  ASSUME V!StatusAssumption, StatusInv, NEW c \in Calls, V!ReadCache(c)
  PROVE  StatusInv' /\ Steady
<1> DEFINE from == checks[c].from
<1>1. /\ StatusTypes /\ CallAt(c) /\ Kept /\ None \notin Tuples /\ checks[c].pc = "cached"
      /\ checks[c].tuple \in Tuples
  BY StatusFacts DEF V!ReadCache
<1>2. from \in Calls /\ checks[from].tuple = checks[c].tuple /\ checks[c].answer = None
  BY <1>1 DEF CallAt
<1>3. CASE V!IsFresh(cache[from]) /\ V!Answers({c}, cache[from]) /\ UNCHANGED <<cache, active, notBefore, asked>>
  <2>1. checks \in [Calls -> CallType] /\ clock \in Int /\ cache[from] \in V!Status
    BY <1>1, <1>2, <1>3 DEF StatusTypes, CallType, V!IsFresh
  <2>2. /\ checks' \in [Calls -> CallType] /\ checks'[c].pc = "end" /\ checks'[c].tuple = checks[c].tuple
        /\ checks'[c].answer = cache[from] /\ checks'[c].told = clock
    BY <1>3, <2>1, AnswerTypes
  <2>3. checks' = [checks EXCEPT ![c] = checks'[c]]
    BY <1>3, <2>1 DEF V!Answers, Calls
  <2>4. /\ cache[from].tuple = checks[c].tuple /\ Sound(cache[from])
        /\ cache[from].checkedAt <= clock /\ clock < cache[from].until
    BY <1>1, <1>2, <1>3 DEF Kept, V!IsFresh
  <2>5. UNCHANGED <<clock, slot, cache, active, notBefore, asked>>
    BY <1>3 DEF V!ReadCache
  <2>6. StatusTypes'
    BY <2>1, <2>2, <2>5, StatusTyped
  <2>7. StatusInv'
    BY <1>1, <2>2, <2>3, <2>4, <2>5, <2>6, OwnKeeps DEF UnderWay, OwnCache
  <2> QED BY <1>1, <2>1, <2>2, <2>3, <2>7 DEF Steady
<1>4. CASE cache' = [cache EXCEPT ![from] = None] /\ V!Enter(c)
  <2>1. UNCHANGED <<clock, slot>>
    BY DEF V!ReadCache
  <2> QED BY <1>1, <1>2, <1>4, <2>1, EnterKeeps, EnterSteady
<1> QED BY <1>3, <1>4 DEF V!ReadCache

LEMMA RespondKeeps ==
  ASSUME V!StatusAssumption, StatusInv, NEW c \in Calls, V!Respond(c)
  PROVE  StatusInv' /\ Steady
<1>1. /\ StatusTypes /\ CallAt(c) /\ None \notin Tuples /\ checks[c].pc = "fetch"
      /\ checks[c].tuple \in Tuples /\ checks[c].answer = None
  BY StatusFacts DEF V!Respond, CallAt
<1>2. checks \in [Calls -> CallType] /\ clock \in Int
  BY <1>1 DEF StatusTypes, CallType
<1>3. PICK r \in Responses : checks' = [checks EXCEPT ![c].pc = "verify", ![c].got = r, ![c].at = clock]
  BY DEF V!Respond
<1> DEFINE n == [checks[c] EXCEPT !.pc = "verify", !.got = r, !.at = clock]
<1>4. r \in V!Response
  BY DEF V!StatusAssumption
<1>5. checks' = [checks EXCEPT ![c] = n]
  BY <1>2, <1>3
<1>6. n \in CallType /\ n.pc = "verify" /\ n.got = r /\ n.tuple = checks[c].tuple /\ n.answer = None
  BY <1>1, <1>2, <1>4 DEF CallType, UnderWay
<1> HIDE DEF n
<1>7. UNCHANGED <<clock, slot, cache, active, notBefore, asked>>
  BY DEF V!Respond
<1>8. StatusTypes'
  <2>1. checks' \in [Calls -> CallType]
    BY <1>2, <1>5, <1>6
  <2> QED BY <1>2, <1>7, <2>1, StatusTyped
<1>9. StatusInv'
  BY <1>1, <1>4, <1>5, <1>6, <1>7, <1>8, OwnKeeps DEF UnderWay, OwnCache
<1> QED BY <1>1, <1>2, <1>5, <1>6, <1>9 DEF Steady

LEMMA PutKeeps ==
  ASSUME V!StatusAssumption, StatusInv, NEW c \in Calls, V!Put(c)
  PROVE  StatusInv' /\ Steady
<1> DEFINE t == checks[c].tuple
           r == checks[c].got
           at == checks[c].at
           v == [tuple |-> t, checkedAt |-> at, until |-> V!Until(r, t, at), this |-> r.this, next |-> r.next]
           n == [checks[c] EXCEPT !.pc = "stored"]
<1>1. /\ StatusTypes /\ CallAt(c) /\ None \notin Tuples /\ checks[c].pc = "verify"
      /\ checks[c].tuple \in Tuples /\ checks[c].answer = None /\ r \in V!Response
  BY StatusFacts DEF V!Put, CallAt
<1>2. checks \in [Calls -> CallType] /\ clock \in Int /\ cache \in [Calls -> V!Status \cup {None}] /\ at \in Int
  BY <1>1 DEF StatusTypes, CallType
<1>3. V!Until(r, t, at) \in Int /\ V!Until(r, t, at) <= r.next /\ V!Until(r, t, at) <= at + CacheLife /\ r.this <= at
  BY <1>1, <1>2, UntilBounds DEF V!Put, V!Qualifies
<1>4. v \in V!Status /\ Sound(v) /\ v.tuple = t
  BY <1>1, <1>2, <1>3 DEF Sound, V!Status, V!Response
<1>5. cache' = [cache EXCEPT ![c] = v]
  BY DEF V!Put
<1>6. checks' = [checks EXCEPT ![c] = n]
  BY <1>2 DEF V!Put
<1>7. n \in CallType /\ n.pc = "stored" /\ n.tuple = t /\ n.answer = None
  BY <1>1, <1>2 DEF CallType, UnderWay
<1> HIDE DEF n, v
<1>8. UNCHANGED <<clock, slot, active, notBefore, asked>>
  BY DEF V!Put
<1>9. StatusTypes'
  <2>1. checks' \in [Calls -> CallType]
    BY <1>2, <1>6, <1>7
  <2> QED BY <1>2, <1>4, <1>5, <1>8, <2>1, StatusTyped
<1>10. OwnCache(c, n.tuple)
  BY <1>2, <1>4, <1>5, <1>7 DEF OwnCache
<1>11. StatusInv'
  <2>1. checks[c].pc \notin {"join", "end"} /\ n.pc \notin {"join", "cached", "verify", "idle"} /\ n.tuple # None
    BY <1>1, <1>7
  <2>2. n.pc \in UnderWay <=> checks[c].pc \in UnderWay
    BY <1>1, <1>7 DEF UnderWay
  <2>3. n.tuple = checks[c].tuple /\ n.answer = None
    BY <1>7
  <2> HIDE DEF t, r, at
  <2> QED BY <1>6, <1>8, <1>9, <1>10, <2>1, <2>2, <2>3, OwnKeeps
<1> QED BY <1>1, <1>2, <1>6, <1>7, <1>11 DEF Steady

\* A request that ends answers itself and those who joined it, who had none.
LEMMA PromoteDropKeep ==
  ASSUME V!StatusAssumption, StatusInv, NEW c \in Calls, V!Promote(c) \/ V!Drop(c)
  PROVE  StatusInv' /\ Steady
<1>0. /\ checks[c].pc \in UnderWay /\ V!Release(c) /\ UNCHANGED <<clock, cache, notBefore, asked>>
  <2>1. ASSUME V!Promote(c) PROVE checks[c].pc = "stored" /\ V!Release(c) /\ UNCHANGED <<clock, cache, notBefore, asked>>
    BY <2>1 DEF V!Promote
  <2>2. ASSUME V!Drop(c) PROVE checks[c].pc \in UnderWay /\ V!Release(c) /\ UNCHANGED <<clock, cache, notBefore, asked>>
    BY <2>2 DEF V!Drop, UnderWay
  <2> QED BY <2>1, <2>2 DEF UnderWay
<1>1. /\ StatusTypes /\ Kept /\ None \notin Calls /\ checks[c].pc \in UnderWay
      /\ checks[c].tuple \in Tuples /\ V!Role(c) \in V!Roles /\ V!Release(c)
      /\ UNCHANGED <<clock, cache, notBefore, asked>>
  BY <1>0, StatusFacts DEF UnderWay
<1>2. PICK what \in V!Status \cup {None} :
        /\ V!Answers({c} \cup V!Joined(c), what)
        /\ what # None => /\ what.tuple = checks[c].tuple /\ Sound(what) /\ what.checkedAt <= clock /\ clock < what.until
  <2>1. CASE V!Promote(c)
    <3>1. cache[c] \in V!Status /\ V!IsFresh(cache[c]) /\ V!Answers({c} \cup V!Joined(c), cache[c])
      BY <1>1, <2>1 DEF V!Promote, V!IsFresh, StatusTypes
    <3>2. cache[c].tuple = checks[c].tuple /\ Sound(cache[c])
      BY <1>1, <3>1 DEF Kept, V!IsFresh
    <3> QED BY <3>1, <3>2 DEF V!IsFresh
  <2>2. CASE V!Drop(c)
    BY <2>2 DEF V!Drop, V!Unavailable
  <2> QED BY <2>1, <2>2
<1>3. checks' \in [Calls -> CallType] /\ clock \in Int
  BY <1>1, <1>2, AnswerTypes DEF StatusTypes
<1>4. slot' = slot \/ slot' = [slot EXCEPT ![V!Role(c)] = c]
  BY DEF V!Promote, V!Drop
<1>5. StatusTypes'
  BY <1>1, <1>3, <1>4, StatusTyped DEF V!Release
<1>6. StatusInv'
  BY <1>1, <1>2, <1>4, <1>5, EndKeeps
<1>7. Steady
  <2>1. \A x \in Calls : x \in {c} \cup V!Joined(c) => checks[x].pc \in UnderWay \cup {"join"}
    BY <1>1 DEF V!Joined
  <2>2. \A x \in Calls : x \in {c} \cup V!Joined(c) => checks'[x].pc = "end" /\ checks'[x].tuple = checks[x].tuple
    BY <1>2, AnswerTypes
  <2>3. \A x \in Calls : x \notin {c} \cup V!Joined(c) => checks'[x] = checks[x]
    BY <1>2 DEF V!Answers, Calls
  <2> QED BY <2>1, <2>2, <2>3 DEF Steady, UnderWay
<1> QED BY <1>6, <1>7

LEMMA TimeKeeps ==
  ASSUME V!StatusAssumption, StatusInv, clock' \in Int,
         UNCHANGED <<slot, cache, active, notBefore, checks, asked>>
  PROVE  StatusInv' /\ Steady
<1>1. StatusTypes'
  BY DEF StatusInv, StatusTypes
<1>2. \A c \in Calls : CallAt(c)'
  BY DEF StatusInv, CallAt
<1>3. (Requested /\ Kept /\ Spaced)' /\ Steady
  BY DEF StatusInv, Requested, Kept, Spaced, V!Role, Steady
<1> QED BY <1>1, <1>2, <1>3 DEF StatusInv

LEMMA AdvanceKeeps ==
  ASSUME V!StatusAssumption, StatusInv, NEW c \in Calls, V!Advance(c)
  PROVE  StatusInv' /\ Steady
BY PrepareKeeps, LookKeeps, ReadCacheKeeps, RespondKeeps, PutKeeps, PromoteDropKeep DEF V!Advance

LEMMA TickKeeps == ASSUME V!StatusAssumption, StatusInv, V!Tick PROVE StatusInv' /\ Steady
<1>1. clock' \in Int
  BY DEF V!Tick, V!StatusAssumption
<1> QED BY <1>1, TimeKeeps DEF V!Tick, V!status

LEMMA StatusStep ==
  ASSUME V!StatusAssumption, StatusInv, [V!StatusNext]_<<clock, V!status>>
  PROVE  StatusInv'
<1>1. CASE UNCHANGED <<clock, V!status>>
  <2>1. clock' \in Int
    BY <1>1 DEF StatusInv, StatusTypes
  <2> QED BY <1>1, <2>1, TimeKeeps DEF V!status
<1>2. ASSUME NEW c \in Calls, V!Advance(c) \/ \E t \in Tuples : V!Check(c, t) PROVE StatusInv'
  BY <1>2, AdvanceKeeps, CheckKeeps
<1> QED BY <1>1, <1>2, TickKeeps DEF V!StatusNext, Calls

LEMMA StatusEnough == ASSUME V!StatusAssumption, StatusInv PROVE V!StatusTruthful
<1>1. /\ StatusTypes /\ (\A x \in Calls : CallAt(x)) /\ Requested /\ Spaced
      /\ \A x \in Calls : checks[x].pc # "idle" => checks[x].tuple \in Tuples /\ V!Role(x) \in V!Roles
      /\ None \notin Calls
  BY StatusFacts
<1>2. V!ToldTruth
  BY <1>1 DEF V!ToldTruth, CallAt, Sound, Calls
<1>3. ASSUME NEW x \in Calls, checks[x].pc = "join" PROVE checks[active[V!Role(x)]].pc \in UnderWay
  <2>1. active[V!Role(x)] \in Calls /\ V!Role(x) \in V!Roles
    BY <1>1, <1>3 DEF Requested
  <2> QED BY <1>1, <2>1 DEF Requested
<1>4. \A r, s \in asked : r # s /\ V!IsSameRole(r.by, s.by) => r.at - s.at >= Spacing \/ s.at - r.at >= Spacing
  BY <1>1 DEF Spaced, V!IsSameRole
<1>5. V!AskedApart
  BY <1>1, <1>3, <1>4 DEF V!AskedApart, Requested, Calls, UnderWay
<1> QED BY <1>2, <1>5 DEF V!StatusTruthful

\* What a check is told holds when it is told, and requests of a role leave
\* one at a time and apart (CommonStatusClient.check).
THEOREM StatusIsTruthful == V!StatusSpec => []V!StatusTruthful
<1>1. V!StatusInit => StatusInv
  BY RelayAssumption, StatusStarts DEF V!EvidenceAssumption
<1>2. StatusInv /\ [V!StatusNext]_<<clock, V!status>> => StatusInv'
  BY RelayAssumption, StatusStep DEF V!EvidenceAssumption
<1>3. StatusInv => V!StatusTruthful
  BY RelayAssumption, StatusEnough DEF V!EvidenceAssumption
<1> QED BY <1>1, <1>2, <1>3, PTL DEF V!StatusSpec

-----------------------------------------------------------------------------
(***************************************************************************)
(* The evidence of an enrollment.                                          *)
(***************************************************************************)
SavedType == [challenge : Challenges \cup {None}, policy : [revision : Int, enabled : BOOLEAN, until : Int]]
VerificationType ==
  [pc : {"idle", "core", "digest", "cms", "crl", "ocsp", "end"}, attestation : Attestations \cup {None},
   initial : SavedType \cup {None}, since : Int, deadline : Int,
   answer : {None, "rejected", "thrown", "unavailable", "evidence"}]

EvidenceTypes == /\ saved \in SavedType /\ verifying \in Verifies \cup {None}
                 /\ verifications \in [Verifies -> VerificationType]

IsOf(call, t) == checks[call].pc # "idle" /\ checks[call].tuple = t
IsOver(call, t) == checks[call].pc = "end" /\ checks[call].tuple = t

\* What a verification has found out by the await it is at.
VerificationAt(v) ==
  LET n == verifications[v]
      a == n.attestation
      r == a.receipt
      ch == n.initial.challenge
  IN /\ n.pc \notin {"idle", "end"} =>
          verifying = v /\ a \in Attestations /\ n.initial \in SavedType /\ ch \in Challenges
     /\ n.pc \in {"digest", "cms", "crl", "ocsp"} =>
          a.signed /\ a.key = ch.key /\ a.data = ch.data /\ n.deadline <= a.ends
     /\ n.pc \in {"crl", "ocsp"} =>
          r.signed /\ r.key = a.key /\ r.data = ch.data /\ n.deadline <= r.ends /\ IsOf(<<v, "crl">>, r.crl)
     /\ n.pc = "ocsp" => IsOver(<<v, "crl">>, r.crl) /\ IsOf(<<v, "ocsp">>, r.ocsp)

\* Evidence is of a verification that has ended, and of checks that have.
GivenAt(e) ==
  LET n == verifications[e.by]
      a == n.attestation
      r == a.receipt
      ch == e.saved.challenge
      crl == <<e.by, "crl">>
      ocsp == <<e.by, "ocsp">>
  IN /\ e.by \in Verifies /\ n.pc = "end" /\ a.signed /\ r.signed
     /\ a.key = ch.key /\ r.key = ch.key /\ a.data = ch.data /\ r.data = ch.data
     /\ e.at < e.until /\ e.until <= ch.until /\ e.until <= a.ends /\ e.until <= r.expires
     /\ e.until <= r.created + FreshFor + 1
     /\ IsOver(crl, r.crl) /\ checks[crl].answer.tuple = r.crl
     /\ checks[crl].answer.this <= e.at /\ e.until <= checks[crl].answer.until
     /\ IsOver(ocsp, r.ocsp) /\ checks[ocsp].answer.tuple = r.ocsp
     /\ checks[ocsp].answer.this <= e.at /\ e.until <= checks[ocsp].answer.until

EvidenceInv ==
  StatusInv /\ EvidenceTypes /\ (\A v \in Verifies : VerificationAt(v)) /\ (\A e \in given : GivenAt(e))

LEMMA EvidenceStarts == ASSUME V!EvidenceAssumption, V!EvidenceInit PROVE EvidenceInv
<1>1. StatusInv
  BY StatusStarts DEF V!EvidenceAssumption, V!EvidenceInit
<1>2. EvidenceTypes
  <2>1. saved \in SavedType /\ verifying = None /\ MaxClock \in Nat
    <3>1. verifying = None /\ MaxClock \in Nat
      BY DEF V!EvidenceInit, V!EvidenceAssumption, V!StatusAssumption
    <3>2. [revision |-> 0, enabled |-> TRUE, until |-> MaxClock] \in [revision : Int, enabled : BOOLEAN, until : Int]
      BY <3>1
    <3>3. saved \in [challenge : Challenges, policy : {[revision |-> 0, enabled |-> TRUE, until |-> MaxClock]}]
      BY DEF V!EvidenceInit
    <3>4. saved \in [challenge : Challenges \cup {None}, policy : [revision : Int, enabled : BOOLEAN, until : Int]]
      BY <3>2, <3>3
    <3> QED BY <3>1, <3>4 DEF SavedType
  <2>2. verifications \in [Verifies -> VerificationType]
    <3>1. MaxClock + 1 \in Int
      BY <2>1
    <3>2. [pc |-> "idle", attestation |-> None, initial |-> None, since |-> 0, deadline |-> MaxClock + 1,
           answer |-> None] \in VerificationType
      BY <3>1 DEF VerificationType
    <3> QED BY <3>2 DEF V!EvidenceInit
  <2> QED BY <2>1, <2>2 DEF EvidenceTypes
<1>3. (\A v \in Verifies : VerificationAt(v)) /\ given = {}
  BY DEF V!EvidenceInit, VerificationAt
<1> QED BY <1>1, <1>2, <1>3 DEF EvidenceInv

LEMMA CallsAre == \A v \in Verifies : <<v, "crl">> \in Calls /\ <<v, "ocsp">> \in Calls
BY DEF Calls

\* A step of one verification, beside what the checks do.
LEMMA VerificationKeeps ==
  ASSUME EvidenceInv, StatusInv', Steady, NEW v \in Verifies, NEW n \in VerificationType,
         None \notin Verifies, verifications[v].pc # "end",
         verifications' = [verifications EXCEPT ![v] = n], saved' = saved,
         \/ verifying' = verifying
         \/ verifying \in {v, None} /\ verifying' \in {v, None},
         VerificationAt(v)', \A e \in given' : e \in given \/ GivenAt(e)'
  PROVE  EvidenceInv'
<1>1. EvidenceTypes /\ (\A w \in Verifies : VerificationAt(w)) /\ (\A e \in given : GivenAt(e))
  BY DEF EvidenceInv
<1>2. \A w \in Verifies : w # v => verifications'[w] = verifications[w]
  BY <1>1 DEF EvidenceTypes
<1>3. EvidenceTypes'
  BY <1>1 DEF EvidenceTypes
<1>4. ASSUME NEW w \in Verifies, w # v PROVE VerificationAt(w)'
  <2>1. verifications'[w] = verifications[w] /\ VerificationAt(w)
    BY <1>1, <1>2, <1>4
  <2>2. verifications[w].pc \notin {"idle", "end"} => verifying' = w
    BY <1>4, <2>1 DEF VerificationAt
  <2>3. \A t : /\ IsOf(<<w, "crl">>, t) => IsOf(<<w, "crl">>, t)'
               /\ IsOf(<<w, "ocsp">>, t) => IsOf(<<w, "ocsp">>, t)'
               /\ IsOver(<<w, "crl">>, t) => IsOver(<<w, "crl">>, t)'
    BY CallsAre DEF Steady, IsOf, IsOver
  <2> QED BY <2>1, <2>2, <2>3 DEF VerificationAt
<1>5. ASSUME NEW e \in given PROVE GivenAt(e)'
  <2>1. GivenAt(e) /\ e.by \in Verifies /\ e.by # v
    BY <1>1, <1>5 DEF GivenAt
  <2>2. verifications'[e.by] = verifications[e.by]
    BY <1>2, <2>1
  <2>3. checks'[<<e.by, "crl">>] = checks[<<e.by, "crl">>] /\ checks'[<<e.by, "ocsp">>] = checks[<<e.by, "ocsp">>]
    BY <2>1, CallsAre DEF GivenAt, IsOver, Steady
  <2> QED BY <2>1, <2>2, <2>3 DEF GivenAt, IsOver
<1> QED BY <1>1, <1>3, <1>4, <1>5 DEF EvidenceInv

\* A step of the checks, of the clock or of what is saved.
LEMMA AsideKeeps ==
  ASSUME EvidenceInv, StatusInv', Steady, saved' \in SavedType, UNCHANGED <<verifying, verifications, given>>
  PROVE  EvidenceInv'
<1>1. EvidenceTypes /\ (\A w \in Verifies : VerificationAt(w)) /\ (\A e \in given : GivenAt(e))
  BY DEF EvidenceInv
<1>2. EvidenceTypes'
  BY <1>1 DEF EvidenceTypes
<1>3. ASSUME NEW w \in Verifies PROVE VerificationAt(w)'
  <2>1. \A t : /\ IsOf(<<w, "crl">>, t) => IsOf(<<w, "crl">>, t)'
               /\ IsOf(<<w, "ocsp">>, t) => IsOf(<<w, "ocsp">>, t)'
               /\ IsOver(<<w, "crl">>, t) => IsOver(<<w, "crl">>, t)'
    BY CallsAre DEF Steady, IsOf, IsOver
  <2>2. VerificationAt(w)
    BY <1>1
  <2> QED BY <2>1, <2>2 DEF VerificationAt
<1>4. ASSUME NEW e \in given PROVE GivenAt(e)'
  <2>1. GivenAt(e) /\ e.by \in Verifies
    BY <1>1 DEF GivenAt
  <2>2. checks'[<<e.by, "crl">>] = checks[<<e.by, "crl">>] /\ checks'[<<e.by, "ocsp">>] = checks[<<e.by, "ocsp">>]
    BY <2>1, CallsAre DEF GivenAt, IsOver, Steady
  <2> QED BY <2>1, <2>2 DEF GivenAt, IsOver
<1> QED BY <1>2, <1>3, <1>4 DEF EvidenceInv

\* The status client is left alone.
LEMMA StatusRests == ASSUME EvidenceInv, UNCHANGED <<clock, V!status>> PROVE StatusInv' /\ Steady
<1>1. StatusTypes'
  BY DEF EvidenceInv, StatusInv, StatusTypes, V!status
<1>2. \A c \in Calls : CallAt(c)'
  BY DEF EvidenceInv, StatusInv, CallAt, V!status
<1>3. (Requested /\ Kept /\ Spaced)' /\ Steady
  BY DEF EvidenceInv, StatusInv, Requested, Kept, Spaced, V!Role, Steady, V!status
<1> QED BY <1>1, <1>2, <1>3 DEF StatusInv

\* A verification ends without evidence.
LEMMA EndsKeep ==
  ASSUME V!EvidenceAssumption, EvidenceInv, NEW v \in Verifies, verifications[v].pc # "end",
         verifying \in {v, None}, NEW answer \in {"rejected", "thrown", "unavailable"}, V!Stop(v, answer),
         UNCHANGED <<clock, saved>>
  PROVE  EvidenceInv'
<1> DEFINE n == [verifications[v] EXCEPT !.pc = "end", !.answer = answer, !.since = 0]
<1>1. verifications \in [Verifies -> VerificationType]
  BY DEF EvidenceInv, EvidenceTypes
<1>2. /\ verifications' = [verifications EXCEPT ![v] = n] /\ verifying' = None
      /\ given' = given /\ UNCHANGED V!status
  BY <1>1 DEF V!Stop, V!End
<1>3. PICK z \in Int : z = 0
  OBVIOUS
<1>4. n \in VerificationType /\ n.pc = "end"
  <2>1. [verifications[v] EXCEPT !.pc = "end", !.answer = answer, !.since = z] \in VerificationType
    BY <1>1 DEF VerificationType
  <2> QED BY <1>1, <1>3, <2>1 DEF VerificationType
<1> HIDE DEF n
<1>5. VerificationAt(v)'
  <2>1. verifications'[v] = n
    BY <1>1, <1>2
  <2> QED BY <1>4, <2>1 DEF VerificationAt
<1>6. StatusInv' /\ Steady
  BY <1>2, StatusRests
<1>7. None \notin Verifies
  BY DEF V!EvidenceAssumption
<1> QED BY <1>2, <1>4, <1>5, <1>6, <1>7, VerificationKeeps

LEMMA ActiveFacts ==
  ASSUME V!EvidenceAssumption, EvidenceInv, NEW v \in Verifies, verifications[v].pc \notin {"idle", "end"}
  PROVE  /\ verifying = v /\ verifications[v].attestation \in V!Attestation /\ verifications[v].initial \in SavedType
         /\ verifications[v].attestation \in Attestations
         /\ verifications[v].initial.challenge \in V!Challenge /\ verifications[v].initial.challenge \in Challenges
         /\ verifications[v].attestation.receipt \in V!Receipt
         /\ None \notin Verifies /\ verifications[v] \in VerificationType
<1>1. VerificationAt(v) /\ EvidenceTypes
  BY DEF EvidenceInv
<1>2. verifications[v].attestation \in V!Attestation
  BY <1>1 DEF VerificationAt, V!EvidenceAssumption
<1> QED BY <1>1, <1>2 DEF VerificationAt, EvidenceTypes, V!EvidenceAssumption, V!Attestation

LEMMA HaltKeeps ==
  ASSUME V!EvidenceAssumption, EvidenceInv, NEW v \in Verifies, verifications[v].pc \notin {"idle", "end"},
         NEW holds, V!Halt(v, holds) \/ V!Stop(v, "thrown") \/ V!Stop(v, "unavailable"), UNCHANGED <<clock, saved>>
  PROVE  EvidenceInv'
<1>1. verifying = v /\ verifications[v].pc # "end"
  BY ActiveFacts
<1>2. \E answer \in {"rejected", "thrown", "unavailable"} : V!Stop(v, answer)
  BY DEF V!Halt
<1> QED BY <1>1, <1>2, EndsKeep

LEMMA VerifyKeeps ==
  ASSUME V!EvidenceAssumption, EvidenceInv, NEW v \in Verifies, V!Verify(v)
  PROVE  EvidenceInv'
<1>1. /\ verifications \in [Verifies -> VerificationType] /\ verifications[v].pc = "idle" /\ saved \in SavedType
      /\ clock \in Int /\ None \notin Verifies
  <2>1. verifications[v].pc = "idle"
    BY DEF V!Verify, V!Now
  <2> QED BY <2>1 DEF EvidenceInv, EvidenceTypes, StatusInv, StatusTypes, V!EvidenceAssumption
<1>2. StatusInv' /\ Steady
  BY StatusRests DEF V!Verify, V!status
<1>3. saved' = saved /\ given' = given /\ UNCHANGED <<clock, V!status>>
  BY DEF V!Verify
<1>4. PICK a \in Attestations, ch \in Challenges :
        \/ /\ verifying # None /\ UNCHANGED verifying
           /\ verifications' = [verifications EXCEPT ![v].pc = "end", ![v].answer = "rejected"]
        \/ /\ verifying = None /\ V!End(v, IF V!IsReadable THEN "rejected" ELSE "thrown")
        \/ /\ verifying = None /\ verifying' = v /\ saved.challenge = ch
           /\ verifications' = [verifications EXCEPT ![v] =
                [@ EXCEPT !.pc = "core", !.attestation = a, !.initial = saved, !.since = clock]]
  BY DEF V!Verify
<1>5. CASE /\ verifying # None /\ UNCHANGED verifying
           /\ verifications' = [verifications EXCEPT ![v].pc = "end", ![v].answer = "rejected"]
  <2> DEFINE n == [verifications[v] EXCEPT !.pc = "end", !.answer = "rejected"]
  <2>1. verifications' = [verifications EXCEPT ![v] = n] /\ n \in VerificationType /\ n.pc = "end"
    BY <1>1, <1>5 DEF VerificationType
  <2> HIDE DEF n
  <2>2. VerificationAt(v)'
    <3>1. verifications'[v] = n
      BY <1>1, <2>1
    <3> QED BY <2>1, <3>1 DEF VerificationAt
  <2> QED BY <1>1, <1>2, <1>3, <1>5, <2>1, <2>2, VerificationKeeps
<1>6. CASE verifying = None /\ V!End(v, IF V!IsReadable THEN "rejected" ELSE "thrown")
  <2>1. \E answer \in {"rejected", "thrown", "unavailable"} : V!Stop(v, answer)
    BY <1>3, <1>6 DEF V!Stop
  <2> QED BY <1>1, <1>3, <1>6, <2>1, EndsKeep
<1>7. CASE /\ verifying = None /\ verifying' = v /\ saved.challenge = ch
           /\ verifications' = [verifications EXCEPT ![v] =
                [@ EXCEPT !.pc = "core", !.attestation = a, !.initial = saved, !.since = clock]]
  <2> DEFINE n == [verifications[v] EXCEPT !.pc = "core", !.attestation = a, !.initial = saved, !.since = clock]
  <2>1. verifications' = [verifications EXCEPT ![v] = n]
    BY <1>1, <1>7
  <2>2. n \in VerificationType /\ n.pc = "core" /\ n.attestation = a /\ n.initial = saved
    BY <1>1 DEF VerificationType
  <2> HIDE DEF n
  <2>3. VerificationAt(v)'
    <3>1. verifications'[v] = n
      BY <1>1, <2>1
    <3> QED BY <1>1, <1>7, <2>2, <3>1 DEF VerificationAt
  <2> QED BY <1>1, <1>2, <1>3, <1>7, <2>1, <2>2, <2>3, VerificationKeeps
<1> QED BY <1>4, <1>5, <1>6, <1>7

LEMMA CoreKeeps ==
  ASSUME V!EvidenceAssumption, EvidenceInv, NEW v \in Verifies, V!Core(v)
  PROVE  EvidenceInv'
<1> DEFINE a == verifications[v].attestation
           ch == verifications[v].initial.challenge
           n == [verifications[v] EXCEPT !.pc = "digest", !.deadline = a.ends, !.since = 0]
<1>1. verifications[v].pc = "core" /\ UNCHANGED <<clock, saved>>
  BY DEF V!Core, V!Now
<1>2. /\ verifications \in [Verifies -> VerificationType] /\ verifying = v /\ a \in V!Attestation /\ None \notin Verifies
      /\ a \in Attestations /\ verifications[v].initial \in SavedType /\ ch \in Challenges
  BY <1>1, ActiveFacts DEF EvidenceInv, EvidenceTypes
<1>0. \/ \E holds : V!Halt(v, holds)
      \/ /\ V!IsCore(a, ch, verifications[v].since)
         /\ verifications' = [verifications EXCEPT ![v].pc = "digest", ![v].deadline = a.ends, ![v].since = 0]
         /\ UNCHANGED <<verifying, given, V!status>>
  BY DEF V!Core, V!Now, V!IsOn
<1>3. CASE /\ V!IsCore(a, ch, verifications[v].since)
           /\ verifications' = [verifications EXCEPT ![v].pc = "digest", ![v].deadline = a.ends, ![v].since = 0]
           /\ UNCHANGED <<verifying, given, V!status>>
  <2> PICK z \in Int : z = 0
    OBVIOUS
  <2>1. verifications' = [verifications EXCEPT ![v] = n]
    BY <1>2, <1>3
  <2>2. [verifications[v] EXCEPT !.pc = "digest", !.deadline = a.ends, !.since = z] \in VerificationType
    BY <1>2 DEF VerificationType, V!Attestation
  <2>3. /\ n \in VerificationType /\ n.pc = "digest" /\ n.attestation = a /\ n.deadline = a.ends
        /\ n.initial = verifications[v].initial
    BY <1>2, <2>2 DEF VerificationType
  <2> HIDE DEF n
  <2>4. VerificationAt(v)'
    <3>1. verifications'[v] = n
      BY <1>2, <2>1
    <3>2. a.ends \in Int
      BY <1>2 DEF V!Attestation
    <3> QED BY <1>2, <1>3, <2>3, <3>1, <3>2 DEF VerificationAt, V!IsCore, V!IsPath
  <2>5. StatusInv' /\ Steady
    BY <1>1, <1>3, StatusRests
  <2> QED BY <1>1, <1>2, <1>3, <2>1, <2>3, <2>4, <2>5, VerificationKeeps
<1>4. ASSUME NEW holds, V!Halt(v, holds) PROVE EvidenceInv'
  BY <1>1, <1>4, HaltKeeps
<1> QED BY <1>0, <1>3, <1>4

LEMMA DigestKeeps ==
  ASSUME V!EvidenceAssumption, EvidenceInv, NEW v \in Verifies, V!Digest(v)
  PROVE  EvidenceInv'
<1> DEFINE n == [verifications[v] EXCEPT !.pc = "cms", !.since = clock]
<1>1. verifications[v].pc = "digest" /\ UNCHANGED <<clock, saved>>
  BY DEF V!Digest, V!Now
<1>2. /\ verifications \in [Verifies -> VerificationType] /\ verifying = v /\ None \notin Verifies
      /\ VerificationAt(v) /\ clock \in Int
  BY <1>1, ActiveFacts DEF EvidenceInv, EvidenceTypes, StatusInv, StatusTypes
<1>3. CASE /\ verifications' = [verifications EXCEPT ![v].pc = "cms", ![v].since = clock]
           /\ UNCHANGED <<verifying, given, V!status>>
  <2>1. verifications' = [verifications EXCEPT ![v] = n]
    BY <1>2, <1>3
  <2>2. /\ n \in VerificationType /\ n.pc = "cms" /\ n.attestation = verifications[v].attestation
        /\ n.deadline = verifications[v].deadline /\ n.initial = verifications[v].initial
    BY <1>2 DEF VerificationType
  <2> HIDE DEF n
  <2>3. VerificationAt(v)'
    <3>1. verifications'[v] = n
      BY <1>2, <2>1
    <3> QED BY <1>1, <1>2, <1>3, <2>2, <3>1 DEF VerificationAt
  <2>4. StatusInv' /\ Steady
    BY <1>1, <1>3, StatusRests
  <2> QED BY <1>1, <1>2, <1>3, <2>1, <2>2, <2>3, <2>4, VerificationKeeps
<1>4. ASSUME NEW holds, V!Halt(v, holds) \/ V!Stop(v, "thrown") PROVE EvidenceInv'
  BY <1>1, <1>4, HaltKeeps
<1> QED BY <1>3, <1>4 DEF V!Digest

LEMMA MinOfTwo == ASSUME NEW x \in Int, NEW y \in Int PROVE V!Min({x, y}) \in Int /\ V!Min({x, y}) <= x /\ V!Min({x, y}) <= y
<1>1. {x} \cup {y} \subseteq Int /\ HasLeast({x} \cup {y}) /\ {x, y} = {x} \cup {y}
  BY LeastOfOne, LeastOfMore
<1> QED BY <1>1, MinIsLeast

\* The check of a verification is asked for, and is of the certificate it names.
LEMMA AskedOf ==
  ASSUME V!EvidenceAssumption, EvidenceInv, NEW c \in Calls, NEW t \in Tuples, V!Check(c, t)
  PROVE  StatusInv' /\ Steady /\ IsOf(c, t)'
<1>1. StatusInv /\ checks \in [Calls -> CallType]
  BY DEF EvidenceInv, StatusInv, StatusTypes, CallType
<1>2. StatusInv' /\ Steady
  BY <1>1, CheckKeeps DEF V!EvidenceAssumption
<1> QED BY <1>1, <1>2 DEF V!Check, IsOf, CallType

LEMMA CmsKeeps ==
  ASSUME V!EvidenceAssumption, EvidenceInv, NEW v \in Verifies, V!Cms(v)
  PROVE  EvidenceInv'
<1> DEFINE a == verifications[v].attestation
           r == a.receipt
           ch == verifications[v].initial.challenge
           least == V!Min({verifications[v].deadline, r.ends})
           n == [verifications[v] EXCEPT !.pc = "crl", !.since = 0, !.deadline = least]
<1>0. /\ verifications[v].pc = "cms" /\ UNCHANGED saved
      /\ \/ \E holds : V!Halt(v, holds) /\ UNCHANGED clock
         \/ /\ V!IsReceipt(r, a, ch, verifications[v].since)
            /\ V!Check(<<v, "crl">>, r.crl) /\ UNCHANGED <<verifying, given>>
            /\ verifications' = [verifications EXCEPT ![v].pc = "crl", ![v].since = 0, ![v].deadline = V!Min({@, r.ends})]
  BY DEF V!Cms, V!Now, V!IsOn
<1>1. /\ verifications \in [Verifies -> VerificationType] /\ verifying = v /\ None \notin Verifies
      /\ VerificationAt(v) /\ a \in V!Attestation /\ r \in V!Receipt
  BY <1>0, ActiveFacts DEF EvidenceInv, EvidenceTypes
<1>2. ASSUME NEW holds, V!Halt(v, holds), UNCHANGED clock PROVE EvidenceInv'
  BY <1>0, <1>2, HaltKeeps
<1>3. CASE /\ V!IsReceipt(r, a, ch, verifications[v].since)
           /\ V!Check(<<v, "crl">>, r.crl) /\ UNCHANGED <<verifying, given>>
           /\ verifications' = [verifications EXCEPT ![v].pc = "crl", ![v].since = 0, ![v].deadline = V!Min({@, r.ends})]
  <2> PICK z \in Int : z = 0
    OBVIOUS
  <2>1. /\ verifications[v].deadline \in Int /\ r.ends \in Int /\ a.ends \in Int /\ r.crl \in Tuples
        /\ verifications[v] \in VerificationType
    BY <1>1 DEF VerificationType, V!Receipt, V!Attestation
  <2>2. least \in Int /\ least <= verifications[v].deadline /\ least <= r.ends
    BY <2>1, MinOfTwo
  <2>3. verifications' = [verifications EXCEPT ![v] = n]
    BY <1>1, <1>3
  <2> HIDE DEF least
  <2>4. [verifications[v] EXCEPT !.pc = "crl", !.since = z, !.deadline = least] \in VerificationType
    BY <2>1, <2>2 DEF VerificationType
  <2>5. /\ n \in VerificationType /\ n.pc = "crl" /\ n.attestation = a /\ n.deadline = least
        /\ n.initial = verifications[v].initial
    BY <2>1, <2>4 DEF VerificationType
  <2> PICK t \in Tuples : t = r.crl
    BY <2>1
  <2>6. StatusInv' /\ Steady /\ IsOf(<<v, "crl">>, t)'
    BY <1>3, AskedOf, CallsAre
  <2> HIDE DEF n
  <2>7. VerificationAt(v)'
    <3>1. verifications'[v] = n /\ verifying' = v
      BY <1>1, <1>3, <2>3
    <3>2. a.signed /\ a.key = ch.key /\ a.data = ch.data /\ verifications[v].deadline <= a.ends
          /\ a \in Attestations /\ verifications[v].initial \in SavedType /\ ch \in Challenges
      BY <1>0, <1>1 DEF VerificationAt
    <3>3. r.signed /\ r.key = a.key /\ r.data = ch.data
      BY <1>3 DEF V!IsReceipt, V!IsSigned
    <3>4. least <= a.ends
      BY <2>1, <2>2, <3>2
    <3> QED BY <2>2, <2>5, <2>6, <3>1, <3>2, <3>3, <3>4 DEF VerificationAt, IsOf
  <2> QED BY <1>0, <1>1, <1>3, <2>3, <2>5, <2>6, <2>7, VerificationKeeps
<1> QED BY <1>0, <1>2, <1>3

LEMMA CrlKeeps ==
  ASSUME V!EvidenceAssumption, EvidenceInv, NEW v \in Verifies, V!Crl(v)
  PROVE  EvidenceInv'
<1> DEFINE a == verifications[v].attestation
           r == a.receipt
           ch == verifications[v].initial.challenge
           n == [verifications[v] EXCEPT !.pc = "ocsp"]
<1>0. /\ verifications[v].pc = "crl" /\ UNCHANGED saved /\ checks[<<v, "crl">>].pc = "end"
      /\ \/ \E holds : V!Halt(v, holds) /\ UNCHANGED clock
         \/ V!Stop(v, "unavailable") /\ UNCHANGED clock
         \/ /\ V!Check(<<v, "ocsp">>, r.ocsp) /\ UNCHANGED <<verifying, given>>
            /\ verifications' = [verifications EXCEPT ![v].pc = "ocsp"]
  BY DEF V!Crl, V!Now, V!IsChecked, V!NoStatus
<1>1. /\ verifications \in [Verifies -> VerificationType] /\ verifying = v /\ None \notin Verifies
      /\ VerificationAt(v) /\ a \in V!Attestation /\ r \in V!Receipt
  BY <1>0, ActiveFacts DEF EvidenceInv, EvidenceTypes
<1>2. ASSUME NEW holds, V!Halt(v, holds) \/ V!Stop(v, "unavailable"), UNCHANGED clock PROVE EvidenceInv'
  BY <1>0, <1>2, HaltKeeps
<1>3. CASE /\ V!Check(<<v, "ocsp">>, r.ocsp) /\ UNCHANGED <<verifying, given>>
           /\ verifications' = [verifications EXCEPT ![v].pc = "ocsp"]
  <2>1. r.ocsp \in Tuples /\ verifications[v] \in VerificationType
    BY <1>1 DEF V!Receipt
  <2>2. verifications' = [verifications EXCEPT ![v] = n]
    BY <1>1, <1>3
  <2>3. /\ n \in VerificationType /\ n.pc = "ocsp" /\ n.attestation = a /\ n.deadline = verifications[v].deadline
        /\ n.initial = verifications[v].initial
    BY <2>1 DEF VerificationType
  <2> PICK t \in Tuples, l \in Tuples : t = r.ocsp /\ l = r.crl
    BY <1>1 DEF V!Receipt
  <2>a. <<v, "crl">> \in Calls /\ <<v, "ocsp">> \in Calls
    BY CallsAre
  <2>4. StatusInv' /\ Steady /\ IsOf(<<v, "ocsp">>, t)'
    BY <1>3, <2>a, AskedOf
  <2>5. IsOf(<<v, "crl">>, l)' /\ IsOver(<<v, "crl">>, l)'
    <3>1. checks[<<v, "crl">>].tuple = r.crl
      BY <1>0, <1>1 DEF VerificationAt, IsOf
    <3>2. checks'[<<v, "crl">>] = checks[<<v, "crl">>]
      BY <1>0, <2>4, <2>a DEF Steady
    <3> QED BY <1>0, <3>1, <3>2 DEF IsOf, IsOver
  <2> HIDE DEF n
  <2>6. VerificationAt(v)'
    <3>1. verifications'[v] = n /\ verifying' = v
      BY <1>1, <1>3, <2>2
    <3> QED BY <1>0, <1>1, <2>3, <2>4, <2>5, <3>1 DEF VerificationAt, IsOf, IsOver
  <2> QED BY <1>0, <1>1, <1>3, <2>2, <2>3, <2>4, <2>6, VerificationKeeps
<1> QED BY <1>0, <1>2, <1>3

\* What holds of a status that is held.
LEMMA HeldFacts ==
  ASSUME V!EvidenceAssumption, EvidenceInv, NEW v \in Verifies, NEW kind \in {"crl", "ocsp"}, V!IsHeld(v, kind)
  PROVE  LET q == checks[<<v, kind>>]
         IN /\ q.answer \in V!Status /\ q.answer.tuple = q.tuple /\ q.answer.this <= clock /\ clock < q.answer.until
            /\ q.answer.until \in Int /\ q.answer.this \in Int /\ clock \in Int
<1> DEFINE q == checks[<<v, kind>>]
<1>1. <<v, kind>> \in Calls
  BY DEF Calls
<1>2. StatusTypes /\ CallAt(<<v, kind>>)
  BY <1>1 DEF EvidenceInv, StatusInv
<1>3. q.answer # None /\ V!IsStatusTime(q.answer, kind)
  BY DEF V!IsHeld, V!StatusOf
<1>4. q.answer \in V!Status /\ clock \in Int
  BY <1>1, <1>2, <1>3 DEF StatusTypes
<1>5. q.answer.this \in Int /\ q.answer.checkedAt \in Int /\ q.answer.until \in Int
  BY <1>4 DEF V!Status
<1>6. q.answer.this <= clock /\ clock < q.answer.until
  BY <1>3, <1>4, <1>5 DEF V!IsStatusTime
<1> QED BY <1>2, <1>3, <1>4, <1>5, <1>6 DEF CallAt

LEMMA OcspKeeps ==
  ASSUME V!EvidenceAssumption, EvidenceInv, NEW v \in Verifies, V!Ocsp(v)
  PROVE  EvidenceInv'
<1> DEFINE a == verifications[v].attestation
           r == a.receipt
           ch == verifications[v].initial.challenge
           crl == checks[<<v, "crl">>]
           ocsp == checks[<<v, "ocsp">>]
           n == [verifications[v] EXCEPT !.pc = "end", !.answer = "evidence", !.since = 0]
<1>0. /\ verifications[v].pc = "ocsp" /\ UNCHANGED <<clock, saved>> /\ ocsp.pc = "end"
      /\ \/ \E holds : V!Halt(v, holds)
         \/ V!Stop(v, "unavailable")
         \/ /\ V!IsOn(v, V!MayEnd(v)) /\ V!IsHeld(v, "ocsp") /\ V!End(v, "evidence") /\ UNCHANGED V!status
            /\ given' = given \cup {[by |-> v, at |-> clock, until |-> V!Min(V!Ends(v)), saved |-> saved]}
  BY DEF V!Ocsp, V!Now, V!IsChecked, V!NoStatus
<1>1. /\ verifications \in [Verifies -> VerificationType] /\ verifying = v /\ None \notin Verifies
      /\ VerificationAt(v) /\ a \in V!Attestation /\ r \in V!Receipt /\ ch \in V!Challenge
      /\ verifications[v].initial \in SavedType
  BY <1>0, ActiveFacts DEF EvidenceInv, EvidenceTypes
<1>2. ASSUME NEW holds, V!Halt(v, holds) \/ V!Stop(v, "unavailable") PROVE EvidenceInv'
  BY <1>0, <1>2, HaltKeeps
<1>3. CASE /\ V!IsOn(v, V!MayEnd(v)) /\ V!IsHeld(v, "ocsp") /\ V!End(v, "evidence") /\ UNCHANGED V!status
           /\ given' = given \cup {[by |-> v, at |-> clock, until |-> V!Min(V!Ends(v)), saved |-> saved]}
  <2> PICK z \in Int : z = 0
    OBVIOUS
  <2>1. verifications' = [verifications EXCEPT ![v] = n] /\ verifying' = None
    BY <1>1, <1>3 DEF V!End
  <2>2. /\ n \in VerificationType /\ n.pc = "end" /\ n.attestation = a
    <3>1. verifications[v] \in VerificationType
      BY <1>1
    <3>2. [verifications[v] EXCEPT !.pc = "end", !.answer = "evidence", !.since = z] \in VerificationType
      BY <3>1 DEF VerificationType
    <3> QED BY <3>1, <3>2 DEF VerificationType
  <2>3. StatusInv' /\ Steady
    BY <1>0, <1>3, StatusRests
  <2> HIDE DEF n
  <2>4. verifications'[v] = n
    BY <1>1, <2>1
  <2>5. VerificationAt(v)'
    BY <2>2, <2>4 DEF VerificationAt
  <2>6. /\ saved = verifications[v].initial /\ ch.from <= clock /\ clock < ch.until /\ clock < saved.policy.until
        /\ clock < verifications[v].deadline /\ V!IsTimely(r, clock) /\ V!IsHeld(v, "crl") /\ V!IsHeld(v, "ocsp")
    BY <1>3 DEF V!IsOn, V!IsCurrent, V!IsReadable, V!InWindow, V!Now, V!MayEnd, V!IsReceiptTime
  <2>7. /\ crl.answer.tuple = crl.tuple /\ crl.answer.this <= clock /\ clock < crl.answer.until
        /\ ocsp.answer.tuple = ocsp.tuple /\ ocsp.answer.this <= clock /\ clock < ocsp.answer.until
        /\ crl.answer.until \in Int /\ ocsp.answer.until \in Int /\ clock \in Int
    BY <2>6, HeldFacts
  <2>8. /\ crl.pc = "end" /\ crl.tuple = r.crl /\ ocsp.tuple = r.ocsp
        /\ a.signed /\ r.signed /\ a.key = ch.key /\ r.key = ch.key /\ a.data = ch.data /\ r.data = ch.data
        /\ verifications[v].deadline <= a.ends /\ verifications[v].deadline <= r.ends
    BY <1>0, <1>1 DEF VerificationAt, IsOver, IsOf
  <2>9. /\ ch.until \in Int /\ saved.policy.until \in Int /\ r.created \in Int /\ r.expires \in Int /\ a.ends \in Int
        /\ r.ends \in Int /\ FreshFor \in Int /\ r.created + FreshFor + 1 \in Int /\ verifications[v].deadline \in Int
    BY <1>1, <2>6 DEF V!Challenge, SavedType, V!Receipt, V!Attestation, VerificationType, V!EvidenceAssumption
  <2>10. /\ clock < r.created + FreshFor + 1 /\ clock < r.expires /\ clock < a.ends /\ clock < r.ends
    BY <2>6, <2>7, <2>8, <2>9 DEF V!IsTimely
  <2> DEFINE S == {ch.until, saved.policy.until, r.created + FreshFor + 1, r.expires, a.ends, r.ends,
                   crl.answer.until, ocsp.answer.until}
  <2>11. V!Ends(v) = S
    BY <2>6 DEF V!Ends, V!Now, V!StatusOf
  <2>12. V!Min(S) \in S /\ \A x \in S : V!Min(S) <= x
    <3> DEFINE S1 == {ch.until}
               S2 == S1 \cup {saved.policy.until}
               S3 == S2 \cup {r.created + FreshFor + 1}
               S4 == S3 \cup {r.expires}
               S5 == S4 \cup {a.ends}
               S6 == S5 \cup {r.ends}
               S7 == S6 \cup {crl.answer.until}
               S8 == S7 \cup {ocsp.answer.until}
    <3>1. S1 \subseteq Int /\ HasLeast(S1)
      BY <2>9, LeastOfOne
    <3>2. S = S8
      OBVIOUS
    <3> HIDE DEF S, S1
    <3>3. S2 \subseteq Int /\ HasLeast(S2)
      BY <3>1, <2>7, <2>9, LeastOfMore
    <3> HIDE DEF S2
    <3>4. S3 \subseteq Int /\ HasLeast(S3)
      BY <3>3, <2>7, <2>9, LeastOfMore
    <3> HIDE DEF S3
    <3>5. S4 \subseteq Int /\ HasLeast(S4)
      BY <3>4, <2>7, <2>9, LeastOfMore
    <3> HIDE DEF S4
    <3>6. S5 \subseteq Int /\ HasLeast(S5)
      BY <3>5, <2>7, <2>9, LeastOfMore
    <3> HIDE DEF S5
    <3>7. S6 \subseteq Int /\ HasLeast(S6)
      BY <3>6, <2>7, <2>9, LeastOfMore
    <3> HIDE DEF S6
    <3>8. S7 \subseteq Int /\ HasLeast(S7)
      BY <3>7, <2>7, <2>9, LeastOfMore
    <3> HIDE DEF S7
    <3>9. S8 \subseteq Int /\ HasLeast(S8)
      BY <3>8, <2>7, <2>9, LeastOfMore
    <3> HIDE DEF S8
    <3> QED BY <3>2, <3>9, MinIsLeast
  <2>13. \A x \in S : clock < x
    BY <2>6, <2>7, <2>10
  <2> PICK least : least = V!Min(S)
    OBVIOUS
  <2>14. clock < least /\ \A x \in S : least <= x
    BY <2>12, <2>13
  <2>15. ASSUME NEW e, e = [by |-> v, at |-> clock, until |-> least, saved |-> saved] PROVE GivenAt(e)'
    <3>1. e.by = v /\ e.at = clock /\ e.until = least /\ e.saved.challenge = ch
      BY <2>6, <2>15
    <3>2. verifications'[v].pc = "end" /\ verifications'[v].attestation = a /\ checks' = checks
      BY <1>3, <2>2, <2>4 DEF V!status
    <3>3. /\ least <= ch.until /\ least <= a.ends /\ least <= r.expires /\ least <= r.created + FreshFor + 1
          /\ least <= crl.answer.until /\ least <= ocsp.answer.until
      BY <2>14
    <3> HIDE DEF S
    <3> QED BY <1>0, <2>7, <2>8, <2>14, <3>1, <3>2, <3>3 DEF GivenAt, IsOver
  <2>16. \A e \in given' : e \in given \/ GivenAt(e)'
    BY <1>3, <2>11, <2>15
  <2> HIDE DEF S
  <2> QED BY <1>0, <1>1, <2>1, <2>2, <2>3, <2>5, <2>16, VerificationKeeps
<1> QED BY <1>0, <1>2, <1>3

LEMMA ChangeKeeps == ASSUME V!EvidenceAssumption, EvidenceInv, V!Change PROVE EvidenceInv'
<1>1. saved \in SavedType
  BY DEF EvidenceInv, EvidenceTypes
<1>2. saved' \in SavedType
  <2>1. PICK ch \in Challenges \cup {None} :
          saved' \in {[saved EXCEPT !.challenge = ch], [saved EXCEPT !.policy.revision = @ + 1],
                      [saved EXCEPT !.policy.enabled = FALSE]}
    BY DEF V!Change
  <2>2. saved.policy \in [revision : Int, enabled : BOOLEAN, until : Int]
    BY <1>1 DEF SavedType
  <2>3. [saved.policy EXCEPT !.revision = @ + 1] \in [revision : Int, enabled : BOOLEAN, until : Int]
    BY <2>2
  <2>4. [saved.policy EXCEPT !.enabled = FALSE] \in [revision : Int, enabled : BOOLEAN, until : Int]
    BY <2>2
  <2> QED BY <1>1, <2>1, <2>3, <2>4 DEF SavedType
<1>3. StatusInv' /\ Steady
  BY StatusRests DEF V!Change
<1> QED BY <1>2, <1>3, AsideKeeps DEF V!Change

LEMMA EvidenceStep ==
  ASSUME V!EvidenceAssumption, EvidenceInv, [V!EvidenceNext]_<<clock, V!status, V!evidence>>
  PROVE  EvidenceInv'
<1>1. V!StatusAssumption /\ StatusInv /\ saved \in SavedType
  BY DEF V!EvidenceAssumption, EvidenceInv, EvidenceTypes
<1>2. ASSUME NEW v \in Verifies, V!Verify(v) \/ V!Core(v) \/ V!Digest(v) \/ V!Cms(v) \/ V!Crl(v) \/ V!Ocsp(v)
      PROVE  EvidenceInv'
  BY <1>2, VerifyKeeps, CoreKeeps, DigestKeeps, CmsKeeps, CrlKeeps, OcspKeeps
<1>3. CASE V!CheckGoesOn
  <2>1. PICK c \in Calls : V!Advance(c)
    BY <1>3 DEF V!CheckGoesOn, Calls
  <2>2. StatusInv' /\ Steady
    BY <1>1, <2>1, AdvanceKeeps
  <2> QED BY <1>1, <1>3, <2>2, AsideKeeps DEF V!CheckGoesOn, V!evidence
<1>4. CASE V!Tick /\ UNCHANGED V!evidence
  BY <1>1, <1>4, TickKeeps, AsideKeeps DEF V!evidence
<1>5. CASE UNCHANGED <<clock, V!status, V!evidence>>
  BY <1>1, <1>5, StatusRests, AsideKeeps DEF V!evidence
<1> QED BY <1>2, <1>3, <1>4, <1>5, ChangeKeeps DEF V!EvidenceNext

LEMMA EvidenceEnough == ASSUME V!EvidenceAssumption, EvidenceInv PROVE V!EvidenceTruthful
<1>1. V!EvidenceHolds
  BY DEF EvidenceInv, GivenAt, IsOver, V!EvidenceHolds, V!StatusOf, V!Kinds
<1>2. V!OneAtATime
  BY DEF EvidenceInv, VerificationAt, V!OneAtATime
<1>3. V!StatusTruthful
  BY StatusEnough DEF EvidenceInv, V!EvidenceAssumption
<1> QED BY <1>1, <1>2, <1>3 DEF V!EvidenceTruthful

\* Evidence is of one challenge and of certificates whose status holds when it
\* is given, and lasts no longer than they do (verifyEnrollmentEvidence).
THEOREM EvidenceIsTruthful == V!EvidenceSpec => []V!EvidenceTruthful
<1>1. V!EvidenceInit => EvidenceInv
  BY RelayAssumption, EvidenceStarts
<1>2. EvidenceInv /\ [V!EvidenceNext]_<<clock, V!status, V!evidence>> => EvidenceInv'
  BY RelayAssumption, EvidenceStep
<1>3. EvidenceInv => V!EvidenceTruthful
  BY RelayAssumption, EvidenceEnough
<1> QED BY <1>1, <1>2, <1>3, PTL DEF V!EvidenceSpec

-----------------------------------------------------------------------------
(***************************************************************************)
(* The listing of registrations.                                           *)
(***************************************************************************)
ListedRow == [stamp : Int, active : BOOLEAN]
WalkType == [pc : {"idle", "paging", "done", "refused"}, offset : Nat, seen : SUBSET Ids, calm : SUBSET Ids, left : Nat]

ListingTypes ==
  /\ time \in Int /\ table \in [Ids -> {None} \cup ListedRow] /\ walks \in [Walks -> WalkType]
  /\ \A i \in Ids : table[i] # None => table[i].stamp <= time

\* The rows that match, those before one of them, and those that were missed.
Listed(w) == {i \in Ids : L!Matches(w, i)}
Before(w, i) == {j \in Ids : L!Matches(w, j) /\ L!IsBefore(j, i)}
Missed(w) == walks[w].calm \ walks[w].seen
Passed(w) == {i \in Missed(w) : L!Position(w, i) < walks[w].offset}

WalkAt(w) ==
  LET n == walks[w]
  IN /\ n.pc = "idle" => n = L!NotBegun
     /\ n.pc = "paging" => n.calm \subseteq Listed(w) /\ Cardinality(Passed(w)) <= n.left
     /\ n.pc = "done" => Cardinality(Missed(w)) <= n.left

ListingInv == ListingTypes /\ \A w \in Walks : WalkAt(w)

\* The instance's Cardinality and IsFiniteSet are those of the theorems.
LEMMA ListingSizes ==
  ASSUME NEW S
  PROVE  L!Cardinality(S) = Cardinality(S) /\ (L!IsFiniteSet(S) <=> IsFiniteSet(S))
BY DEF L!Cardinality, Cardinality, L!IsFiniteSet, IsFiniteSet

LEMMA ListingFacts ==
  ASSUME L!ListingAssumption, ListingInv
  PROVE  /\ ListingTypes /\ \A w \in Walks : WalkAt(w)
         /\ IsFiniteSet(Ids) /\ Ids \subseteq Int /\ PageRows \in Nat /\ None \notin ListedRow
         /\ \A i \in Ids : table[i] # None => table[i] \in ListedRow /\ table[i].stamp \in Int
<1>1. ListingTypes /\ \A w \in Walks : WalkAt(w)
  BY DEF ListingInv
<1>2. IsFiniteSet(Ids) /\ Ids \subseteq Int /\ PageRows \in Nat /\ None \notin ListedRow
  BY ListingSizes DEF L!ListingAssumption, ListedRow
<1>3. ASSUME NEW i \in Ids, table[i] # None PROVE table[i] \in ListedRow /\ table[i].stamp \in Int
  <2>1. table[i] \in ListedRow
    BY <1>1, <1>3 DEF ListingTypes
  <2> QED BY <2>1 DEF ListedRow
<1> QED BY <1>1, <1>2, <1>3

\* Positions count the rows before.
LEMMA PositionCounts ==
  ASSUME L!ListingAssumption, ListingInv, NEW w \in Walks
  PROVE  /\ IsFiniteSet(Listed(w)) /\ Cardinality(Listed(w)) \in Nat
         /\ \A i \in Ids : /\ IsFiniteSet(Before(w, i)) /\ L!Position(w, i) = Cardinality(Before(w, i))
                           /\ L!Position(w, i) \in Nat
<1>1. IsFiniteSet(Ids) /\ Listed(w) \in SUBSET Ids
  BY ListingFacts DEF Listed
<1>2. IsFiniteSet(Listed(w)) /\ Cardinality(Listed(w)) \in Nat
  BY <1>1, FS_Subset, FS_CardinalityType
<1>3. ASSUME NEW i \in Ids PROVE IsFiniteSet(Before(w, i)) /\ Cardinality(Before(w, i)) \in Nat
  <2>1. Before(w, i) \in SUBSET Ids
    BY DEF Before
  <2> QED BY <1>1, <2>1, FS_Subset, FS_CardinalityType
<1>4. \A i \in Ids : L!Position(w, i) = Cardinality(Before(w, i))
  BY ListingSizes DEF L!Position, Before
<1> QED BY <1>2, <1>3, <1>4

\* The order is one: who is before has a smaller position, and no two share one.
LEMMA PositionGrows ==
  ASSUME L!ListingAssumption, ListingInv, NEW w \in Walks, NEW i \in Listed(w), NEW j \in Listed(w), L!IsBefore(i, j)
  PROVE  L!Position(w, i) < L!Position(w, j)
<1>1. /\ Ids \subseteq Int /\ i \in Ids /\ j \in Ids
      /\ \A k \in Ids : table[k] # None => table[k].stamp \in Int
      /\ \A k \in Ids : L!Matches(w, k) => table[k] # None
  BY ListingFacts DEF Listed, L!Matches, L!Present
<1>2. Before(w, i) \subseteq Before(w, j) \ {i}
  <2>1. ASSUME NEW k \in Before(w, i) PROVE k \in Before(w, j) /\ k # i
    <3>1. k \in Ids /\ k \in Int /\ L!Matches(w, k) /\ table[k].stamp \in Int /\ L!IsBefore(k, i)
      BY <1>1 DEF Before
    <3>2. table[i].stamp \in Int /\ table[j].stamp \in Int /\ i \in Int /\ j \in Int
      BY <1>1 DEF Listed
    <3>3. L!IsBefore(k, j) /\ k # i
      BY <3>1, <3>2 DEF L!IsBefore
    <3> QED BY <3>1, <3>3 DEF Before
  <2> QED BY <2>1
<1>3. i \in Before(w, j)
  BY <1>1 DEF Before, Listed
<1>4. /\ IsFiniteSet(Before(w, j) \ {i}) /\ Cardinality(Before(w, j) \ {i}) = Cardinality(Before(w, j)) - 1
  BY <1>1, <1>3, PositionCounts, FS_RemoveElement
<1>5. Cardinality(Before(w, i)) <= Cardinality(Before(w, j) \ {i})
  BY <1>2, <1>4, FS_Subset
<1> QED BY <1>1, <1>4, <1>5, PositionCounts

LEMMA PositionOfOne ==
  ASSUME L!ListingAssumption, ListingInv, NEW w \in Walks, NEW i \in Listed(w), NEW j \in Listed(w),
         L!Position(w, i) = L!Position(w, j)
  PROVE  i = j
<1>1. /\ Ids \subseteq Int /\ i \in Ids /\ j \in Ids /\ table[i] # None /\ table[j] # None
      /\ table[i].stamp \in Int /\ table[j].stamp \in Int
  BY ListingFacts DEF Listed, L!Matches, L!Present
<1>2. L!Position(w, i) \in Nat
  BY <1>1, PositionCounts
<1>3. ~L!IsBefore(i, j) /\ ~L!IsBefore(j, i)
  BY <1>2, PositionGrows
<1>4. i \in Int /\ j \in Int
  BY <1>1
<1> QED BY <1>1, <1>3, <1>4 DEF L!IsBefore

\* Positions have no gap: if no row is at one, none is beyond it.
LEMMA PositionsAreAll ==
  ASSUME L!ListingAssumption, ListingInv, NEW w \in Walks, NEW p \in Nat, NEW i \in Listed(w), L!Position(w, i) >= p
  PROVE  \E j \in Listed(w) : L!Position(w, j) = p
<1> DEFINE m == Cardinality(Listed(w))
           places == (0 .. m - 1) \ {p}
           f == [j \in Listed(w) |-> L!Position(w, j)]
<1>1. IsFiniteSet(Listed(w)) /\ m \in Nat /\ Listed(w) \subseteq Ids
  BY PositionCounts DEF Listed
<1>2. ASSUME NEW j \in Listed(w) PROVE L!Position(w, j) \in 0 .. m - 1
  <2>1. Before(w, j) \subseteq Listed(w) \ {j}
    <3>1. j \in Int /\ table[j] # None /\ table[j].stamp \in Int
      BY <1>1, ListingFacts DEF Listed, L!Matches, L!Present
    <3>2. ~L!IsBefore(j, j)
      BY <3>1 DEF L!IsBefore
    <3> QED BY <3>2 DEF Before, Listed
  <2>2. IsFiniteSet(Listed(w) \ {j}) /\ Cardinality(Listed(w) \ {j}) = m - 1
    BY <1>1, FS_RemoveElement
  <2>3. Cardinality(Before(w, j)) <= m - 1
    BY <2>1, <2>2, FS_Subset
  <2> QED BY <1>1, <2>3, PositionCounts
<1> SUFFICES ASSUME \A j \in Listed(w) : L!Position(w, j) # p PROVE FALSE
  OBVIOUS
<1>3. p \in 0 .. m - 1
  BY <1>1, <1>2
<1>4. IsFiniteSet(places) /\ Cardinality(places) = m - 1
  <2>1. IsFiniteSet(0 .. m - 1) /\ Cardinality(0 .. m - 1) = m
    BY <1>1, <1>3, FS_Interval
  <2> QED BY <1>3, <2>1, FS_RemoveElement
<1>5. f \in [Listed(w) -> places]
  BY <1>2
<1>6. \E x, y \in Listed(w) : x # y /\ f[x] = f[y]
  <2> HIDE DEF f, places
  <2>1. Cardinality(places) < Cardinality(Listed(w))
    BY <1>1, <1>4
  <2> QED BY <1>1, <1>4, <1>5, <2>1, FS_PigeonHole
<1> QED BY <1>6, PositionOfOne

LEMMA ListingStarts == ASSUME L!ListingAssumption, L!ListingInit PROVE ListingInv
<1>1. ListingTypes
  BY DEF L!ListingAssumption, L!ListingInit, ListingTypes, ListedRow, WalkType, L!NotBegun
<1>2. \A w \in Walks : WalkAt(w)
  BY DEF L!ListingInit, WalkAt, L!NotBegun
<1> QED BY <1>1, <1>2 DEF ListingInv

\* A page passes nothing it does not show.
LEMMA PageKeeps ==
  ASSUME L!ListingAssumption, ListingInv, NEW w \in Walks, L!Page(w)
  PROVE  ListingInv'
<1> DEFINE n == walks[w]
           first == n.offset
           rows_ == {i \in Ids : L!Matches(w, i) /\ L!Position(w, i) \in first .. first + PageRows - 1}
           more == \E i \in Ids : L!Matches(w, i) /\ L!Position(w, i) = first + PageRows
           calm == IF n.pc = "idle" THEN Listed(w) ELSE n.calm
           shown == [pc |-> IF more THEN "paging" ELSE "done", offset |-> IF more THEN first + PageRows ELSE first,
                     seen |-> n.seen \cup rows_, left |-> n.left, calm |-> calm]
<1>1. /\ ListingTypes /\ (\A x \in Walks : WalkAt(x)) /\ IsFiniteSet(Ids) /\ PageRows \in Nat
      /\ walks \in [Walks -> WalkType] /\ n \in WalkType
      /\ n.pc \in {"idle", "paging"} /\ UNCHANGED <<time, table>>
  BY ListingFacts DEF ListingTypes, L!Page
<1>2. walks' = [walks EXCEPT ![w] = IF ~L!IsAdmin(ProofOf[w]) THEN [n EXCEPT !.pc = "refused"] ELSE shown]
  BY <1>1 DEF L!Page, Listed
<1>3. \A x : Listed(x)' = Listed(x) /\ \A i : L!Position(x, i)' = L!Position(x, i)
  BY <1>1 DEF Listed, L!Matches, L!Present, L!Position, L!IsBefore
<1>4. CASE walks' = [walks EXCEPT ![w] = [n EXCEPT !.pc = "refused"]]
  <2>1. [n EXCEPT !.pc = "refused"] \in WalkType
    BY <1>1 DEF WalkType
  <2>2. ListingTypes'
    BY <1>1, <1>4, <2>1 DEF ListingTypes
  <2>3. ASSUME NEW x \in Walks PROVE WalkAt(x)'
    <3>1. walks'[x] = walks[x] \/ walks'[x].pc = "refused"
      BY <1>1, <1>4 DEF WalkType
    <3> QED BY <1>1, <1>3, <3>1 DEF WalkAt, Passed, Missed
  <2> QED BY <2>2, <2>3 DEF ListingInv
<1>5. CASE walks' = [walks EXCEPT ![w] = shown]
  <2>1. /\ first \in Nat /\ n.seen \subseteq Ids /\ n.calm \subseteq Ids /\ n.left \in Nat
    BY <1>1 DEF WalkType
  <2>2. calm \subseteq Listed(w)
    BY <1>1 DEF WalkAt
  <2>3. shown \in WalkType
    BY <1>1, <2>1 DEF WalkType, Listed
  <2>4. /\ shown.offset = (IF more THEN first + PageRows ELSE first) /\ shown.seen = n.seen \cup rows_
        /\ shown.left = n.left /\ shown.calm = calm /\ shown.pc = (IF more THEN "paging" ELSE "done")
    OBVIOUS
  <2>5. walks'[w] = shown /\ \A x \in Walks : x # w => walks'[x] = walks[x]
    BY <1>1, <1>5
  <2>6. ListingTypes'
    BY <1>1, <1>5, <2>3 DEF ListingTypes
  \* Of those before the next page, what was passed before is what is missed.
  <2>7. ASSUME NEW i \in calm \ (n.seen \cup rows_), L!Position(w, i) < first + PageRows
        PROVE  n.pc = "paging" /\ i \in Passed(w)
    <3>1. i \in Ids /\ L!Matches(w, i) /\ L!Position(w, i) \in Nat
      BY <2>2, PositionCounts DEF Listed
    <3>2. L!Position(w, i) < first
      BY <1>1, <2>1, <2>7, <3>1
    <3>3. n.pc # "idle"
      <4>1. n.pc = "idle" => n.offset = 0
        BY <1>1 DEF WalkAt, L!NotBegun
      <4> QED BY <3>1, <3>2, <4>1
    <3> QED BY <1>1, <2>7, <3>2, <3>3 DEF Passed, Missed
  <2>8. \A S : S \subseteq calm \ (n.seen \cup rows_) /\ (\A i \in S : L!Position(w, i) < first + PageRows)
                => Cardinality(S) <= n.left
    <3> SUFFICES ASSUME NEW S, S \subseteq calm \ (n.seen \cup rows_), \A i \in S : L!Position(w, i) < first + PageRows
                 PROVE  Cardinality(S) <= n.left
      OBVIOUS
    <3>1. CASE S = {}
      BY <2>1, <3>1, FS_EmptySet
    <3>2. CASE S # {}
      <4>1. n.pc = "paging" /\ S \subseteq Passed(w)
        BY <2>7, <3>2
      <4>2. Cardinality(Passed(w)) <= n.left
        BY <1>1, <4>1 DEF WalkAt
      <4>3. IsFiniteSet(Passed(w)) /\ Passed(w) \subseteq Ids
        BY <1>1, <2>1, FS_Subset DEF Passed, Missed
      <4>4. Cardinality(S) <= Cardinality(Passed(w)) /\ Cardinality(S) \in Nat /\ Cardinality(Passed(w)) \in Nat
        BY <4>1, <4>3, FS_Subset, FS_CardinalityType
      <4> QED BY <2>1, <4>2, <4>4
    <3> QED BY <3>1, <3>2
  <2> HIDE DEF shown, calm, rows_, more
  <2>9. WalkAt(w)'
    <3>1. CASE more
      <4>1. Passed(w)' \subseteq calm \ (n.seen \cup rows_) /\ \A i \in Passed(w)' : L!Position(w, i) < first + PageRows
        BY <1>3, <2>4, <2>5, <3>1 DEF Passed, Missed
      <4>2. Cardinality(Passed(w)') <= n.left
        BY <2>8, <4>1
      <4>3. walks'[w].pc = "paging" /\ walks'[w].calm \subseteq Listed(w)' /\ walks'[w].left = n.left
        BY <1>3, <2>2, <2>4, <2>5, <3>1
      <4> QED BY <4>2, <4>3 DEF WalkAt
    <3>2. CASE ~more
      <4>1. Missed(w)' = calm \ (n.seen \cup rows_)
        BY <2>4, <2>5 DEF Missed
      <4>2. \A i \in calm : L!Position(w, i) < first + PageRows
        <5>1. \A i \in calm : ~(L!Position(w, i) >= first + PageRows)
          <6>1. first + PageRows \in Nat
            BY <1>1, <2>1
          <6>2. \A j \in Listed(w) : L!Position(w, j) # first + PageRows
            BY <3>2 DEF more, Listed
          <6> QED BY <2>2, <6>1, <6>2, PositionsAreAll
        <5>2. \A i \in calm : L!Position(w, i) \in Nat
          BY <2>2, PositionCounts DEF Listed
        <5> QED BY <1>1, <2>1, <5>1, <5>2
      <4>3. Cardinality(Missed(w)') <= n.left
        BY <2>8, <4>1, <4>2
      <4>4. walks'[w].pc = "done" /\ walks'[w].left = n.left
        BY <2>4, <2>5, <3>2
      <4> QED BY <4>3, <4>4 DEF WalkAt
    <3> QED BY <3>1, <3>2
  <2>10. ASSUME NEW x \in Walks, x # w PROVE WalkAt(x)'
    BY <1>1, <1>3, <2>5, <2>10 DEF WalkAt, Passed, Missed
  <2> QED BY <2>6, <2>9, <2>10 DEF ListingInv
<1> QED BY <1>2, <1>4, <1>5

\* A written row moves before the others; only one that leaves the filter lets
\* them come closer, by one place.
LEMMA WriteMoves ==
  ASSUME L!ListingAssumption, ListingInv, NEW i \in Ids, NEW isActive \in BOOLEAN,
         table' = [table EXCEPT ![i] = [stamp |-> time, active |-> isActive]],
         NEW w \in Walks, NEW j \in Listed(w), j # i
  PROVE  /\ j \in Listed(w)' /\ L!Position(w, j)' \in Nat
         /\ \/ L!Position(w, j)' >= L!Position(w, j)
            \/ /\ L!Position(w, j)' = L!Position(w, j) - 1
               /\ L!Matches(w, i) /\ FilterOf[w] = "active" /\ ~isActive
<1>1. /\ ListingTypes /\ IsFiniteSet(Ids) /\ Ids \subseteq Int
      /\ \A k \in Ids : table[k] # None => table[k] \in ListedRow /\ table[k].stamp \in Int
      /\ j \in Ids /\ L!Matches(w, j) /\ table[j] # None /\ None \notin ListedRow
  BY ListingFacts DEF Listed, L!Matches, L!Present
<1>2. /\ \A k \in Ids : k # i => table'[k] = table[k]
      /\ table'[i] = [stamp |-> time, active |-> isActive] /\ time \in Int
      /\ table[i] # None => table[i].stamp <= time
  BY <1>1 DEF ListingTypes
<1>3. \A k \in Ids : k # i => (L!Matches(w, k)' <=> L!Matches(w, k))
  BY <1>2 DEF L!Matches, L!Present
<1>4. \A k \in Ids : k # i => (L!IsBefore(k, j)' <=> L!IsBefore(k, j))
  BY <1>1, <1>2 DEF L!IsBefore
<1>5. Before(w, j)' \ {i} = Before(w, j) \ {i}
  BY <1>3, <1>4 DEF Before
<1>6. /\ IsFiniteSet(Before(w, j)) /\ IsFiniteSet(Before(w, j)')
      /\ Cardinality(Before(w, j)) \in Nat /\ Cardinality(Before(w, j)') \in Nat
  <2>1. Before(w, j) \in SUBSET Ids /\ Before(w, j)' \in SUBSET Ids
    BY DEF Before
  <2> QED BY <1>1, <2>1, FS_Subset, FS_CardinalityType
<1>7. L!Position(w, j) = Cardinality(Before(w, j)) /\ L!Position(w, j)' = Cardinality(Before(w, j)')
  BY ListingSizes DEF L!Position, Before
<1>8. /\ Cardinality(Before(w, j) \ {i}) = IF i \in Before(w, j) THEN Cardinality(Before(w, j)) - 1
                                           ELSE Cardinality(Before(w, j))
      /\ Cardinality(Before(w, j)' \ {i}) = IF i \in Before(w, j)' THEN Cardinality(Before(w, j)') - 1
                                            ELSE Cardinality(Before(w, j)')
  BY <1>6, FS_RemoveElement
<1>9. j \in Listed(w)'
  BY <1>1, <1>3 DEF Listed
<1>10. CASE i \in Before(w, j) /\ i \notin Before(w, j)'
  <2>1. L!Matches(w, i) /\ L!IsBefore(i, j) /\ table[i] # None
    BY <1>10 DEF Before, L!Matches, L!Present
  <2>2. L!IsBefore(i, j)'
    <3>1. /\ table[i].stamp \in Int /\ table[j].stamp \in Int /\ i \in Int /\ j \in Int
          /\ table[i].stamp <= time /\ table'[i].stamp = time /\ table'[j] = table[j]
      BY <1>1, <1>2, <2>1
    <3> QED BY <1>2, <2>1, <3>1 DEF L!IsBefore
  <2>3. ~L!Matches(w, i)'
    BY <1>10, <2>2 DEF Before
  <2>4. table'[i] # None /\ table'[i].active = isActive
    BY <1>1, <1>2 DEF ListedRow
  <2>5. FilterOf[w] = "active" /\ ~isActive
    BY <2>3, <2>4 DEF L!Matches, L!Present
  <2>6. Cardinality(Before(w, j)') = Cardinality(Before(w, j)) - 1
    BY <1>5, <1>8, <1>10
  <2> QED BY <1>6, <1>7, <1>9, <2>1, <2>5, <2>6
<1>11. CASE ~(i \in Before(w, j) /\ i \notin Before(w, j)')
  <2>1. Cardinality(Before(w, j)') >= Cardinality(Before(w, j))
    <3>1. Cardinality(Before(w, j)' \ {i}) = Cardinality(Before(w, j) \ {i})
      BY <1>5
    <3>2. CASE i \in Before(w, j)'
      BY <1>6, <1>8, <3>1, <3>2
    <3>3. CASE i \notin Before(w, j)
      BY <1>6, <1>8, <3>1, <3>3
    <3> QED BY <1>11, <3>2, <3>3
  <2> QED BY <1>6, <1>7, <1>9, <2>1
<1> QED BY <1>10, <1>11

LEMMA WriteKeeps ==
  ASSUME L!ListingAssumption, ListingInv, NEW i \in Ids, L!Write(i)
  PROVE  ListingInv'
<1>1. /\ ListingTypes /\ (\A x \in Walks : WalkAt(x)) /\ IsFiniteSet(Ids)
      /\ walks \in [Walks -> WalkType] /\ time' = time
  BY ListingFacts DEF ListingTypes, L!Write
<1>2. PICK isActive \in BOOLEAN :
        /\ table' = [table EXCEPT ![i] = [stamp |-> time, active |-> isActive]]
        /\ walks' = [w \in Walks |->
            IF walks[w].pc # "paging" THEN walks[w]
            ELSE [walks[w] EXCEPT !.calm = @ \ {i},
                                  !.left = IF L!Matches(w, i) /\ FilterOf[w] = "active" /\ ~isActive THEN @ + 1 ELSE @]]
  BY DEF L!Write
<1> DEFINE leaves(w) == L!Matches(w, i) /\ FilterOf[w] = "active" /\ ~isActive
           n(w) == [walks[w] EXCEPT !.calm = walks[w].calm \ {i},
                                    !.left = IF leaves(w) THEN walks[w].left + 1 ELSE walks[w].left]
<1>3. \A w \in Walks : walks'[w] = IF walks[w].pc # "paging" THEN walks[w] ELSE n(w)
  BY <1>2
<1>4. ASSUME NEW w \in Walks
      PROVE  /\ walks[w] \in WalkType /\ n(w) \in WalkType /\ n(w).pc = walks[w].pc /\ n(w).offset = walks[w].offset
             /\ n(w).seen = walks[w].seen /\ n(w).calm = walks[w].calm \ {i}
             /\ n(w).left = IF leaves(w) THEN walks[w].left + 1 ELSE walks[w].left
  <2>1. walks[w] \in WalkType
    BY <1>1
  <2> DEFINE gone == IF leaves(w) THEN walks[w].left + 1 ELSE walks[w].left
  <2>2. gone \in Nat /\ walks[w].calm \ {i} \in SUBSET Ids
    BY <2>1 DEF WalkType
  <2>3. n(w) = [walks[w] EXCEPT !.calm = walks[w].calm \ {i}, !.left = gone]
    OBVIOUS
  <2> HIDE DEF gone, n
  <2>4. /\ n(w) \in WalkType /\ n(w).pc = walks[w].pc /\ n(w).offset = walks[w].offset
        /\ n(w).seen = walks[w].seen /\ n(w).calm = walks[w].calm \ {i} /\ n(w).left = gone
    BY <2>1, <2>2, <2>3 DEF WalkType
  <2> QED BY <2>1, <2>4 DEF gone
<1> HIDE DEF n
<1>5. ListingTypes'
  <2>1. walks' \in [Walks -> WalkType]
    <3> HIDE DEF n, leaves
    <3>1. DOMAIN walks' = Walks /\ walks' = [w \in Walks |-> walks'[w]]
      BY <1>2
    <3>2. \A w \in Walks : walks'[w] \in WalkType
      BY <1>3, <1>4
    <3> QED BY <3>1, <3>2
  <2>2. [stamp |-> time, active |-> isActive] \in ListedRow
    BY <1>1 DEF ListingTypes, ListedRow
  <2>3. table' \in [Ids -> {None} \cup ListedRow]
    BY <1>1, <1>2, <2>2 DEF ListingTypes
  <2>4. \A j \in Ids : table'[j] # None => table'[j].stamp <= time
    <3>1. table'[i].stamp = time
      BY <1>1, <1>2 DEF ListingTypes
    <3>2. \A j \in Ids : j # i => table'[j] = table[j]
      BY <1>1, <1>2 DEF ListingTypes
    <3>3. time <= time
      BY <1>1 DEF ListingTypes
    <3> QED BY <1>1, <3>1, <3>2, <3>3 DEF ListingTypes
  <2> QED BY <1>1, <2>1, <2>3, <2>4 DEF ListingTypes
<1>6. ASSUME NEW w \in Walks PROVE WalkAt(w)'
  <2>1. CASE walks[w].pc # "paging"
    <3>1. walks'[w] = walks[w] /\ WalkAt(w)
      BY <1>1, <1>3, <2>1
    <3> QED BY <2>1, <3>1 DEF WalkAt, Missed
  <2>2. CASE walks[w].pc = "paging"
    <3>1. /\ walks'[w] = n(w) /\ walks[w].calm \subseteq Listed(w) /\ Cardinality(Passed(w)) <= walks[w].left
          /\ walks[w].offset \in Nat /\ walks[w].left \in Nat /\ walks[w].calm \subseteq Ids
      BY <1>1, <1>3, <1>4, <2>2 DEF WalkAt, WalkType
    <3>2. Missed(w)' = Missed(w) \ {i}
      BY <1>4, <3>1 DEF Missed
    <3>3. \A j \in Missed(w)' :
            /\ j \in Listed(w) /\ j \in Listed(w)' /\ L!Position(w, j)' \in Nat /\ L!Position(w, j) \in Nat
            /\ \/ L!Position(w, j)' >= L!Position(w, j)
               \/ L!Position(w, j)' = L!Position(w, j) - 1 /\ leaves(w)
      <4> SUFFICES ASSUME NEW j \in Missed(w)'
                   PROVE  /\ j \in Listed(w) /\ j \in Listed(w)' /\ L!Position(w, j)' \in Nat /\ L!Position(w, j) \in Nat
                          /\ \/ L!Position(w, j)' >= L!Position(w, j)
                             \/ L!Position(w, j)' = L!Position(w, j) - 1 /\ leaves(w)
        OBVIOUS
      <4>1. j \in Listed(w) /\ j # i /\ j \in Ids
        BY <3>1, <3>2 DEF Missed
      <4>2. L!Position(w, j) \in Nat
        BY <4>1, PositionCounts
      <4> QED BY <1>2, <4>1, <4>2, WriteMoves
    <3>4. IsFiniteSet(Passed(w)) /\ Cardinality(Passed(w)) \in Nat
      <4>1. Passed(w) \in SUBSET Ids
        BY <3>1 DEF Passed, Missed
      <4> QED BY <1>1, <4>1, FS_Subset, FS_CardinalityType
    <3>5. \A j \in Passed(w)' : j \in Missed(w)' /\ L!Position(w, j)' < walks[w].offset
      BY <1>4, <3>1 DEF Passed
    <3>6. Cardinality(Passed(w)') <= walks'[w].left
      <4>1. CASE ~leaves(w)
        <5>1. \A j \in Passed(w)' : L!Position(w, j) < walks[w].offset /\ j \in Missed(w)
          BY <3>1, <3>2, <3>3, <3>5, <4>1
        <5>2. Passed(w)' \subseteq Passed(w)
          BY <5>1 DEF Passed
        <5>3. IsFiniteSet(Passed(w)') /\ Cardinality(Passed(w)') <= Cardinality(Passed(w))
          BY <3>4, <5>2, FS_Subset
        <5>4. Cardinality(Passed(w)') \in Nat /\ walks'[w].left = walks[w].left
          BY <1>4, <3>1, <4>1, <5>3, FS_CardinalityType
        <5> QED BY <3>1, <3>4, <5>3, <5>4
      <4>2. CASE leaves(w)
        <5>1. \A j \in Passed(w)' : L!Position(w, j) <= walks[w].offset /\ j \in Missed(w) /\ j \in Listed(w)
          BY <3>1, <3>2, <3>3, <3>5
        <5>2. PICK k : \A j \in Listed(w) : L!Position(w, j) = walks[w].offset => j = k
          BY PositionOfOne
        <5>3. \A j \in Passed(w)' : j \in Passed(w) \/ j = k
          <6> SUFFICES ASSUME NEW j \in Passed(w)', j # k PROVE j \in Passed(w)
            OBVIOUS
          <6>1. L!Position(w, j) # walks[w].offset /\ L!Position(w, j) \in Nat
            BY <3>3, <3>5, <5>1, <5>2
          <6> QED BY <3>1, <5>1, <6>1 DEF Passed
        <5>4. IsFiniteSet(Passed(w) \cup {k}) /\ Cardinality(Passed(w) \cup {k}) <= Cardinality(Passed(w)) + 1
          BY <3>4, FS_AddElement
        <5>5. Passed(w)' \in SUBSET (Passed(w) \cup {k})
          BY <5>3
        <5>6. IsFiniteSet(Passed(w)') /\ Cardinality(Passed(w)') <= Cardinality(Passed(w) \cup {k})
          BY <5>4, <5>5, FS_Subset
        <5>7. Cardinality(Passed(w)') \in Nat /\ Cardinality(Passed(w) \cup {k}) \in Nat
          BY <5>4, <5>6, FS_CardinalityType
        <5>8. walks'[w].left = walks[w].left + 1
          BY <1>4, <3>1, <4>2
        <5> QED BY <3>1, <3>4, <5>4, <5>6, <5>7, <5>8
      <4> QED BY <4>1, <4>2
    <3>7. walks'[w].pc = "paging" /\ walks'[w].calm \subseteq Listed(w)'
      <4>1. \A j \in walks[w].calm : j # i => j \in Listed(w)'
        BY <1>2, <3>1, WriteMoves
      <4> HIDE DEF n
      <4>2. walks'[w].calm = walks[w].calm \ {i} /\ walks'[w].pc = "paging"
        BY <1>4, <2>2, <3>1
      <4> QED BY <4>1, <4>2
    <3> QED BY <3>6, <3>7 DEF WalkAt
  <2> QED BY <2>1, <2>2
<1> QED BY <1>5, <1>6 DEF ListingInv

LEMMA ListingStep ==
  ASSUME L!ListingAssumption, ListingInv, [L!ListingNext]_L!listing
  PROVE  ListingInv'
<1>1. ASSUME UNCHANGED <<table, walks>>, time' = time \/ time' = time + 1 PROVE ListingInv'
  <2>1. ListingTypes /\ \A w \in Walks : WalkAt(w)
    BY DEF ListingInv
  <2>2. ListingTypes'
    <3>1. \A i \in Ids : table[i] # None => table[i].stamp \in Int
      BY ListingFacts
    <3> QED BY <1>1, <2>1, <3>1 DEF ListingTypes
  <2>3. \A w \in Walks : WalkAt(w)'
    BY <1>1, <2>1 DEF WalkAt, Passed, Missed, Listed, L!Matches, L!Present, L!Position, L!IsBefore
  <2> QED BY <2>2, <2>3 DEF ListingInv
<1> QED BY <1>1, PageKeeps, WriteKeeps DEF L!ListingNext, L!Tick, L!listing

LEMMA ListingEnough == ASSUME ListingInv PROVE L!MissesOnlyForCause
BY ListingSizes DEF ListingInv, WalkAt, Missed, L!MissesOnlyForCause

\* Of the rows that nobody wrote while the pages were read, a listing misses at
\* most as many as left its filter meanwhile (adminRegistrations.ts).
THEOREM ListingMissesForCause == L!ListingSpec => []L!MissesOnlyForCause
<1>1. L!ListingInit => ListingInv
  BY RelayAssumption, ListingStarts
<1>2. ListingInv /\ [L!ListingNext]_L!listing => ListingInv'
  BY RelayAssumption, ListingStep
<1>3. ListingInv => L!MissesOnlyForCause
  BY ListingEnough
<1> QED BY <1>1, <1>2, <1>3, PTL DEF L!ListingSpec

-----------------------------------------------------------------------------
(***************************************************************************)
(* The relay as a whole: the part it is keeps its invariant, and the       *)
(* credentials keep theirs while another part steps.                       *)
(***************************************************************************)
Parts == {"credentials", "pushes", "rich", "status", "evidence", "listing"}
RelayInv ==
  /\ part \in Parts
  /\ part = "pushes" => PushInv
  /\ part = "rich" => RichInv
  /\ part = "status" => StatusInv
  /\ part = "evidence" => EvidenceInv
  /\ part = "listing" => ListingInv

LEMMA RelayStarts == RelayInit => RelayInv
<1> SUFFICES ASSUME RelayInit PROVE RelayInv
  OBVIOUS
<1>1. CASE part = "pushes"
  BY <1>1, RelayAssumption, PushStarts DEF RelayInit, RelayInv, Parts
<1>2. CASE part = "rich"
  BY <1>2, RelayAssumption, RichStarts DEF RelayInit, RelayInv, Parts
<1>3. CASE part = "status"
  <2>1. V!StatusInit
    BY <1>3 DEF RelayInit
  <2> QED BY <1>3, <2>1, RelayAssumption, StatusStarts DEF V!EvidenceAssumption, RelayInv, Parts
<1>4. CASE part = "evidence"
  <2>1. V!EvidenceInit
    BY <1>4 DEF RelayInit
  <2> QED BY <1>4, <2>1, RelayAssumption, EvidenceStarts DEF RelayInv, Parts
<1>5. CASE part = "listing"
  BY <1>5, RelayAssumption, ListingStarts DEF RelayInit, RelayInv, Parts
<1>6. CASE part = "credentials"
  BY <1>6 DEF RelayInv, Parts
<1> QED BY <1>1, <1>2, <1>3, <1>4, <1>5, <1>6 DEF RelayInit

LEMMA RelayStep == RelayInv /\ [RelayNext]_everything => RelayInv'
<1> SUFFICES ASSUME RelayInv, [RelayNext]_everything PROVE RelayInv'
  OBVIOUS
<1>1. part' = part /\ part \in Parts
  BY DEF RelayInv, RelayNext, everything
<1>2. CASE part = "pushes"
  <2>1. PushInv /\ [P!Next]_P!vars
    BY <1>2 DEF RelayInv, RelayNext, everything, pushed, P!vars
  <2> QED BY <1>1, <1>2, <2>1, RelayAssumption, PushStep DEF RelayInv
<1>3. CASE part = "rich"
  <2>1. RichInv /\ [D!Next]_D!vars
    BY <1>3 DEF RelayInv, RelayNext, everything, rich, D!vars
  <2> QED BY <1>1, <1>3, <2>1, RelayAssumption, RichStep DEF RelayInv
<1>4. CASE part = "status"
  <2>1. StatusInv /\ [V!StatusNext]_<<clock, V!status>>
    BY <1>4 DEF RelayInv, RelayNext, everything, status, V!status
  <2> QED BY <1>1, <1>4, <2>1, RelayAssumption, StatusStep DEF V!EvidenceAssumption, RelayInv
<1>5. CASE part = "evidence"
  <2>1. EvidenceInv /\ [V!EvidenceNext]_<<clock, V!status, V!evidence>>
    BY <1>5 DEF RelayInv, RelayNext, everything, status, evidence, V!status, V!evidence
  <2> QED BY <1>1, <1>5, <2>1, RelayAssumption, EvidenceStep DEF RelayInv
<1>6. CASE part = "listing"
  <2>1. ListingInv /\ [L!ListingNext]_L!listing
    BY <1>6 DEF RelayInv, RelayNext, everything, listing, L!listing
  <2> QED BY <1>1, <1>6, <2>1, RelayAssumption, ListingStep DEF RelayInv
<1>7. CASE part = "credentials"
  BY <1>1, <1>7 DEF RelayInv
<1> QED BY <1>1, <1>2, <1>3, <1>4, <1>5, <1>6, <1>7 DEF Parts

LEMMA RelayEnough == RelayInv => ReportTruthful
<1> SUFFICES ASSUME RelayInv PROVE ReportTruthful
  OBVIOUS
<1>1. part = "pushes" => P!ReportTruthful
  BY RelayAssumption, PushEnough DEF RelayInv
<1>2. part = "rich" => D!DeliveryTruthful
  BY RichHolds DEF RelayInv
<1>3. part = "status" => V!StatusTruthful
  BY RelayAssumption, StatusEnough DEF V!EvidenceAssumption, RelayInv
<1>4. part = "evidence" => V!EvidenceTruthful
  BY RelayAssumption, EvidenceEnough DEF RelayInv
<1>5. part = "listing" => L!MissesOnlyForCause
  BY ListingEnough DEF RelayInv
<1> QED BY <1>1, <1>2, <1>3, <1>4, <1>5 DEF RelayInv, Parts, ReportTruthful

\* Whatever part the relay is, what it reports happened: its audits and marks,
\* its rich deliveries, its certificate statuses, its evidence, its listings.
THEOREM RelayReportsTruth == RelaySpec => []ReportTruthful
<1> QED BY RelayStarts, RelayStep, RelayEnough, PTL DEF RelaySpec

\* The other parts leave the credentials alone, so that in the whole relay too
\* a proof buys one token and a rotation leaves none active that it knew of.
THEOREM OneTokenLivesInTheRelay == RelaySpec => []OneLiveToken
<1>1. RelayInit => IInv
  BY InitIInv DEF RelayInit
<1>2. IInv /\ [RelayNext]_everything => IInv'
  <2>1. ASSUME [RelayNext]_everything PROVE [Next]_vars
    BY <2>1 DEF RelayNext, everything, vars
  <2> QED BY <2>1, NextIInv
<1> QED BY <1>1, <1>2, IInvImplies, PTL DEF RelaySpec
=============================================================================
