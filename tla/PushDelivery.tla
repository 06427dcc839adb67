----------------------------- MODULE PushDelivery -----------------------------
(***************************************************************************)
(* Registrations and push events of the APNs relay                         *)
(* (src/src/services/pushDelivery.ts, src/src/repositories).  A device is  *)
(* registered and unregistered, an event is pushed to the active rows one  *)
(* after the other and audited after its answer, an operator reads the     *)
(* diagnostics.  Every step is one D1 statement or one call of APNs; a     *)
(* request may fail, or its isolate go away, before any of them.           *)
(*                                                                         *)
(* All requests are of one install; a row is named by its unique key.      *)
(***************************************************************************)
EXTENDS Integers, FiniteSets

CONSTANTS
  Requests, AsksOf,  \* [Requests -> SUBSET Ask]
  Devices, Tokens, Users,
  ClientOf,          \* [Devices -> Clients]: the client type is part of the device id
  Clients, None

Keys == Devices \X Tokens
Ask == [kind : {"register", "unregister", "event", "report"}, key : Devices \X (Tokens \cup {None}),
        user : Users \cup {None}, clients : SUBSET Clients]

VARIABLES
  rows,     \* registrations
  bearer,   \* the install token is active
  events,   \* relay_events, by their request
  details,  \* push_delivery_failures, by their event
  rq        \* the requests

vars == <<rows, bearer, events, details, rq>>

\* The answers of APNs, and the rows whose token cannot be decrypted.
Outcomes == {"ok", "unregistered", "rejected", "undecryptable"}
Failures == Clients \X (Outcomes \ {"ok"})
Row == [user : Users \cup {None}, disabled : BOOLEAN, invalid : BOOLEAN, error : (Outcomes \ {"ok"}) \cup {None}]
Event == [target : Nat, success : Nat, error : Nat]
Summaries == {"rows", "relay", "failures"}
\* relay, reasons: what is summed up.
Report == [total : Nat, active : Nat, relay : UNION {[R -> Event] : R \in SUBSET Requests},
           reasons : UNION {[R -> [Failures -> Nat]] : R \in SUBSET Requests}]

\* matched: the rows read; left: those to send to, or the summaries to read;
\* sent: what APNs answered; key: the row that is sent to; failures: counted.
Request ==
  [pc : {"idle", "auth", "write", "find", "send", "mark", "audit", "detail", "read", "ended", "failed"},
   ask : Ask \cup {None}, matched : SUBSET Keys, left : SUBSET (Keys \cup Failures \cup Summaries),
   sent : UNION {[K -> Outcomes] : K \in SUBSET Keys}, key : Keys \cup {None},
   failures : [Failures -> Nat], report : Report]

Idle == [pc |-> "idle", ask |-> None, matched |-> {}, left |-> {}, sent |-> [k \in {} |-> None],
         key |-> None, failures |-> [f \in Failures |-> 0],
         report |-> [total |-> 0, active |-> 0, relay |-> [e \in {} |-> None], reasons |-> [e \in {} |-> None]]]

DeliveryAssumption ==
  /\ IsFiniteSet(Devices) /\ IsFiniteSet(Tokens) /\ ClientOf \in [Devices -> Clients]
  /\ AsksOf \in [Requests -> SUBSET Ask] /\ None \notin Row \cup Event \cup Ask \cup Outcomes

Goto(r, pc) == rq' = [rq EXCEPT ![r].pc = pc]

Start(r) ==
  /\ rq[r].pc = "idle"
  /\ \E a \in AsksOf[r] : rq' = [rq EXCEPT ![r].ask = a,
       ![r].pc = IF a.kind = "report" THEN "read" ELSE "auth",
       ![r].left = IF a.kind = "report" THEN Summaries ELSE {}]
  /\ UNCHANGED <<rows, bearer, events, details>>

\* requireInstallAuth; the operator revokes the token.
Authenticate(r) ==
  /\ rq[r].pc = "auth"
  /\ Goto(r, CASE ~bearer -> "failed" [] bearer /\ rq[r].ask.kind = "event" -> "find" [] OTHER -> "write")
  /\ UNCHANGED <<rows, bearer, events, details>>
RevokeToken == bearer /\ bearer' = FALSE /\ UNCHANGED <<rows, events, details, rq>>

\* A row of the same key is made active again, with its id.
Register(r) ==
  LET a == rq[r].ask
  IN /\ rq[r].pc = "write" /\ a.kind = "register" /\ Goto(r, "ended")
     /\ rows' = [rows EXCEPT ![a.key] = [user |-> a.user, disabled |-> FALSE, invalid |-> FALSE, error |-> None]]
     /\ UNCHANGED <<bearer, events, details>>

\* All tokens of the device, unless one is named.
Unregister(r) ==
  LET a == rq[r].ask
      named(k) == k[1] = a.key[1] /\ a.key[2] \in {None, k[2]}
  IN /\ rq[r].pc = "write" /\ a.kind = "unregister" /\ Goto(r, "ended")
     /\ rows' = [k \in Keys |-> IF rows[k] # None /\ named(k) THEN [rows[k] EXCEPT !.disabled = TRUE] ELSE rows[k]]
     /\ UNCHANGED <<bearer, events, details>>

(***************************************************************************)
(* deliverPushEvent.                                                       *)
(***************************************************************************)
Active(k) == rows[k] # None /\ ~rows[k].disabled /\ ~rows[k].invalid

Find(r) ==
  LET a == rq[r].ask
      matched == {k \in Keys : /\ Active(k) /\ a.user \in {None, rows[k].user}
                               /\ a.clients # {} => ClientOf[k[1]] \in a.clients}
  IN /\ rq[r].pc = "find"
     /\ rq' = [rq EXCEPT ![r].pc = IF matched = {} THEN "audit" ELSE "send",
                         ![r].matched = matched, ![r].left = matched]
     /\ UNCHANGED <<rows, bearer, events, details>>

\* incrementFailure.
Counted(failures, f) == [failures EXCEPT ![f] = failures[f] + 1]

\* The token and the other columns are those that were read.
Send(r) ==
  /\ rq[r].pc = "send"
  /\ \E k \in rq[r].left, outcome \in Outcomes :
       rq' = [rq EXCEPT ![r].pc = "mark", ![r].key = k, ![r].left = @ \ {k},
         ![r].sent = [x \in DOMAIN @ \cup {k} |-> IF x = k THEN outcome ELSE @[x]],
         ![r].failures = IF outcome = "ok" THEN @ ELSE Counted(@, <<ClientOf[k[1]], outcome>>)]
  /\ UNCHANGED <<rows, bearer, events, details>>

MarkedDevice(k, key) == rows[k] # None /\ k[1] = key[1]
\* The rows that a mark writes: the one of the id.
Marked(k, key) == rows[k] # None /\ k = key

\* markRegistrationSuccess, markRegistrationError: by id, whatever the row
\* has become since it was read.
Mark(r) ==
  LET key == rq[r].key
      outcome == rq[r].sent[key]
      after(row) ==
        CASE outcome = "ok"           -> [row EXCEPT !.error = None]
          [] outcome = "unregistered" -> [row EXCEPT !.error = outcome, !.disabled = TRUE, !.invalid = TRUE]
          [] OTHER                    -> [row EXCEPT !.error = outcome]
  IN /\ rq[r].pc = "mark"
     /\ rows' = [k \in Keys |-> IF Marked(k, key) THEN after(rows[k]) ELSE rows[k]]
     /\ rq' = [rq EXCEPT ![r].pc = IF rq[r].left = {} THEN "audit" ELSE "send", ![r].key = None]
     /\ UNCHANGED <<bearer, events, details>>

\* The answer is given; auditEvent goes on after it.
Accepted(r) == {k \in DOMAIN rq[r].sent : rq[r].sent[k] = "ok"}

Audit(r) ==
  LET left == {f \in Failures : rq[r].failures[f] > 0}
  IN /\ rq[r].pc = "audit"
     /\ events' = [events EXCEPT ![r] =
          [target |-> Cardinality(rq[r].matched), success |-> Cardinality(Accepted(r)),
           error |-> Cardinality(DOMAIN rq[r].sent \ Accepted(r))]]
     /\ rq' = [rq EXCEPT ![r].pc = IF left = {} THEN "ended" ELSE "detail", ![r].left = left]
     /\ UNCHANGED <<rows, bearer, details>>

Detail(r) ==
  /\ rq[r].pc = "detail"
  /\ \E f \in rq[r].left :
       /\ details' = [details EXCEPT ![r] = [@ EXCEPT ![f] = rq[r].failures[f]]]
       /\ rq' = [rq EXCEPT ![r].pc = IF rq[r].left = {f} THEN "ended" ELSE "detail", ![r].left = @ \ {f}]
  /\ UNCHANGED <<rows, bearer, events>>

(***************************************************************************)
(* getAdminDiagnostics: the summaries are read side by side.               *)
(***************************************************************************)
Audited == {r \in Requests : events[r] # None}
Summarize(r) ==
  LET present == {k \in Keys : rows[k] # None}
  IN /\ rq[r].pc = "read"
     /\ \E s \in rq[r].left :
          rq' = [rq EXCEPT ![r].left = @ \ {s}, ![r].pc = IF rq[r].left = {s} THEN "ended" ELSE "read",
            ![r].report =
              CASE s = "rows"  -> [@ EXCEPT !.total = Cardinality(present),
                                            !.active = Cardinality({k \in present : Active(k)})]
                [] s = "relay" -> [@ EXCEPT !.relay = [e \in Audited |-> events[e]]]
                [] OTHER       -> [@ EXCEPT !.reasons = [e \in Requests |-> details[e]]]]
     /\ UNCHANGED <<rows, bearer, events, details>>

\* A statement or a call throws: the loop ends, and the request is answered 500
\* unless it has been answered.
Fail(r) ==
  /\ rq[r].pc \notin {"idle", "ended", "failed"} /\ Goto(r, "failed")
  /\ UNCHANGED <<rows, bearer, events, details>>

Init ==
  /\ rows = [k \in Keys |-> None] /\ bearer = TRUE /\ events = [r \in Requests |-> None]
  /\ details = [r \in Requests |-> [f \in Failures |-> 0]] /\ rq = [r \in Requests |-> Idle]

Next ==
  \/ RevokeToken
  \/ \E r \in Requests : \/ Start(r) \/ Authenticate(r) \/ Register(r) \/ Unregister(r) \/ Find(r)
                         \/ Send(r) \/ Mark(r) \/ Audit(r) \/ Detail(r) \/ Summarize(r) \/ Fail(r)

Spec == Init /\ [][Next]_vars

(***************************************************************************)
(* Properties                                                              *)
(***************************************************************************)
\* The rows of an event that APNs answered so.
Answered(r, f) == {k \in DOMAIN rq[r].sent : <<ClientOf[k[1]], rq[r].sent[k]>> = f}

\* An event is audited only if every row it matched was tried, with what APNs
\* answered for them; its failures are counted by client and answer, all of them
\* once they are written, and each in full or not at all wherever the writing
\* stops (pushDelivery.ts 44-54, auditEvents.ts).  So what the operator reads
\* adds up to as many targets as results, and to no failure that was none.
AuditTruthful ==
  /\ \A r \in Audited :
       /\ DOMAIN rq[r].sent = rq[r].matched
       /\ events[r].target = Cardinality(rq[r].matched)
       /\ events[r].target = events[r].success + events[r].error
       /\ events[r].success = Cardinality({k \in rq[r].matched : rq[r].sent[k] = "ok"})
       /\ \A f \in Failures :
            details[r][f] = Cardinality(Answered(r, f)) \/ (details[r][f] = 0 /\ rq[r].pc # "ended")
  /\ \A r \in Requests \ Audited, f \in Failures : details[r][f] = 0
  /\ \A r \in Requests :
       LET report == rq[r].report
       IN /\ \A e \in DOMAIN report.relay : report.relay[e].target = report.relay[e].success + report.relay[e].error
          /\ \A e \in DOMAIN report.reasons, f \in Failures : report.reasons[e][f] <= Cardinality(Answered(e, f))

\* A registration is invalid, or carries an error, only if APNs gave that answer
\* for its very token to some event, however late the mark was written and
\* whatever registered or unregistered meanwhile (registrations.ts 96-111).
RefusedForCause ==
  \A k \in Keys : rows[k] # None /\ (rows[k].invalid \/ rows[k].error # None) =>
    \E r \in Requests : k \in DOMAIN rq[r].sent /\
      rq[r].sent[k] = IF rows[k].invalid THEN "unregistered" ELSE rows[k].error
\* What the relay says of a delivery, in its audit and in its marks, happened.
ReportTruthful == AuditTruthful /\ RefusedForCause
=============================================================================
