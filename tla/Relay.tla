------------------------------- MODULE Relay -------------------------------
(***************************************************************************)
(* The APNs relay: its credentials, its pushes, and the registrations its  *)
(* operator lists; and the other parts that ask a provider: the delivery   *)
(* of rich sessions, the status of certificates, and the evidence of an    *)
(* enrollment with the status it asks for.  They share no row, and each    *)
(* takes its own steps: a behaviour is of one of them, and what the others *)
(* would hold is absent.                                                   *)
(***************************************************************************)
EXTENDS InstallCredentials

CONSTANTS
  Pushes, PushAsks, Phones, DeviceTokens, Users, Clients, ClientOf,
  Deliveries, Leases, Adapters, Operations, OperationCapacity, MaxLife, MaxHour,
  Verifies, Attestations, Challenges, FreshFor, MaxChanges,
  Tuples, RoleOf, CertEnds, Responses, Day, CacheLife, Spacing, Timeout, MaxClock,
  Ids, Walks, FilterOf, ProofOf, PageRows, MaxAge, MaxStamp

VARIABLES
  rows, bearer, events, details, pushes,
  hour, current, marked, adapter, sent, deliveries,
  clock, slot, cache, active, notBefore, checks, asked,
  saved, changes, verifying, verifications, given,
  time, table, walks,
  part   \* which of them it is

P == INSTANCE PushDelivery WITH
  Requests <- Pushes, AsksOf <- PushAsks, Devices <- Phones, Tokens <- DeviceTokens, rq <- pushes

D == INSTANCE RichDelivery WITH
  Requests <- Deliveries, LeasesOf <- Leases, Capacity <- OperationCapacity, MaxTime <- MaxHour,
  now <- hour, rq <- deliveries

\* A verification has a check of the issuer's status, and one of the signer's.
V == INSTANCE EnrollmentEvidence WITH Checks <- Verifies \X {"crl", "ocsp"}, MaxTime <- MaxClock

L == INSTANCE AdminListing WITH Limit <- PageRows, MaxTime <- MaxStamp

\* What the parts are given.
ASSUME RelayAssumption ==
  P!DeliveryAssumption /\ D!RichAssumption /\ V!EvidenceAssumption /\ L!ListingAssumption

pushed == <<rows, bearer, events, details, pushes>>
rich == <<hour, current, marked, adapter, sent, deliveries>>
status == <<clock, slot, cache, active, notBefore, checks, asked>>
evidence == <<saved, changes, verifying, verifications, given>>
listing == <<time, table, walks>>

RelayInit ==
  /\ part \in {"credentials", "pushes", "rich", "status", "evidence", "listing"}
  /\ Init
  /\ IF part = "pushes" THEN P!Init
       ELSE rows = None /\ bearer = None /\ events = None /\ details = None /\ pushes = None
  /\ IF part = "rich" THEN D!Init
       ELSE hour = None /\ current = None /\ marked = None /\ adapter = None /\ sent = None /\ deliveries = None
  /\ CASE part = "status"   -> V!StatusInit
       [] part = "evidence" -> V!EvidenceInit
       [] OTHER -> /\ clock = None /\ slot = None /\ cache = None /\ active = None /\ notBefore = None
                   /\ checks = None /\ asked = None
  /\ part # "evidence" =>
       saved = None /\ changes = None /\ verifying = None /\ verifications = None /\ given = None
  /\ IF part = "listing" THEN L!ListingInit ELSE time = None /\ table = None /\ walks = None

RelayNext ==
  /\ UNCHANGED part
  /\ \/ part = "credentials" /\ Next /\ UNCHANGED <<pushed, rich, status, evidence, listing>>
     \/ part = "pushes" /\ P!Next /\ UNCHANGED <<vars, rich, status, evidence, listing>>
     \/ part = "rich" /\ D!Next /\ UNCHANGED <<vars, pushed, status, evidence, listing>>
     \/ part = "status" /\ V!StatusNext /\ UNCHANGED <<vars, pushed, rich, evidence, listing>>
     \/ part = "evidence" /\ V!EvidenceNext /\ UNCHANGED <<vars, pushed, rich, listing>>
     \/ part = "listing" /\ L!ListingNext /\ UNCHANGED <<vars, pushed, rich, status, evidence>>
everything == <<vars, pushed, rich, status, evidence, listing, part>>
RelaySpec == RelayInit /\ [][RelayNext]_everything

\* What each part that reports must keep; of the credentials it is OneLiveToken.
ReportTruthful ==
  CASE part = "pushes"   -> P!ReportTruthful
    [] part = "rich"     -> D!DeliveryTruthful
    [] part = "status"   -> V!StatusTruthful
    [] part = "evidence" -> V!EvidenceTruthful
    [] part = "listing"  -> L!MissesOnlyForCause
    [] OTHER             -> TRUE
=============================================================================
