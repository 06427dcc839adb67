# Specifications of djconnect-api

TLA+ models of the parts of this repository in which something can go wrong
between two steps: Cloudflare Workers and Durable Objects that relay Apple
pushes, with D1 and SQLite as their only shared state. Each module is
translated from the source it names; `PROJECT.json` maps every definition to
its lines.

Run a model with `tlc -config X.cfg MCModule.tla`, a proof with
`tlapm ModuleProofs.tla`.

## 1. The system

Everything runs as short invocations that share nothing but rows. An invocation
is suspended at every `await`; between two of its statements any other
invocation, the clock, a crash or an answer of the provider may come in. A
Durable Object runs one turn at a time, makes its transactions atomic
(`transactionSync`), and lets nothing leave before its writes are durable; D1
makes one statement or one `batch` atomic. This is the grain of all modules:
**one step is one D1 statement or batch, or one turn of an object.**

| Component (sources) | State it keeps | Operations | Talks to | What is hard | What makes it correct |
|---|---|---|---|---|---|
| Watch moment transport (`src/src/watch-moment`) | D1 table of operations: event hash, lease, state, attempts, expiry | dispatch, cancel, status | registrations (D1), Apple, its caller | rivals and retries on one row; a request that outlives its invocation; clock steps; a full table | at most one delivery per operation; receipts that tell the truth; a slot left for a cancellation |
| Principal registry (`src/coordinator/worker-do`) | one object: records, heads, tombstones, operations, nonces | initialize, register, retire, read | source commands; a restore fence | write-behind durability and restarts; tombstones out of order; a budget that is never freed | one record per epoch for ever; a live epoch can always be retired |
| Watch preference, restore authority, fence, retirement (`src/src/watch-lifecycle`) | D1 row of a receiver and its intents; an object with the confirmed and pending preference, fence and started attempts | preference-write, provider entry, retire, lifecycle-status | D1, which its owner may restore to an earlier moment; Apple | D1 goes back in time, the object does not; updates still on their way after a crash | one history per generation; no send without the latest consent; no attempt twice |
| Install credentials of the relay (`src/src/handlers/install.ts`, repositories, `auth.ts`) | D1: proofs, tokens, rate limits | issue proof, exchange it, rotate, revoke | clients, operator | several statements per request, none in a batch | one token per proof; a rotation supersedes |
| Rendezvous (`src/qualification/rendezvous`, mounted by `src/src/rendezvous`) | one object per transaction, one per App Attest key, one each for index, budget and admission | create, challenge, submit, poll, consume, cancel; issue, authorize, delete; enroll | phone, browser; transaction calls key | nothing is atomic across two objects; expiry on both; authorizations that outlive their key | one envelope, the accepted one, once; a cancellation holds; a counter counts once |
| Push delivery (`src/src/handlers/push.ts`, `services/pushDelivery.ts`, `repositories/registrations.ts`) | D1: registrations, audit | push, register, unregister | Apple | a loop of sends and marks that can break off; a late refusal for a row that is new again | matched = delivered + failed; only the token refused is disabled |
| Surface push (`src/src/surface-push`) | D1: delegations, capabilities, targets, operations, enrollment challenges | issue, withdraw, enroll; register, revoke, event, status | Apple, issuer | tombstones before registration, late refusals, event budgets | one attempt per event, at most `max_events`; a revoked generation stays revoked |
| Host app wake (`src/coordinator/host-app-wake`) | D1: purposes, operations | issue, register, wake, revoke, status | Apple, receiving side | coalescing by time, a clock that steps back | a bounded number of wakes, one per 30 s |
| Receiving side of it (`src/coordinator/host-app-wake-receiving`) | policy, keys, jobs, registrations, guards in SQL triggers | native proof intake, registration, dispatch guard | host app wake | guards as triggers across tables | no target without a live proof |
| Push coordinator (`src/coordinator/src/djc_push_coordinator`, Python) | SQLite: parents, children, jobs, claims, nonces, key counters | five stages, retire, submit | the stages' verifiers | a commit of unknown outcome; joint compare-and-set of job and key | a counter only grows; nothing is submitted twice or after retirement |
| Installation registry (`src/coordinator/installation-registry`) | one object: claims, pending, committed, budget | prepare, admit, withdraw, read | principal registry | ATTEMPTED/UNKNOWN after a call of another object | a claim is never committed twice; room to withdraw |
| Watch pairing, recovery, enrollment (`src/src/watch-lifecycle`) | D1: pairings, challenges, recovery | pair, replace, recover, enroll | preference and restore authority | triggers that move several rows | an old pairing has no authority |
| Native proof journal (`native-proof-data-journal.ts`) | D1: jobs, claims, nonces, key counters; reservations in memory | create, reserve, complete, reject, retire, close | enrollment of surface push | a batch whose answer is lost; two journals and two jobs on one key | a stage is reserved and completed once; a counter moves once per verification |
| Rich session delivery (`src/coordinator/rich-delivery`, `rich-session/profile-data.ts`) | an adapter: the operations it has begun, in memory | admit, check the carrier, authorize, mark, send | ports of its owner, Apple | ports whose answer is lost; a lease that ends, an adapter that closes or is rebuilt meanwhile | one send for an operation, inside the lease and the bounds of the frame; no answer about what may have left |
| Receipt status and enrollment evidence (`receipt-status-*.mjs`, `enrollment-evidence-candidate.mjs`) | a slot per role, the request under way | check a certificate; verify an attestation with its receipt | Apple's responders, the owner of challenge and policy | five awaits, and what was read before each may have ended after it | evidence is given only of what was fresh and unchanged to the end |
| Administration (`handlers/admin.ts`, `adminRegistrations.ts`) | none; it reads registrations | list page by page | D1 | an order in which a written row moves to the front between two pages | a row is missed only if it was written or left the filter meanwhile |
| Codecs, routing, logs, tooling | none, or a cache | | | | not modelled: section 7 |

The components meet at the following places. The moment transport and push
delivery read registrations that other requests replace at any time. A
preference-write is reserved in the object, committed in D1 and confirmed in
the object; a dispatch reads D1 first and then asks the object. A rendezvous
submission waits for the key's object and commits only against what it reads
again. The coordinators call each other's objects and record an attempt before
each call.

`PROJECT.json` lists the hazards at their lines, with the property that covers
each or the reason why none does.

## 2. The modules

| Module | Models | Explored by |
|---|---|---|
| `WatchMoment` | `service.ts`, `store.ts`, `relay.ts` of the moment transport; implements `MomentDelivery` | `MCWatchMoment`, `MCMomentRaces` |
| `WatchRestore` | `restore-*.ts`, `preference.ts`, `dispatch-fence.ts`, `retirement.ts` | `MCWatchRestore` in `MCWatchLifecycle` |
| `WatchPairing` | `enrollment*.ts`, `pairing.ts`, `recovery.ts`, the access front ends, the triggers of migration 0012 | `MCWatchLifecycle` |
| `InstallCredentials` | `install.ts`, its repositories, `auth.ts` | `MCInstallCredentials` in `MCRelay` |
| `PushDelivery` | `push.ts`, `pushDelivery.ts`, `registrations.ts`, the diagnostics | `MCRelay` |
| `SurfacePush` | `store.ts`, `handler.ts`, `issuer.ts` of surface push | `MCSurface` |
| `SurfaceEnrollment` | `enrollment.ts`, the operator's part of it | `MCSurface` |
| `NativeProofJournal` | `native-proof-data-journal.ts` | `MCSurface` |
| `Rendezvous` | `transaction-state.ts`, `assertion-key-state.ts`, the key row of `receipt-key-store.ts` | `MCRendezvous` |
| `RendezvousEnrollment` | `enrollment-key-state.ts`, `receipt-key-store.ts` | `MCRendezvous` |
| `RendezvousAdmission` | `request-admission.ts`, `allocation-index.ts`, `allocation-budget.ts`, the order of the routes | `MCRendezvous` |
| `HostWake` | `coordinator/host-app-wake` | `MCHostWake` |
| `HostWakeReceiving` | `coordinator/host-app-wake-receiving`, its SQL guards | `MCHostWakeReceiving` |
| `PrincipalRegistry` | `worker-do/registry.ts`, `model.ts` | `MCPrincipalRegistry`, `MCStores` |
| `InstallationRegistry` | `installation-registry/registry.ts` | `MCStores` |
| `PushCoordinator` | `djc_push_coordinator` (Python): coordinator and SQLite store | `MCStores` |
| `RichDelivery` | `rich-delivery/adapter.ts`, what it needs of `rich-session/profile-data.ts` | `MCRelay` |
| `ReceiptStatus` | `CommonStatusClient`, `CommonStatusCache` of the rendezvous | `MCRelay` |
| `EnrollmentEvidence` | `enrollment-evidence-candidate.mjs`; extends `ReceiptStatus` | `MCRelay` |
| `AdminListing` | `adminRegistrations.ts`, the listing of `admin.ts` | `MCRelay` |
| `Stores`, `Surface`, `RendezvousKeys`, `WatchLifecycle`, `Relay` | compose `PrincipalRegistry` with `InstallationRegistry` and `PushCoordinator`; `SurfacePush` with `SurfaceEnrollment` and `NativeProofJournal`; `Rendezvous` with `RendezvousEnrollment` and `RendezvousAdmission`; `WatchRestore` with `WatchPairing`; `InstallCredentials` with `PushDelivery`, `RichDelivery`, `EnrollmentEvidence` and `AdminListing` | `MCStores`, `MCSurface`, `MCRendezvous`, `MCWatchLifecycle`, `MCRelay` |
| `WatchMomentProofs`, `WatchRestoreProofs`, `RelayProofs`, `SurfacePushProofs`, `HostWakeProofs`, `HostWakeReceivingProofs`, `RendezvousProofs`, `PrincipalRegistryProofs` | proofs (section 5) | |

Conventions. `None` (or `NoRow`, `Idle`) is an absent row. A request carries its
program counter and the locals it keeps across an `await`; a step that reads
puts what it read there, and a later step uses it without looking again, as the
code does. `Fail`, `Crash`, `Abandon`, `Refuse` and `Restart` are the failures
of the runtime and the checks that end a request early. A definition whose
comment calls it a slip or a mutant, or which stands unused before the
definition it varies, shows that a property can fail: no behaviour uses it.
A module that composes components (`Stores`, `Surface`, `RendezvousKeys`,
`WatchLifecycle`, `Relay`) gives each its own variables by an `INSTANCE` and names their properties; the module
of proofs extends it, so that a theorem and the run that checks the same
property speak of one definition. Its `MC` module explores each component on its
own: `part` is the one that has begun, or that was chosen initially (then the
variables of the others hold `None`). The variables of the parts that are not
explored never change, so that a property can only fail in its own part. These
components share no row; what one takes from another (a registration, a key, a
record) is an input or an action of its own module.

### WatchMoment

`ops` is the table, `reg` the registration of each Watch, `inv` the invocations,
`flight` what Apple did with the request of each. `dispatch` is
`LookupDispatch`, `Reserve`, `RereadDispatch` or `Retry`, `BuildNotification`,
`Mark`, `CanDispatch`, `Fetch`, `Settle`, `Finish`, `Invalidate`, `Receipt`;
`cancel` shares the first and last. A request stays in `flight` after its
invocation timed out or crashed and may still be accepted. The clock may step
back `MaxRegress` times. `status` only reads and is left out.

Apple's answers are classes: accepted, refused for good, busy (429 and 5xx),
garbled, or none. The code retries a busy answer, so the model takes from Apple's
contract that a busy answer means that the push was not taken; the properties
about a single delivery rest on that.

### PrincipalRegistry

`db` is the store that transactions see, `durable` the one a restarted object
finds; `Flush` moves one to the other, `Restart` the other way. `Register` and
`Retire` are the transactions, after which the command waits for
`storage.sync`; `Acknowledge` reads again and answers. `Refuse` is an answer
lost or negative although the writes stand.

### WatchRestore

`d1` is the row, `past` the states D1 may be restored to, `actor` the object and
`disk` what it finds after a crash. A write that leaves the object waits until
`actor = disk`. `Abandon` and `Crash` leave an update on its way (`orphan`), and
it may still execute in D1 after anything else. `isRestoreCurrent` is
"the object is bound to this generation". `chain` is history: what D1
ever committed, by revision. The write without a restore authority
(`preference.ts:92-100`) is composed by no owner and left out.

### InstallCredentials

Each request is one of the four handlers (`Start` takes only what `IsValid`
admits), with a step per statement: two rate limits that are read and written apart, the proof read and consumed, the token
inserted, the bearer found, its siblings disabled. `Fail` ends a request
between any two.

### Rendezvous

`tx` holds the row of each transaction, `keys` and `ops` the rows of each key,
`calls` the submissions and the calls of `authorize` to delete or recover a key.
`submit` is `Submit` (in the transaction), `Authorize` and `Commit` (in the
key, around the verification of the signature), `Reply` (after the alarm was
set), `Accept` (in the transaction). `Restart` loses what the transaction's
object had in memory, and a call in the key's object goes on for nobody. An
erased operation keeps its fields as history. Both objects read one clock. The
caller's wrong bytes, the budget of key calls and lost messages are `Refuse`.

### SurfacePush

One delegation, enrolled, and its tables: `challenges` and `caps` by the issuing
operation, `targets`, `ops`. A call is one request of the issuer's client
(`AskIssuer`, then `OpenChallenge`, `Issue` or `Withdraw`) or of the holder
(`Arrive`, `Lookup`, then `Register`, `Revoke`, or `ReadTarget`, `ReserveEvent`,
`Reread`, `Authorize`, `Dispatch`, `Fetch`, `Answer`, `Invalidate`, `Finish`). A
batch is one step. The clock that a statement is bound to is any time between
the call's step before and the statement (`Clocks`). Since a delegation has at
most one capability, which the run checks, a target does not name it. The token
of a target is named by the target's revision: the seal binds the two. `Break`
is the `catch` around the send, `Crash` every other end; the receipt and
`status` only read.

### WatchPairing

`Authorize` and `Revoke` are the operator's grants, `RunIssue` and `RunRedeem`
the challenge of an enrollment and its redemption, `RunLifecycle` a pairing,
replacement or retirement with the triggers that move the other rows,
`RunRecover` a recovery, `Deactivate` the end of an issuer. A request passes
`Start`, `Ingress`, `Entrypoint`, `Owner`, `Select`, `Check`, its statement and
`Reply`; each front end has a deadline, and `Turndown` and `GiveUp` answer
"unavailable" while the layer below goes on. `committed` is history: the
requests whose statement took effect.

### PushDelivery

`Authenticate`, then `Register`, `Unregister`, or `Find`, `Send` and `Mark` for
one row after the other, then `Audit` and `Detail` after the answer. `Summarize`
reads one of the three tables of the diagnostics at a time. A row is named by its
unique key, so that a late mark by id meets a row that was registered again.

### SurfaceEnrollment and NativeProofJournal

A request of `SurfaceEnrollment` submits one batch (`Authorize`, `Revoke`,
`Redeem`, `Enrol`, `Withdraw`) and then reads what became of it (`Authorized`,
`Redeemed`, `Enrolled`, `Withdrawn`); `Live` and `Record` are the reads of the
operator's ledger before. `Abandon` is any end in between. In
`NativeProofJournal` the reservation lives in `held`, the memory of one journal:
`ReserveDataStage` may commit and lose its answer, `CompleteDataStage` and
`RejectOrRetireDataStage` need it, `RetireDataJob` does not, and `poisoned` and
`shut` are what a journal remembers of its own failures.

### RendezvousEnrollment and RendezvousAdmission

`Issue`/`Issued`, `Begin`, `Verified`, `Lock`, `Install`, `Enrolled` and
`Rotate`/`Rotated` end at the awaits of the object of a key; `Change` gives the
environment another policy revision or receipt key. In `RendezvousAdmission` a
request takes `Ask`, `EnterAdmission`, `Admit`, `Dispatch` and then one of three
ways: `EnterIndex`, `Index`, `CallChild`, `Create`, `Created`; or `Lookup`; or
`EnterBudget` and the charges. `objects` says who holds each of the three
objects: whoever comes meanwhile is turned away. `Alarm` and `Rearmed` are the
cleanup with the await of the next alarm.

### RichDelivery, ReceiptStatus, EnrollmentEvidence, AdminListing

A step of `RichDelivery` is what an adapter does between two awaits, or the
effect of a port: `Prepare`, the carrier, the authorization, the marker, the
send. The ports belong to an owner outside the repository, and each may lose its
effect or its answer. In `ReceiptStatus` a check looks into the slot of its role,
joins a request under way or asks (`asked`), and judges what comes back at the
clock it reads then. `EnrollmentEvidence` runs two such checks for each
verification; what is saved (the challenge, the policy) may change between any
two of its awaits and is read anew after each. `AdminListing` reads a page from
an offset of a table that devices write meanwhile. The clocks of the first three
may step back.

### HostWake and HostWakeReceiving

`HostWake` is statement by statement: `Admit`, then `Issue`, `Register`,
`Withdraw`, or `Reserve`, `Prepare`, `Mark`, `Fetch`, `Answer`, `Invalidate`,
`Finish`. `Break` is the `catch` around a send, `Drop` every other end. A wake
is accepted with the time it captured on arrival, however late its statements
run. In `HostWakeReceiving` a request that is given up leaves the statement it
waited for in `late`; `Land` executes it later, after the `catch` block has
written what it could (`Abandon`, `Catch`). The SQL triggers are conditions of
the statement that fires them.

### PushCoordinator and InstallationRegistry

The coordinator is one thread: a method is one action up to its `await`, so a
stage is `Reserve` and, after the verifier, `Complete` or `Break`; `Begin`,
`Observe`, `BindChild`, `PutParent` and `Retire` are one action each. A
transaction may lose its acknowledgement: then it happened or not, and the store
is closed. `clock` has the continuous clock, the upper bound of UTC and the
boot. `InstallationRegistry` has `store` and `disk` as `PrincipalRegistry`;
`Prepare`, `Attempt`, `Commit` and `Withdraw` are its transactions, `Sync` the
wait for the disk, `Answer` and `Read` what is decoded afterwards. The
verification lies between `Attempt` and `Commit`.

## 3. The runs

| Run | Asks | Bounds, and why they are enough |
|---|---|---|
| `moment_retry` | Do retries and cancellations deliver at most once? Is every step one of `MomentDelivery`? | 3 invocations, 1 event, clock 0..3: all three attempts fit with one second between them; the clock steps back once, while nothing is under way; no crash (the next run has them) |
| `moment_races` | Do rivals, renewals, crashes and clock steps break truth or consent? Is a slot kept when sends race? | 2 invocations, 2 signed events of one moment, disturbed in one of three ways (the clock steps back, the Watch registers again or opts out, invocations crash): each of them breaks a wrong variant of the code alone; apart from it 3 invocations, 3 events, 2 Watches, a table of 3, at most one cancellation |
| `moment_liveness` | Does each invocation end if Apple never answers? | 2 invocations, 2 moments of one event id, so that each can meet the other's row; the clock only advances |
| `stores` | Are answers durable, records immutable, room to withdraw kept, counters counted once? | principals: 2 commands at a time, 3 epochs, 2 records, 4 operations of which two share a nonce; installations: 5 calls, two at a time, 3 intents of 2 principals, one restart; jobs: 2 jobs of 2 parents with one key, or one job with both clocks, lost acknowledgements, a restart and a reboot |
| `registry_skipped_epoch` | Is no epoch skipped? (violated) | 1 command at a time, 3 epochs |
| `watch_lifecycle` | One history, no send without consent, no attempt twice, honest receipts, one issuer after the other? | corners, below |
| `relay_requests` | One token per proof, rotation supersedes; reports, deliveries and evidence that are true? | six parts, corners, below |
| `credential_burnt_proof` | Is a used proof a token issued? (violated) | 2 requests |
| `surface_push` | One attempt per event, a budget, revocations that hold; a credential used once; proofs counted once? | corners, below |
| `host_wake` | Spacing of wakes, truthful history, one line of tokens? | 2 purposes of one host, a window of 2, clock 0..4: three wakes can fall into one window or into two; corners |
| `host_wake_receiving` | Are withdrawals final and wakes proven, also for late statements? | 3 purposes of one authorization, one late statement at a time; corners |
| `rendezvous` | One outcome, limits and reserves kept, one enrollment, nothing undone? | corners, below |

Several runs explore a union of *corners* instead of one product: their
`CONSTRAINT` continues a state as long as it lies in one of them, so a corner is
explored completely and crossing two of them is left out.

- `watch_lifecycle`, the actor: three rival writes with one restore, or two with
  two; a dispatch between an enable and a disable over two generations; two
  dispatches of one attempt, or of two, while the clock passes their expiry and
  steps back; one retirement with a write, a dispatch, a restore and a crash; two
  with a write. (Two generations, three writes, two attempts and two retirements
  are each explored without a crash; the others have one.) Pairing: two
  challenges of one epoch, issued and redeemed in any order; a pairing and two
  followers; another issuer and a recovery.
- `relay_requests`: three unprivileged requests against the limit of a device
  while proofs expire; two proofs of the operator, with two tokens and two
  rotations or revocations; two events over two rows, one registered between
  them or again; an event while the device unregisters, the token is revoked or
  the diagnostics are read, with one failure. Rich deliveries: two on two
  adapters, with one disturbance (a call aborted, an adapter closed, or an
  operation no longer current). Status: three checks of two certificates of one
  role, of which the third begins when the first has ended. Evidence: two verifications, the second refused while the first begins,
  or begun when the first was given evidence of a status one unit old. Listing:
  two listings of three rows by pages of one, one at a time, out of whose filter
  two rows may go.
- `surface_push`: two issuing operations, each with rival requests, and a
  withdrawal; three registrations, rotations or revocations of one target, two
  at a time; two events that share a budget of one, or one event and another
  request, while everything expires. Enrollment: five requests, three at a time.
  Proofs: two journals, two jobs, one key, six claims, two reserved at a time.
- `host_wake`: issues, rotations, a wake and a withdrawal of one purpose; three
  wakes of two purposes, accepted and sent late while time passes, the third one
  arriving after the first was accepted.
- `host_wake_receiving`: two issues with withdrawals; two assertions of one key
  committed side by side; a proved purpose that registers and wakes while it,
  its key or its token is withdrawn. The clock does not reach the expiry of a
  purpose, of the authorization or of the policy: what ends by its time is left
  to the theorems.
- `rendezvous`: two submissions with two challenges and two envelopes; one
  submission with a deletion or recovery of its key, before or after the
  submission is committed, until all rows have expired and, once its tombstone
  has ended, the key is enrolled again; one with a challenge of another
  transaction. So the run meets an authorization accepted within its lease after
  its key was deleted, one that comes too late for it, and a counter used in two
  lives of a key. Admission: five requests of two addresses, a budget of two
  rows, one at a time with the alarms over two days of two minutes, or two at a
  time while objects restart, or the arrival of three at once. Enrollment: two
  challenges and two attestations until a key is installed; an installed key
  until its tombstone ends.

Counters that the code lets grow are bounded by constants named `Max...`; a
bound is a guard of the step that counts. Names that may be exchanged are
declared symmetric; no run with symmetry checks liveness. Deadlock is checked in
`registry_skipped_epoch` only: everywhere else requests end and the clock stops.

Fairness appears in `moment_liveness` only: the runtime continues an invocation
whose statement has returned (`WF` of each `Store` step), and the abort timer of
`boundedWork` fires (`WF` of `ProviderTimeout`). Nothing is assumed of clients,
of the provider, or of isolates staying up: a crashed invocation has ended.

## 4. What the runs show

- **Moments.** Of all the requests made for an operation at most one is accepted
  by Apple, in every interleaving of retries, cancellations, timeouts and crashes;
  all of them carry one event to one token. "cancelled" is only said of what
  will never be delivered. The detailed module implements `MomentDelivery`: at
  most three tries, one at a time, none once it is closed. However sends race,
  one slot stays for a cancellation.
- **Registries.** A positive answer survives a restart; an epoch has one record
  for ever; the budget always leaves room to retire a live epoch. A committed
  installation is kept and can be withdrawn, and no proof is verified for an
  intent whose attempt a restart could give back. Nobody is answered with a
  principal that is no longer one.
- **Push coordinator.** The revision of a key, the verifications committed with
  it and the counters accepted are one number. Retirement reaches whatever hangs
  on a parent; what was answered is in the file after a lost acknowledgement;
  a payload is returned once at most, by a live parent, before its deadline.
- **Restore.** The object knows the last preference D1 committed, whatever D1 is
  restored to; D1 never holds a second preference for a revision; nothing enters
  the provider unless the latest preference allows it; an attempt leaves once.
- **Pairing.** "unavailable" is only said of what has no effect and will have
  none. The receipts of a receiver are its revisions without a gap, no
  incarnation comes back, and an issuer is followed only when it is out of use.
- **Relay.** A proof buys one token. A rotation leaves none of the tokens active
  that were there when it was accepted. What the audit and the marks say of a
  delivery happened. A listing misses a row only because it was written or left
  the filter while the pages were read.
- **Rich deliveries.** An operation reaches the provider once, whatever adapters
  it is given to; what is sent is the original carrier, inside its bounds and its
  lease at the moment it leaves; "not sent" was not.
- **Evidence.** A status is told of the certificates asked for and holds when it
  is told, also from a slot that was replaced meanwhile; requests of a role leave
  apart. Evidence of an enrollment is of the challenge that is saved when it is
  given, and nothing it rests on has ended by then.
- **Rendezvous.** A transaction has one outcome: one winner, at most one
  delivery, of what the key authorized and within its lease, also when the key
  was deleted meanwhile, none after a confirmed cancellation. What exists was paid for, no limit is exceeded, and
  the reserve of the limits serves requests that end a transaction. A challenge
  installs one key once; an answer lost can be asked for again; encrypting a
  receipt anew undoes no deletion and no counter.
- **Surface push.** An event leaves once, and no more of them than the capability
  allows; what left is never recorded as not sent. A revision of a target has one
  registrant. A revoked target stays revoked; only its current token's refusal
  revokes it. A delegation issues one capability, and after its withdrawal nothing
  of it can be used. A credential is shown once and spent once, and a revocation
  of it holds, also when it came first. A native proof's stages, claims and nonces
  tell one story whichever journal wrote them.
- **Host wake.** Two accepted wakes of a host lie a window apart and no three are
  sent in one, though a wake accepted earlier may be sent right before the next.
  History never denies a wake that left. On the receiving side a late statement
  revives nothing that was settled or withdrawn, one counter of the key proves
  one purpose, and a wake leaves only for a token registered with its proof.

Two statements of the repository do not hold of the code:

- `registry_skipped_epoch`: the README of the registry says that no epoch is
  skipped. A tombstone may be written ahead of the head and moves it, and the
  next registration takes the epoch after it.
- `credential_burnt_proof`: `SECURITY.md` says that proofs are marked used after
  successful token issuance. The handler consumes the proof first; a request
  that fails before the insert leaves a used proof and no token.

One hazard no property covers: a pending transition that nothing may clear any
more (`restore-authority.ts:63`: the code fails closed, and release is the
operator's, outside the source). Two more are bounded by no source line and no
promise is made of them: a rotation that inserts its token after its bearer was
revoked (`auth.ts:52`), and the rate limits of the relay, which read, compare
and count in separate statements (`rateLimits.ts:31`); the model has both step
by step.

## 5. What is proved

Eight modules of proofs, for every value of the constants, under the assumptions
the modules name: bounds, lifetimes and capacities are natural numbers (those the
code compares with 1 or 2 are at least that), each operation, call or event has
its owner in the domain, `None` is none of the values it stands beside, and
sets that the code counts are finite. TLC evaluates them on every run; those of
the composed parts are named definitions (`RegistryAssumption`, `PushAssumption`,
`EnrollmentAssumption`, `JournalAssumption`, `AdmissionAssumption`,
`PairingAssumption`), which the theorems take as their
hypothesis and `MCStores`, `MCSurface`, `MCRendezvous` and `MCWatchLifecycle`
assume of the instance they explore; `RelayAssumption`, which `Relay` assumes
itself, is those of its parts (`DeliveryAssumption`, `RichAssumption`,
`EvidenceAssumption`, `ListingAssumption`). Theorems about a composed part are
stated with the names its composition gives it (`R!Spec`, `P!Spec`, `E!Spec`,
`J!Spec`, `A!Spec`; of the relay `P!Spec`, `D!Spec`, `V!EvidenceSpec`,
`L!ListingSpec`). `PairingAssumption` takes from `proof.ts` 60-64 that a recovery goes to
a later epoch.

All proofs go the same way. A lemma says for each action what it makes of the
rows, and names the kind of its step (`Turn`, `KeyTurn`, `CallTurn`, `Reads`,
...). A property about rows is then proved from a handful of kinds, not from all
actions. The inductive invariant says, for each program counter, what a request
may rely on that it read before an `await`.

- `WatchMomentProofs`. `AtMostOnce` alone is not inductive: one must know that
  the row still belongs to whoever made the last request, and that it does not
  say "retryable" unless that request was refused. `LeaseInv` says this for each
  invocation: between mark and finish the row is its own and "dispatching", and
  a row that a request may have been made from is reopened only by the answer
  that proves it was not taken. `AInv` adds what an invocation holds of its row
  (`Account`) and what the row says of the requests made for it (`RowTrue`);
  `TokenKept` and `ReceiptTruthful` follow. With the count of the requests of a
  row against its attempts (`Counted`), every step is a step of `MomentDelivery`
  or stutters (`TransportDelivers`): the refinement of `moment_retry`, for any
  number of invocations and events. `BInv` adds that the rows are finite
  and what kind of invocation leases them; admission then keeps a slot for a
  cancellation and the burst of a recipient (`AdmissionBounded`, which `moment_races` checks on
  its second part as `CrowdBound`).
- `PrincipalRegistryProofs`. The invariant has four parts: both stores are well
  formed (keys unique, each live epoch counted in the budget); the durable store
  is behind the other (`DurableBehind`); what a waiting command will confirm
  stands in the store (`WaitsStand`); every positive answer stands in both
  (`AnswersDurable`). The budget theorem counts: a registration spends two of
  the free operations, one of them kept for its retirement, so retiring never
  needs a new one. `EpochsGrow` and `LiveWhenAcknowledged` are derived from the
  same invariant. The installation registry has two stores as well, and
  `RegistryInv` says of both that they are sound (`Sound`: an intent that is not
  retired is the latest of its principal, the claims and what is kept to end the
  others fit), that the disk is behind (`Grows`), and of each call which of its
  writes stands where (`CallOf`): what it was told is committed is on the disk,
  and no verifier runs for an attempt that a restart could give back
  (`AnswersKept`, `NoLateAnswer`). In the push coordinator a job stands at the
  place its revision counts, exactly the stages before have been spent (`JobAt`),
  whatever hangs on a retired parent has ended (`Ended`), and the row of a key
  counts the verifications committed with it (`KeyAt`). The handle of a job is
  there only between the answer to its submission and the return of its payload
  (`PayloadOnce`). All of it is about the file, and a step either keeps the file
  or replaces it in one piece, so a lost acknowledgement is no case of its own:
  `CounterOnce`, `DurableTogether`, `PositiveIsCurrent`.
- `WatchRestoreProofs`. A reservation is on the actor and on its disk before its
  update leaves, and nothing clears it before the update is in D1 (`History`);
  the fence of a generation is on the disk before D1 retires it (`Fences`); an
  attempt belongs to whoever entered it first (`Starts`). So D1 writes one
  history, whatever it is restored to (`OneHistory`), an attempt is made once
  and nothing enters without the latest consent (`EntryAllowed`).
  Pairing: the receipts of a receiver grow at their end, by a row that may follow
  the last one (`MayFollow`, `ChainGrows`). A request commits in the one step
  between its submission and its reply, and whoever is told "unavailable" can no
  longer commit (`PairAt`); a challenge names the epoch after the one its grant has
  left (`Offered`): `ReceiptsHonest` and the action property `IssuerSuccession`. The
  proof found that what `ReceiptChain` says of two pairings holds for grants of
  one receiver: two receivers may have grants that name the same incarnation.
- `RelayProofs`. A used proof has one request that may still mint
  (`Purchases`), a token is named by its request (`Fresh`), and a rotation has
  disabled what it saw before it answers (`Rotations`): `OneLiveToken`. Each part
  that reports has its own invariant, and `RelayInv` is that of the part the relay
  is: `ReportTruthful`.
  Pushes: what a request counted per class is what it was answered, and what is
  left of its rows is what it has not tried (`CountAt`); an audit is written of
  rows that have all been tried (`WrittenAt`); a mark has its answer, and no
  answer is ever taken back (`RowAt`).
  Rich deliveries: whoever found the marker of its operation unset holds it alone
  (`Markers`), until it sends the carrier was found fit at a reading that no later
  reading precedes (`Fit`), and what left, left once for its call (`Departures`).
  Status: a check is of its certificates from its call on (`CallAt`), the one
  request of a role is under way as long as anyone waits for it (`Requested`), and
  what a slot keeps is sound by its own times (`Kept`). Evidence rests on it: the
  invariant of the client is a conjunct of `EvidenceInv`, and what a verification
  has found out by the await it is at is `VerificationAt`.
  Listing: of the rows that nobody wrote, those that lie before the offset and were
  not shown are as many as left the filter, at most (`WalkAt`): a write moves a row
  before all others, so that only one that leaves lets the others come closer. The
  positions of the rows have no gap, so a page that ends a listing leaves none behind
  (`PositionsAreAll`, by counting, not by induction).
- `SurfacePushProofs`. From the reservation of an event to its finish its row
  bears the claim of one call, and only that call moves it (`Ledger`). The
  budget is a count of rows (`Budget`), a revision of a target descends from one
  registrant (`Descent`), and a revocation has a cause (`RevokedForCause`). This gives
  `EventAccount`, `OneDescent`, and the action property `SettledStays`.
  The journal of proofs: a stage has one claim and the reserved one is active
  (`OneClaim`), the stages before a claimed one are committed (`InSequence`),
  and each of the two nonces of a job is spent by the claim of its verification
  (`NoncesSpent`), whichever journal wrote them: `OneStory`. A counter grows only
  with a claim that becomes committed in the same step (`CounterPerVerification`).
  Enrollment: an authorization that was not consumed is claimed by whoever drew it
  (`Drawn`), an entry of the ledger tells the outcome of the authorization its
  request consumed (`Entries`, `Redemptions`), and what the ledger revoked stays
  revoked although the revocation may come first (`RevokedStays`): `SingleUse`,
  `RevocationHolds`.
- `HostWakeProofs`. Two wakes that were accepted lie a window apart (`Apart`),
  the registrations of a purpose are its revisions without a gap (`Chain`), its
  issue is answered once (`Issued`), and its token goes only for a cause
  (`TokenForCause`). `Spacing`, `Truthful` and `OneLine` follow.
- `HostWakeReceivingProofs`. A statement does the same whoever runs it, its
  request or, given up, the runtime: every one leaves the rows of a purpose,
  writes while nothing above is withdrawn, or closes them. What a row hangs on
  exists (`Rooted`), a key was proved (`KeyProved`): `WithdrawalFinal`,
  `CounterOnce`, and the action properties `WakesAreProven` and `SettledStays`.
- `RendezvousProofs`. What a step does to the keys and their operations is one
  of six turns: quiet (sweeps), a tick, a draw, an admission, a deletion, an
  enrollment. No turn changes a grant that was admitted, but for its status
  (`GrantsNeverChange`), so what a transaction reads when the answer arrives is
  what the key committed. An operation was admitted by a key born before and not
  deleted yet (`Draws`, `Lives`), a granted call names an admitted operation
  (`Shapes`), and row and history of a transaction tell the same (`Outcomes`).
  From this `OneOutcome`, the lease after a deletion included, and `CounterOnce`,
  also for a key that is deleted and enrolled again. Enrollment: a challenge is
  drawn by one call and taken by no other, so that an installation names a call
  that has ended (`OfferOf`); while its challenge lives and nobody deleted its
  key, the registration and the key are there, and the next key comes after the
  tombstone (`InstalledAt`): `OneEnrollment`. Whoever read a row to encrypt it anew
  finds it as it was, or revised since, or has read a row whose time is over
  (`CallAt`): `NeverUndone`.
  Admission: whoever holds one of the three objects is alone between its entry
  and its answer, so a charge is one turn of the counts. A live table counts the
  requests that have paid in its period, the budget may have been charged in vain,
  and a descriptor is kept until it expires: `WithinMeans`. A request that ends a
  transaction and is refused has met a table filled by such requests:
  `EndsHaveReserve`.

Model-checked only:

- `RequestsEnd`: liveness, with `ENABLED` in its fairness, is beyond the prover.

`CrowdBound` is the second instance of `WatchMoment` in `moment_races`, of whose
`AdmissionBound` the theorem `AdmissionBounded` speaks.

## 6. The plan

Every component that keeps state has its module, and every safety property that a
run checks has its theorem. What is left are crossings that the runs leave out:

1. credentials that are revoked between two marks of one delivery over several
   rows;
2. an enrollment of surface push that is withdrawn while its capability is used.

## 7. What is not modelled

Cryptography, encodings and signatures are values that are equal or not; text,
payloads and localisation are left out. Each component below is left out because
it keeps no state between two requests, so that nothing can come between its
steps:

- the provider client, messages and payloads (`apns.ts`, `messages.ts`,
  `crypto.ts`): pure computations, whose outcome the sending modules take as a
  class of answers;
- routing (`index.ts`), CORS and headers: one dispatch to the handlers;
- data codecs of the coordinator packages, `native-proof-transcript.ts`, the
  decoders of `wire.py`, the codecs of the Watch lifecycle: total functions of a
  body, which either decode or refuse;
- `pre-qr-replacement-reference.ts` and `jwe-framing.ts`: the client's side;
- the log of API requests: single statements that nothing waits on (of the
  administration, the summaries are in `PushDelivery` and the listing in
  `AdminListing`);
- migrations appear as the tables and triggers of the modules; build scripts,
  qualification drivers, evidence and documents are tooling.

The product transport of the rendezvous is compiled off and only routes. Within
modelled components: poll pacing, the scheduling of alarms (a sweep may run at
any time after its due date), delivery of a Durable Object's answers other than
lost or once, `status` reads that observe one row, and the write of a preference
without a restore authority, which no owner composes.
