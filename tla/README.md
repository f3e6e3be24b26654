# Verification of the workforce audit service

TLA+ models of BasitClaw's workforce audit service, the TLC configurations
that check them on small instances, and TLAPS proofs of what matters most.
Paths are relative to the repository; `PROJECT.json` is the machine-readable
index (components, runs, the source lines behind each definition, hazards,
theorems).

## The system

The service keeps, per tenant, the findings of a workforce audit and a
hash-chained governance ledger, and a growing set of stores around them:
evidence, preservation archives, signed attestations, export approvals,
privileged access, identities, security events and alerts. Everything is
encrypted JSON on a filesystem that several Node.js processes may share. Inside
one process the code is synchronous apart from OIDC key retrieval, alert
delivery and request bodies, so the concurrency that matters is between
processes, at filesystem calls, and with crashes.

Three mechanisms recur:

- a lock made with `mkdir`, with an owner record and a lease time: the *tenant
  lease* with a fencing token (`coordination/`), and the *file mutex* without
  one (`security/fileMutex.js`);
- read, change, replace atomically: one encrypted snapshot or index per tenant
  or per store, rewritten as a whole under the lock;
- one file per job, whose directory or state field is its state: alert outbox,
  scan jobs, assurance bundles. Moves between states are two or three file
  operations, and recovery code runs in front of every operation.

### Inventory

| Component | State it keeps | Operations | What makes it correct |
|---|---|---|---|
| Tenant lease (`coordination/fileLeaseCoordinator.js`) | lease directory, `owner.json`, fence counter | acquire, assertValid, heartbeat, release, takeover of expired or orphaned leases | one holder at a time while nobody stalls; tokens unique and increasing; calls end |
| Fenced store (`coordination/fencedSnapshotStore.js`) | version files named by token | load, save, prune, concurrent reads | the newest version never regresses; superseded writers are rejected; nothing acknowledged is lost |
| Coordinated registry (`coordination/coordinatedRegistry.js`) | none of its own | write under the lease on a fresh registry, read without | reads see what was acknowledged; operations compose to one history |
| Snapshot store (`persistence/encryptedSnapshotStore.js`) | one envelope per tenant | load, save, restore | atomic replacement |
| Recovery points (`persistence/backupManager.js`), replicas (`resilience/replicaManager.js`) | envelope and manifest pairs | create, verify, prune, remove, replicate | a listed point can be loaded; pruning keeps the newest; a replica equals its source |
| Registry and ledger (`services/`) | tenant state, event chain | findings, backup, restore, drill, resilience cycle | a failed persist leaves memory and disk equal; restore is refused on a moved head, and rolled back on failure |
| Scheduler (`resilience/resilienceScheduler.js`) | timer, last result | start, stop, runOnce | runs do not overlap |
| File mutex (`security/fileMutex.js`) | lock directory | acquire, release, quarantine | exclusion; a lost lock is noticed |
| Privileged access (`security/privilegedAccess*.js`) | requests, event chain | request, approve, deny, cancel, revoke, break glass, review, expiry, pruning | no elevation without its approvals; chain verifies after trimming |
| Identity entitlements, SCIM (`security/identityEntitlementRegistry.js`, `scim*.js`) | versioned entitlements | upsert, patch, deactivate, enforce | no lost update; suspended users are refused |
| Authentication (`authenticationGateway.js`, `accessControl.js`, `oidcAuthenticator.js`) | JWKS cache, one refresh in flight | authenticate, authorise, refresh | stale keys are used only within their bound; a failed refresh does not block later ones |
| Rate limiters (`rateLimiter.js`, `sharedRateLimiter.js`) | buckets | consume, prune | at most `limit` requests a window |
| Security events (`securityTelemetry.js`, `securityEventArchive.js`) | memory ring; segments, head, anchor, prune journal | record; append, list, verify, prune, recover | the chain verifies after any crash; nothing retained is lost |
| Alert delivery (`securityAlert*.js`) | pending, in-flight, delivered, dead files | enqueue, claim, complete, retry, dead-letter, requeue, recover | at-least-once delivery; dead letters stay visible |
| Key lifecycle (`securityKeyLifecycle.js`) | none | inspection | a key in use is not reported safe to retire |
| Evidence custody (`evidence/evidenceRegistry.js`, `evidenceServer.js`) | index, contents, event chain | ingest, versions, holds, disposition, verification | no disposal under hold, retention or reference; index and contents agree |
| Screening, external scans (`evidenceScreening*.js`, `externalScan*.js`) | verdicts, attestations, jobs by state | screen, queue, claim, acknowledge, fail, attest, requeue, janitor | content is released only on the newest clean verdict; a job is in one state |
| Preservation (`evidencePreservation*.js`) | write-once objects, receipts | preserve, verify, gate disposition | disposal only after verified preservation |
| Time attestation and governance (`evidenceTime*.js`) | signed records, authority policy, exceptions | record, quorum, propose, approve | a quorum of distinct authorities |
| Assurance bundles and export approval (`evidenceAssurance*.js`) | sealed packages; approvals | queue, claim, acknowledge, expire; request, approve, execute | one approval exports once; delivered bundles are final |
| HTTP application (`server.js`) | none | look up the service of a tenant, read the body, call it | a request works on the service that is current |
| Federated server, scripts, page, types | none | routing, wrapping | not modelled |

Interaction: the HTTP layer authenticates, consumes a rate-limit token, asks
privileged access for protected permissions and calls one component. The
coordinated registry builds a registry on a fenced store inside the lease;
that registry calls ledger, recovery points and replicas. Evidence servers wrap
each other (custody, screening, scans, preservation, time attestation, bundles,
approvals), and disposition passes every gate. Telemetry feeds archive and
alert outbox. Everything but the coordinated registry is locked by the file
mutex.

Hard behaviours: takeover of a lock whose holder is slow or gone; a process
suspended inside its critical section; crashes between the file operations of
one transition; partial failures whose handlers undo; leases of claims that
expire under a worker; clocks that jump; expiry that is computed at reads but
persisted later; pruning at a limit. The hazards in `PROJECT.json` name each at
its line.

## Modules

| Module | Models |
|---|---|
| `FileLease` | the tenant lease, one step per filesystem call |
| `CoordinatedWrites` | fenced store and coordinated registry; EXTENDS `FileLease` and runs the operation inside its `held` step |
| `CoordinationProofs` | theorems about `FileLease` and `CoordinatedWrites` |
| `TenantRecovery` | state and ledger of one tenant, backup, replication, drill, cycle and restore, one step per file, and the requests that a restore overtakes |
| `TenantRecoveryProofs` | theorems about `TenantRecovery` |
| `PrivilegedAccess` | the privileged access registry over a mutex that can be lost, and the handler's permissions |
| `PrivilegedAccessProofs` | theorems about `PrivilegedAccess` |
| `SecurityArchive` | the event archive, one step per change to its directory |
| `ArchiveLog` | what the archive promises: an ordered log that loses only expired events at its front |
| `AlertOutbox` | outbox and dispatcher of security alerts, one step per operation or part of one that stopped |
| `SecurityProofs` | theorems about `SecurityArchive`, that it implements `ArchiveLog`, and about `AlertOutbox` |
| `ScanJobs` | the outbox of external scan jobs and its janitor |
| `ScanRelease` | EXTENDS `ScanJobs` with custody, screening, attestations and the policy mutex around them |
| `ScanProofs` | theorems about `ScanJobs` and `ScanRelease` |
| `EvidenceCustody` | one item of evidence: index and contents, preservation, the disposition gate, the guard of findings |
| `EvidenceCustodyProofs` | theorems about `EvidenceCustody` |
| `TimeAttestation` | the three layers that count time attestations, and the two outer disposition gates |
| `TimeAttestationProofs` | theorems about `TimeAttestation` |
| `AssuranceExports` | export approval and the bundle outbox, with materialisation between them |
| `AssuranceExportsProofs` | theorems about `AssuranceExports` |
| `MC*` | the sets that the configurations use; in `MCCoordinatedWrites` also the claims of the docs |

Operators named `<Definition>_<Bug>` are variants of the definition after them with one
plausible bug, which a run must notice. They are not part of any
specification.

### FileLease

`leaseDir` is the directory `<tenant>.lease` with the owner record in it,
`fence` the counter file, `pc[p]` the place of a process in `withLease`. The
control points before `Holding` are the loop of `acquire` (mkdir, readOwner,
isOrphanedLease, tryTakeOverStaleLease), `Setup` the three file operations after
a successful mkdir, `Working` the operation between two `assertValid` calls and
`release` with its check and its removal. Every read followed by a change is
two steps, because the code does not look again: `takeOver`, `rewrite` and
`remove` act on whatever is at the path by then. `heartbeat` is modelled as the
coordinator offers it; nothing under `src/` calls it.

Time is only asked whether the lease is older than `leaseMs`; `Lapse` makes it
so. A process of `CanStall` may be suspended that long at any point, the others
release in time. A process of `MayFail` may crash or have a file operation
throw. `upset` is a history variable naming what went wrong so far:
`overtaken` (a directory was made while another process was between looking
at its predecessor and changing it), `stalledSetup` and `stalledWork` (a lease
lapsed under its holder). The properties say which of these they survive.

### CoordinatedWrites

`versions` maps a fencing token to the set of operations its file contains, so
that a lost update is an operation missing from the newest version. An
operation lists, reads, checks the fence, writes and prunes in separate steps
(`stage`), may save more than once, and may stall between any two; `acked` has
the operations whose callers got their result, which is after the last
`assertValid` and after `release`. Readers list and read in two steps without
the lease. The steps of the lease are those of `FileLease`, conjoined.

### TenantRecovery

`memory` and `durable` are the state and the ledger of the tenant in the process
and in its snapshot: a count of entities per kind and the sequence of events.
`backups` and `replicas` have for each recovery point its envelope and, by
`order`, its manifest; a point is listed when it has a manifest and loadable
when it has both. An operation is a walk through `op.phase`, one step per file,
because one process works on one operation at a time, without waiting: only
`Crash` comes in between. Each write may fail, and then goes the way of its
handler: `RolledBack` for a mutation or an event, `UndoEnvelope` and
`UndoManifest` for a backup (where the handler of `createTenantBackup` calls `remove`,
which leaves both files when the first cannot be removed), `UndoReplica`, `RollBackRestore`. `root` says what
started the walk, so that a backup ends as a backup, as the first half of a
cycle or as the safety copy of a restore. `Required` is the setting that makes
a failed replication fail the cycle.

The exception is a request for a mutation: the application looks up the
service and then awaits the body. `waiting` is such a request, and
`ReplaceService` is what a restore does to it: the request keeps the old
service (`MutateReplaced`), whose ledger is the tenant's and whose state is its
own.

### PrivilegedAccess

The registry reads one snapshot under the file mutex, applies `expire`,
`prune`, the operation and `trim`, and replaces it. So `store` is a snapshot,
an operation one action built from the same helpers in the same order
(`Current`, `Put`, `Save`), and a refused operation has no step. The mutex has
no fencing token: a holder suspended past `leaseMs` is evicted and still
replaces the snapshot when it resumes. `Save` therefore either writes at once
or leaves its snapshot in `late`, which `LateWrite` puts on disk at any later
time. `Effective` is the status as `get` and `authorise` compute it. `Look`
remembers what a caller read, so that `DecisionsAreInformed` can compare the
`expectedVersion` check with what it is for. `Handle` is the HTTP handler: who
may reach which action, and what a reader sees.

### SecurityArchive

`stored` holds the envelopes of all segment files, `aside` the segments renamed
to `.pruning`; `anchor`, `head` and `plan` are the three JSON files. An
operation holds the mutex from `Begin` to `End` and goes through `at`: recover
the journal, recover the head, append, write the head, prune (journal, renames,
anchor, removals). `Stop` ends it between any two of these. Reads between two
changes belong to the next change, because nobody else writes while the mutex
is held. Renames and removals of one pruning are taken in any order, the code
goes by name. `Skew` is how many days the clock of a process may be behind; the
events' identities stand for their hashes.

### AlertOutbox

`files` is the four directories: for each alert its pending file, its claim in
`inflight` with a token, its dead letter, and the receipts. The operations are
functions on `files`, one for each helper of the code (`Recovered`,
`Written`, `Settled`, `Pruned`), applied in its order. Every operation holds
the file mutex, so it is one step; a step named `..Stopped` is the part of one
that a crash or an exception left behind. `batch[w]` has the claims of a
dispatch cycle that are not settled yet: between claiming and settling, where
the code awaits the receiver, other processes act. What the receiver answers,
or that it does not, is a choice of `Outcomes`; what it makes of a request it
gets twice is its own affair. `SettleTwice` is what the handler in `deliverClaim` does when `complete`
itself throws. Back-off, `Retry-After` and leases are abstracted to "due at
some time" and "lapsed at some time".

### ScanJobs and ScanRelease

`jobs` has for each job the directory its file is in and the record in it, which
differ when a process stopped in `Interrupted`, between the rewriting and the
renaming. `Prepared` is what every operation does first: reconcile the
directories it looks into (not all of them), recover claims that lapsed, prune
dead letters. The janitor is a step of its own (`Maintain`), since it takes and
releases the same mutex before the operation. `held` has the claim tokens that
the scanner was given; it may use any of them at any time, also twice or late.
Names of files are numbers, because claiming and the janitor's pruning go in
the order of names.

`ScanRelease` adds three more stores with a mutex each: `custody` (the current
version), `screened` and `screening` (the screening index and its own idea of
the current version) and `accepted` (the attestations in order of arrival). An
operation under the policy mutex is two steps, with the state of other stores
free to change in between; `policy` remembers what it works on. The steps of the
jobs are those of `ScanJobs`; queueing and completion happen only inside the
policy mutex.

### EvidenceCustody

`index` is the item in the custody index, `contents` the versions whose file is
there. `Store` has the four outcomes of writing a content and then the index,
including the handler that removes the content of an index that was in place
although saving it threw (`doubted` remembers that). Preservation reads the
item without the mutex and writes object and receipt in two steps; a
disposition goes from the outside in: references (in the handler, before any
mutex), preservation gate, load and checks under the mutex, tombstone, removals,
the record of the purge. It saves the item that it loaded (`disposal.item`).

The mutex has no fencing token, and `withLock` looks at its ownership only
before and after an operation. What a change of the index does in time is one
step, because it excludes; what it does after it was evicted is `Suspend`, which
leaves in `late` what was loaded and what will be saved, and `LateContent` and
`LateSave`, which write it at any later time, or never (`LateStops`). A change
of another item of the tenant saves the whole index and so this item as it was
(`ChangeOther`). A disposition may be evicted at any of its steps (`MutexLapses`,
`disposal.evicted`) and goes on. `overtaken` is a history variable: somebody who
was evicted wrote while the index was not the one he knew, or while somebody else
had the mutex. The properties say up to there what they say.

A finding that refers to the item is validated under the guard (`mutex` is
"finding") and then forwarded; `ReleaseGuard` is the end of the response or of the
connection, so it may come before `CommitFinding`.

One disposition and one finding are under way at a time. Ingestion has no late
form: its identifier is new, so that nobody else knows of the item.

### TimeAttestation

`records` are the attestations in order of acceptance, `archived` when each
archive was written, `journal` the governance
events, `keys` the configuration of the running process, which `Restart`
changes. `CryptographicQuorum`, `PolicyQuorum` and `OperationalQuorum` are the
three counts of providers over the same records, by the code of store, policy
and governance. The decorated objects of the code become operators that call
each other in the same way, so that `Listed` with its limits is the same
listing for all of them. A disposition passes `OperationalGate` and
`QuorumGate` in two steps and goes on to the gate of `EvidenceCustody`.

### AssuranceExports

`approvals` and `bundles` are the records of the two stores. A bundle is named
by its request and by what its sections held when it was queued, as
`bundleIdFor` hashes them; `SectionsChange` moves that on. `Materialise` takes
the lock of the approvals (`holder`), queues the bundle, and `Consume` or
`FailToConsume` ends it. `held` is what recipients received, with the seal of the
package and the token of the claim, which they may use late or again.
`granted` is a history variable: who had approved when the bundle was queued.

## Runs

| Run | Instance | Shows |
|---|---|---|
| `lease` | 2 processes that may stall, crash or fail anywhere; counter to 2; fairness | exclusion while calm; unique, increasing tokens and confirmation by the newest grant whatever stalls during the operation; every call ends unless competitors make directories for ever |
| `writes` | 2 writers that may stall and fail, 1 reader; counter to 3; 2 versions kept | nothing acknowledged is lost, only superseded holders are rejected, pruning takes only superseded versions, the newest version never regresses, reads see what was acknowledged |
| `overwrite` | 2 processes that neither stall nor fail | violation, see Findings |
| `tenant` | 3 recovery points, 2 kept, 1 replica, 5 events, 2 failing writes or crashes | state and ledger stay together, memory is what is on disk, a restore keeps its safety copy, something reported can be loaded |
| `privileged_late` | 2 tenants; a requester, two colleagues and a stranger; 2 requests, 1 late writer; clock to 2 | quorum, terms, event chain, finality |
| `archive_recovery` | 5 days, 5 events, retention 1 day, 2 events a segment, equal clocks | every stop is recovered, and the archive implements `ArchiveLog` |
| `alerts` | 2 processes, 2 alerts, 2 attempts, 1 requeue, 2 crashes, exceptions or stalls; fairness | no alert is lost, every alert settles |
| `scans` | 2 jobs, 3 queueings, 2 attempts, 1 stop; fairness | the budget of attempts holds on every way back, jobs never go back, every job settles |
| `scan_release` | 2 versions, the first scanned twice, stops in the policy mutex | what completes a job is attested, a release heeds the verdicts |
| `evidence` | 2 versions, clock to 2, 2 crashes, failing calls or evictions | index and contents agree, the gate needs receipts, and until somebody evicted intrudes what is held, not yet due or guarded is kept |
| `time` | 2 versions, 2 providers, 3 configurations, 5 records, 2 decisions, clock to 3 | accepted attestations stay valid, quorums nest, exclusions are final, dispositions heed the journal |
| `exports` | 2 requests, 2 packages, 2 claims, 1 change of the sections | bundles are approved by enough others, only what was received is delivered |

Some configurations are not among these runs and are run by hand, `tlc
-config <name>.cfg MC<module>`. The first passes; the others end in the
violations that Findings describes.

| Configuration | Property |
|---|---|
| `PrivilegedAccess_informed` | passes: `OneLiveRequestPerPermission`, `DecisionsAreInformed`, with overlapping bundles, a looker and no late writer |
| `CoordinatedWrites_lost` | `LostMutationsHaveNoEffect` |
| `PrivilegedAccess_revoked`, `PrivilegedAccess_review` | `RevocationIsFinal`, `ReviewedAfterUse` |
| `SecurityArchive_skewed` | `AlwaysRecovers`, with clocks a day apart |
| `AlertOutbox_dead` | `DeadLettersKept` |
| `EvidenceCustody_gate` | `DisposedIsPreserved`, without failures |
| `EvidenceCustody_evicted` | `HoldAlwaysProtects`, with one eviction |
| `EvidenceCustody_disconnect` | `CreatedOnActive`, without failures |
| `EvidenceCustody_referenced` | `ReferencedIsKept`, without failures |
| `ScanRelease_current` | `ReleasedIsWhatWasChecked` |
| `AssuranceExports_once` | `MaterialisedOnce` |
| `TenantRecovery_overtaken` | `AlwaysConsistent` |

The type invariants are proved, as theorems or as part of an inductive
invariant, and no run repeats them.

Why the bounds are enough. The `writes` run is cut off where something
worse than a stalled operation happened (constraint `OnlyStalls`): what happens
then is the subject of `overwrite`. In the lease, a decision is overtaken by one other
process, which two processes show, and the theorems hold for any number; the
counter has to reach 2 for one token to supersede another, and 3 in the store
so that pruning (two versions kept) removes one. Recovery points: with two
kept, the third is the one that pruning is about, and the safety copy of a
restore competes with both; two faults let the handler of a failure fail.
Privileged requests interact in pairs
(overlap, pruning of one while the other lives); with windows and durations of
1, two units of time pass both deadlines and the retention after them, and
`EventRetention` 3 is trimmed by the fourth event. In the archive, five events
in segments of two give a full segment, a new one of the same day, and two
prunings one after the other; a `Stop` may come after each step of each. Alerts
interact through batches only, of which two processes with two alerts show the
lost one, and recovery compares the copies of one alert that stops leave
behind: one stop makes a second copy, two let recovery itself stop; two attempts give a retry and a last attempt.
Scan jobs interact through batches and pruning, which two jobs with retentions of 1 show;
the third queueing brings a dead letter or a pruned record back. A release
relates two versions and the two latest attestations of one of them. In
custody, a second version is what can be added behind a gate, the clock passes
one retention date and may reach a second one, and two failures are an evicted
disposition and one more step that goes wrong, or two operations that are late. Time attestations need two providers for a quorum, a key
that is rotated and one that is not, two versions of which one may lack its
quorum, and one more attestation than a listing holds (three in an archive,
with four signed for it). Exports have an old and a new package of one bundle,
an old and a new claim, and a second request that pushes the first out. `CHECK_DEADLOCK`
is off where the bounds (counter, clock, events) stop the system; the program
has no such end.

Fairness is assumed by `lease`, `alerts` and `scans`, for their liveness properties. `WF(Step(p))`: the code is
synchronous, so a process that is in a call goes on to its next file operation.
`SF(FinishOperation \/ AbortOperation)`: an operation is finite code that
heartbeats finitely often (in fact never). `SF(Refuse)`: the clock reaches
`acquireTimeoutMs`, after which a look at a live lease ends the call. No
fairness is asked of starting a call, of failing or of time passing. The
premise of the property is needed: `acquire` returns to mkdir after a takeover
without a look at its deadline.

In `alerts`: `WF(ClaimDue)`, because the timer of a dispatcher starts cycles for
ever; `WF(Settle \/ LoseClaim)`, because a cycle runs to its end
and requests are aborted after `timeoutMs`; `WF` of an alert becoming due and of
a claim that nobody holds lapsing, which is the passage of time. Crashes,
exceptions and claims that lapse under a live worker are bounded by `MaxStops`:
without a bound an alert may be claimed and lost again for ever.

In `scans`: `WF(Maintain)` and `WF(Look)`, because the queue is listed and its
health is asked for ever, and the janitor is in front of both; `WF` of a job
expiring and of a claim lapsing, which is the passage of time. Nothing is asked
of the scanner: it may never claim, answer or attest.

## Proofs

TLC checks the instances above; the theorems below hold for every value of the
constants. TLAPS checks them to the last leaf. Every safety property of a
passing run, invariant or action property, is stated by one of them.

They assume what the modules assume of their constants, which TLC evaluates on
the instances: bounds are natural numbers and limits positive, as the code
validates them; values that stand for "no file" or "no version" are none of the
others; processes are finitely many. Some need more and say so in their
statement:

- `DecisionsInformed`: no evicted holder may write (`MaxLate = 0`).
- The theorems about `SecurityArchive`: processes share a clock (`Skew = 0`).
  With clocks a day apart they are false, see Findings.
- `AlertLifecycle`: both retentions hold all alerts there are
  (`RetentionSuffices`). Beyond them alerts are removed on purpose.

`CoordinationProofs`, the lease: `LeaseTypeCorrect`, `LeaseExclusion`, `TokenUniqueness`,
`NewestOwner`, `GrantOrder`, `ConfirmationOrder`. None of the properties is
inductive alone. `LeaseInv` has, besides the types, these parts. `TokensWhereDue`: a process has a
token exactly from writing the counter to leaving. As long as nothing but
`stalledWork` happened (`Tame`): `SetupIsAlone`, whoever sets a lease up has its
directory on disk and nobody else is in set-up or about to change the
directory; and `TokensInOrder`, the tokens in use differ and are at most
`fence`, and the record on disk, and whoever may write it, carries `fence`. As
long as nothing happened at all: `WorkIsAlone`, the same of the whole lease. Since disturbances
only accumulate (`UpsetGrows`), each step is proved under the premise of the
state after it. The action properties follow from `LeaseInv` at the step.

`CoordinationProofs`, the writes: `WritesUseLease` is the refinement that lets
the theorems of the lease speak about the writers. On top of it are
`AcknowledgedKept`, `ReadersInformed`, `FenceRejectsSuperseded`,
`VersionsGrow`, `NewestNeverFalls` and `LoadsFailOnlySuperseded`. That the
latest version has what was acknowledged is not inductive: a holder that was
replaced may have passed the fence and write late. `SettledStays` takes every
operation whose result was accepted, told or not, and says that they are also
in what any holder that could still write the newest version has loaded
(`MayLead`), or will read (`Keeps`). `OwnVersions` ties a token to its file:
without it two writes under one token could differ, which is what `overwrite`
shows. `NewestStays` is what late pruning must not break: each file on a list
to prune has as many newer ones as are retained. It and
`PrunedOnlyWhenSuperseded` hold whatever disturbs the lease, so
`NewestNeverFalls` and `LoadsFailOnlySuperseded` do too; the rest holds as long
as holders do nothing worse than stall in their operation.

`PrivilegedAccessProofs`: `PrivilegedTypeCorrect`, `ElevationsApproved`,
`RequestsApart`, `ClosingIsFinal`, `ReviewsOutstanding`, `DecisionsInformed`.
The invariant `GoodSnapshot` speaks of one snapshot: approvals are different
colleagues, an active ordinary elevation has enough of them, live requests do
not overlap. It holds of `store` and of everything in `late`, so a late write
cannot break it; each helper of `mutate` is a lemma that turns a good snapshot
into a good one. Bounding identifiers by `issued` keeps them from being given
twice. The two action properties go by way of `Progress`, which says what one
mutation that is not late may do to a request. `DecisionsInformed` adds that what was seen at a
version is still the request of that version or of an earlier one (`Informed`), which
needs `MaxLate = 0`, as the theorem says: two snapshots that grew apart may
have different requests with one version.

`AccessHasTerm`, `ChainsVerify` and `EventsAccount` rest on a second invariant
of the same kind, `Accounted`. `Numbered` says that the events of a snapshot are
numbered from its anchor on, without a gap and once each; `EventsAccount` is not
inductive without it, because the last event of a request (`LastWord`) is the
one with the greatest number. `trim` keeps as many events as are retained, which
a counting argument (`Ranks`) turns into the numbers after the new anchor. Terms
depend on the clock, so `Accounted` is also shown to survive time passing.

`ScanProofs`: `BudgetsAreKept`, `JobsGoForward`, `CompletionsAttested`,
`VerdictsHeeded`. `GoodRecord` is the budget
of one record, which the helpers preserve (`LeftGood`, `ClaimedGood`,
`LapsedGood`). What makes it inductive is `PreparedGood`: after the
reconciliation in front of an operation, a file in `pending` holds a record that is
pending, although a file of another directory may not be where its record
says; so a claim never takes a record that has used its attempts. An operation
is recovery and then a transition, and `RecoveryThenMove` shows that the two
together are again one of `JobMoves`. That `FreshToken` exists is a counting
argument (`TokenExists`). Around the outbox, `NoneEnded` is the lemma that
nothing but `completeFromAttestation` completes a job, also when recovery and
pruning come first. A job is then completed on an attestation because of
`PolicyHolds`: what the holder of the policy mutex has checked (an attestation
of the version, a clearance) still holds although the other stores change.

`EvidenceCustodyProofs`: `ContentsFollowIndex`, `GateNeedsReceipts`,
`ReceiptsSpeakOfObjects`, `ProtectionHonoured`, `GuardsHold`. The invariant adds
to the properties what a step relies on without looking again.
`DisposalIsSound`: a disposition that loaded the item has the mutex or is
evicted, the item could be disposed when it was loaded, and until somebody
intrudes the index is what it loaded or saved. `LateIsSound`: a suspended change
differs from what it loaded as its operation allows, and nobody loaded an item
that is not there. `LateContentIsThere`: a late upload that has written its
content will find it, which an index needs that it saves later. `HeldIsActive`, of the
index and of whatever somebody has loaded; `GuardedIsActive`, while the guard is
there; `ReceiptIsDue`, whoever is about to write a receipt has its object. Each
is a lemma (`DisposalKept`, `LateKept`, `LateContentKept`, `GuardKept`,
`ReceiptsKept`). `Steps` classifies the steps, `LateSaveFinds` and
`DisposalFinds` say what an evicted one still finds if he does not intrude, and
`ItemKept` says what any step may do to the item.

`TimeAttestationProofs`: all four properties of the run. `AcceptedInTime` is
the strengthening of `AcceptedStaysValid`: the bounds that depend on the clock
only get weaker, and the time of archiving does not change (`OnlyMore`).
`LayersNest` is proved from the types alone, because a listing that is shorter
than the archive is an error (`EvaluableListed`), and needs that more records
have no fewer providers (`QuorumGrows`). A disposition under way is carried by
`BackersKept`: the providers behind it stay when records, events, keys and the
clock change.

`AssuranceExportsProofs`: `BundlesAreApproved`, `DeliveriesWereReceived`.
`GoodApproval` says that approvers are distinct and not the requester, which
makes the length of the list a number of people; it survives expiry and
pruning, and `granted` takes it over when the bundle is queued. `GoodBundle`
survives maintenance, resealing and pruning.

`TenantRecoveryProofs`: `HistoryMatches`, `MemorySaved`, `SafetyCopyKept`,
`BackupLoadable`. The invariant says what an operation knows in each phase.
`LedgerOK`: state and ledger agree in memory, snapshot, every envelope and what
a restore holds, unless a request changed a replaced service. `OrderOK`: a
recovery point that is being made is the newest and loads, so pruning takes
another one. `CopyOK`: the safety copy has the entities of the state and a
prefix of its events. `LoadsOK` counts: every listed point without its envelope
has cost a failure, and pruning keeps `Retention` points, so fewer failures
leave one that loads.

`SecurityProofs`, the archive: `ArchiveRecovers`, `HeadAndJournal`,
`TypeCorrect`, and `ArchiveKeepsPromise`, the refinement of `ArchiveLog`.
`ArchiveInv` describes the directory after any file operation. `ChainOK`: the
envelopes are one chain from the anchor on and lie along it in the order of the
names of segments. `HeadOK`: the head names an envelope at most one from the
end. `PlanOK`: the journal names a beginning of the chain that is old enough,
and until it is committed nothing behind the anchor is gone. `StepOK`: what each
step of an operation found. Names follow the day, so `ChainOK` needs that no
clock goes back (`ClockOK`), hence `Skew = 0`. For the refinement the log
is the events of the retained envelopes by number (`Log`): an append adds one at
its end, the anchor that commits a pruning takes its beginning away, and every
other file operation is a stutter.

`SecurityProofs`, the outbox: `OutboxTypeCorrect` and `AlertLifecycle`. A stop
can leave an alert in two directories. `Keeps` says that between two states no
alert becomes known or unknown and no receipt goes away; every helper, and every
operation as a sequence of them, is shown to keep that, and only `Enqueue` makes
an unknown alert wait. Within the retention pruning removes nothing.

Only model-checked: the liveness properties of the lease, the outbox and the
scan jobs (`CallsEndUnlessLeasesChurn`, `EveryAlertSettles`, `JobsSettle`),
since the prover has no ENABLED; and the violations of Findings. Induction over
data or a recursive operator would stay with TLC too, but the modules have none:
where a proof needs a least or greatest member of a set it uses that the order
is well-founded, or a count.

## Findings

Here the program does something else than its documentation says.
`overwrite` is a run, and `PROJECT.json` quotes its lines; each of the others
is the counterexample of the configuration in brackets.

- `overwrite`: a process that saw a directory which then vanished takes it for
  an orphan and removes the new one made in between. Two processes in set-up
  read the same counter and get one token, so the fence cannot tell them apart,
  and an acknowledged operation is overwritten. Nobody has to stall.
- [`CoordinatedWrites_lost`] An operation whose lease lapsed is answered with
  `WRITE_COORDINATION_LOST` although its version is on disk and stays the
  newest (`fileLeaseCoordinator.js:137`, `docs/multiprocess-coordination.md:40`).
- [`PrivilegedAccess_revoked`] An evicted holder of the file mutex brings a
  revoked elevation back (`fileMutex.js:96`).
- [`PrivilegedAccess_review`] A break glass can be reviewed while it is still
  active, and what is done with it after that is never reviewed
  (`privilegedAccessRegistry.js:281`, `docs/privileged-access.md:56`).
- [`SecurityArchive_skewed`] A process whose clock is still before midnight
  appends behind the head's segment and stops; recovery takes the old head for
  the newest and the chain breaks for good (`securityEventArchive.js:246`,
  `docs/workforce-audit.md:26`). The same clocks break it without a
  stop, once the older day is pruned.
- [`AlertOutbox_dead`] Beyond `deadLetterRetention` dead letters are removed, in
  the order of their hashes (`securityAlertOutbox.js:175`,
  `docs/security-alert-delivery.md:89`).
- [`EvidenceCustody_gate`] The preservation gate reads the versions of an item
  before the custody mutex is taken. A version that is added after it is
  disposed without a receipt (`evidencePreservationRegistry.js:99-101`,
  `docs/evidence-preservation.md:96`: "unless every immutable version has a
  verified receipt").
- [`EvidenceCustody_evicted`] A disposition that is suspended for longer than
  `leaseMs` between its checks and the saving of its tombstone goes on when it
  resumes: a hold that was placed meanwhile is overwritten, and the contents are
  purged (`evidenceRegistry.js:304-333`; `withLock` notices only afterwards,
  `fileMutex.js:96`; `docs/evidence-chain-of-custody.md:84`: "An active hold prevents
  retention shortening and disposition").
- [`EvidenceCustody_disconnect`] The guard in front of a finding is given back
  when its connection closes. A client that disconnects while the forwarded request
  still waits, for instance for the keys of its second authentication, ends it
  before the finding is created, and a disposition passes in between
  (`evidenceServer.js:149`, `docs/evidence-chain-of-custody.md:47`: "cannot pass
  between reference validation and durable finding creation").
- [`EvidenceCustody_referenced`] The handler of a disposition looks for findings
  before the mutex is taken. A finding that another process creates after that,
  its guard already given back, refers to an item that is then disposed
  (`evidenceHandler.js:153-154`, `docs/evidence-chain-of-custody.md:92`: "no audit
  finding references the evidence").
- [`ScanRelease_current`] The verdict that a release rests on is looked up for
  the current version, and the release itself looks the version up again: a
  version added in between is released on the verdict of the other
  (`docs/external-scanner-attestations.md:119`).
- [`AssuranceExports_once`] The bundle is queued before the approval is
  consumed. When consuming fails and the sections of the bundle change, the
  same approval is materialised again under another identity
  (`evidenceAssuranceExportApprovalStore.js:145-147`,
  `docs/assurance-export-approvals.md:9`: "exactly once").
- [`TenantRecovery_overtaken`] The application looks up the service of a tenant
  before it awaits the body of a request (`server.js:147`). A request that a
  restore overtakes in between works on the state from before it, with the ledger
  from after it, and saves both (`workforceAuditRegistry.js:369`; compare
  `test/registryRecovery.test.js:71`). Coordinated deployments build the
  registry inside the lease and are not affected.

Smaller observations, without a property of their own:

- When saving an index throws after its rename, ingest and addVersion remove
  the content although the index refers to it (`doubted` in
  `EvidenceCustody`).
- A purge that stopped is never resumed; the item stays `purging`.
- `docs/evidence-assurance-bundles.md:96` speaks of resealing the deterministic
  bundle ID, but the sections that are hashed into it contain the time of the
  governance evaluation and the head of the custody chain, so it changes.
- A request for an export that was rejected or expired cannot be made again
  with the same purpose until its record is pruned.
- With a retention of one recovery point, one backup that fails after pruning
  leaves none; a manifest without a loadable envelope counts as a point.
- A restore takes the counters of identifiers back, so that a later finding
  gets the name of one that existed before.
- The scheduler works on the list of tenants from when it was started.

## Not modelled

`PROJECT.json` lists every component with its status.

- The file mutex has no module of its own. Its users model what matters to
  them: that it may be lost (`PrivilegedAccess`, `EvidenceCustody`) or that it
  excludes (`SecurityArchive`, `AlertOutbox`, `ScanJobs`, `ScanRelease`,
  `TimeAttestation`, `AssuranceExports`). In the second group load, change and
  save under the mutex are one step, or steps that nobody gets between, and what an
  evicted holder would write is missing; `TimeAttestation` takes this of the store of
  attestations and of the governance journal
  (`evidenceTimeAttestationGovernanceStore.js:105-133`).
  The quarantine of a fresh lock (`fileMutex.js:156`) is a hazard without
  property.
- Telemetry, key lifecycle, entitlements and SCIM, authentication, the cache of
  OIDC keys (`oidcAuthenticator.js:168`) and rate limiters are left for later;
  the federated server, scripts, page and type declarations are wiring.
- Of what is modelled, left out are: the clocks of different hosts in the lease
  (taken to agree), partial writes (every file is written under another name,
  synced and renamed), the contents of snapshots and events beyond what the
  properties tell apart, encryption, signatures, digests and tampering, HTTP
  beyond which handler changes what, and wording.
- Restores are in `TenantRecovery`, in one process without coordination; the
  operations of `CoordinatedWrites` are mutations and backups that only add.

## Plan

1. `FileLease`, then `CoordinatedWrites` on top of it: the tenant's own data
   is protected by nothing else. **Done**, with proofs.
2. `PrivilegedAccess`. **Done**, with proofs.
3. `SecurityArchive` and `AlertOutbox`. **Done**, with proofs.
4. `ScanJobs` and `ScanRelease`, `EvidenceCustody`, `TimeAttestation`,
   `AssuranceExports`, `TenantRecovery`. **Done**, with proofs.
5. To be proved, beyond the properties of the runs: that `CoordinatedWrites`
   implements an abstract history of the tenant while nothing disturbs the
   lease, in the way in which `SecurityArchive` implements `ArchiveLog`.
6. To be modelled: `FileMutex`, and with it what the evicted holders of the
   other stores may do; then `IdentityEntitlements`, `JwksCache`,
   `RateLimiter`.

Bounds stay at two or three processes, one tenant, two or three jobs: the
stores never relate more than that.
