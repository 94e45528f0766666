# A TLA+ model of ahl-witness

`ahl-witness` watches append-only logs. A log (or anyone) submits a signed
checkpoint together with all the entries it commits to; the witness cosigns it
if it extends what it has cosigned before, and otherwise refuses, keeping signed
evidence that a stranger can recheck. What it has vouched for, and what it has
refused, it serves to readers. This directory models what a submission goes through from
the request to the answer, the server around it, the governance it is decided under
and the reads of what came of it, checks them with TLC and proves their main
properties with TLAPS.

Paths below are relative to the repository (`src/witness.rs`, `README.md`).

## The system

| Part | State | Operations | Interacts with |
| --- | --- | --- | --- |
| Store (`src/store.rs`) | four SQLite tables behind one mutex: `cosigned_checkpoints` (the series), `rotation_cosignatures` (anchors), `refusals`, `equivocations` (floors) | "first row" queries, one insert per table, `with_conn`, `with_transaction` | called by the state machine and the read handlers |
| Witness state machine (`src/witness.rs`) | none of its own | `witness_checkpoint` = authentication, then `transition` or `rotation_transition` inside one transaction; `published_checkpoint`; `verify_refusal_claim` | governance, consistency, store |
| Consistency (`src/consistency.rs`) | none | `check` (four outcomes), `verify_extension_failure` | `atl_core` proofs |
| Governance (`src/governance.rs`) | none | walks the entries of a submission: manifests and key statements give log keys, witness keys, cadence and grace, and the rotations among them | called before the store is touched |
| HTTP (`src/http.rs`) | shared `AppState` | one POST handler that looks up the anchor, parses the request, reads the clock, then runs the state machine on a blocking thread and maps the outcome or the error to a status; five read handlers, two of which read under two lock acquisitions | tokio's blocking pool |
| Durations (`src/duration.rs`), freshness (`src/freshness.rs`) | none | parse a cadence or a grace period; judge a retained row against them | governance, the freshness handler |
| Checkpoint encoding (`src/checkpoint.rs`, `metadata.rs`) | none | render and parse a time, assemble the signed blob, verify a signature over it | authentication |
| Configuration (`src/config.rs`) | none after start | key objects, anchors and the signer, checked once | the binary, governance |
| Errors (`src/error.rs`) | none | one variant per check | mapped to a status by `http.rs` |
| Binary (`src/bin/ahl-witness.rs`) | none | resolves the configuration, opens the store, serves until a signal, drains | |

What is hard, and where it bites, is the list `hazards` of `PROJECT.json`. In
short: two tables that have to agree on one root per size although each path
reads them in its own order; a series whose every proof only relates a candidate
to the newest member; refusals that cite a pair and must verify by themselves;
anchors that arrive in any order; resubmission; two keys valid at once; 64-bit
values the store cannot hold; two-step reads; overlapping requests, failing
statements, panics, clients that stall or leave, shutdowns and crashes around a
transaction;
members of a request that no signature covers; texts that are signed as numbers and
sorted as texts.

What makes each part correct:

- store: a row filed is found by every later query that should find it; inserts
  that fail leave nothing behind;
- state machine: one root per size over both tables, one append-only series,
  checkable evidence, permanent floors, idempotent resubmission;
- consistency: an accepted extension contains the whole retained history;
- governance: only what verifies changes the state, and what does not verify
  changes nothing;
- HTTP and freshness: an ended log is never served as current; a reader sees a
  state that existed;
- the server: overlapping requests are decided as if one after the other; what was
  answered survives a crash; every request handed to a task gets its outcome; only a
  client can keep a shutdown from ending;
- admission: what reaches the store was signed, by the key it names, for the log it
  was posted to; the rest is answered as its sender's mistake;
- durations and times: a text means what it is parsed to, and nothing is lost,
  wrapped or accepted in two forms.

## Modules

| Module | Models | Notes |
| --- | --- | --- |
| `WitnessStore` | `src/store.rs` | one variable per table; a query is a predicate on rows, so ties SQLite leaves open stay open; an insert is an action with its failure cases as separate predicates |
| `Consistency` | `src/consistency.rs`, `verify_refusal_claim` | pure operators |
| `Witness` | `src/witness.rs` | one action per outcome of `witness_checkpoint`; the properties; the inductive invariant `Inv` |
| `SeriesPromise` | nothing in the code: the abstract specification | a head per log that only grows until the log ends |
| `WitnessRefinement` | the mapping from `Witness` to `SeriesPromise` | head = root of the retained row, ended = has a floor |
| `Governance` | `src/governance.rs` | pure operators: the walk as a recursive function, one `Step` per entry, and what is asked of the versions it collects |
| `GovernanceWalk` | the loop of `walk` as a machine | one action, `Read`: the next entry is any entry; the properties tell who was in force from the statements alone |
| `GovernedWitness` | `witness_checkpoint` with the governance of its submission | the three parameters of `Witness` are what `Governance` computes |
| `ReadSide` | `published_checkpoint`, `latest_checkpoint_handler`, `freshness_handler`, `src/freshness.rs` | readers beside the decisions of `Witness`, one action per acquisition of the mutex |
| `WitnessService` | `witness_handler` and `blocking`, `with_transaction`, `Store::open`, the binary | EXTENDS `Witness`, whose variables are the committed tables; a request from its connection to its answer, one action per statement of a transaction; failures, panics, stalls, departures, shutdown, crash and restart; implements `Witness` |
| `Admission` | the way to the store: `src/config.rs`, the checks of `witness_handler` and `witness_checkpoint`, `verify_checkpoint_signature`, `src/error.rs` | the checks of a stage are a sequence of (condition, error); the first that fails is what is reported |
| `Duration` | `src/duration.rs`, beside a writer of duration texts | pure operators that return at most one number |
| `CheckpointTime` | the time of a checkpoint as text (`src/checkpoint.rs`) | over a smaller calendar |
| `Texts` | texts as sequences of characters, as Rust's and SQLite's libraries take them | recursion only as recursive functions |
| `MCWitness`, `MCGovernance`, `MCGoverned`, `MCReadSide`, `MCService`, `MCFormats` | small instances | offers, statements, texts, requests and bounds |
| `WitnessProofs`, `GovernanceProofs`, `GovernedProofs`, `ReadProofs`, `ServiceProofs`, `AdmissionProofs` | theorems | each about the module it is named for; `WitnessProofs` about `WitnessRefinement` too, `GovernanceProofs` about `GovernanceWalk` |
| `TextProofs` | theorems about `Duration` and `CheckpointTime` | one module, since both are about texts and numbers |
| `DataInduction` | nothing in the code: induction over numbers, and functions defined by recursion over them | what the proofs about recursive functions rest on |

`GovernedWitness`, `ReadSide` and `WitnessService` compose `Witness` with what it
interacts with; `MCFormats` puts the three parts of a submission's way to the store
side by side, each in behaviours of its own, since they share nothing but texts.

How the code's names appear: `transition` is `RefuseAtFloor`,
`RefuseEquivocation`, `CosignSeries`, `RefuseSizeRegression`, `RefuseExtension`
for an offer with `SeriesMember`; `rotation_transition` is `RefuseAtFloor`,
`RefuseEquivocation`, `CosignRotation` for one without; every error, before the
store or rolling back the transaction, is `Reject`. The whole transaction is one
step here; that this is sound, because it runs under the store's mutex and inside one
SQLite transaction, is what `WitnessService` shows. The guards follow the order of the code's early returns: floor,
then conflicts (rotation table first on the series path, series first on the
other), then the retained checkpoint.

In `Governance`, the two branches of `try_apply_manifest` (no state yet, some state)
are the two cases of `Candidate`, `Authority` and `Linked`;
`try_apply_manifest` is `Installs` with `VersionOf`, `try_apply_key` is `Changes`
with `ApplyKey`, and every `?` in them is `Aborts`. The order of their checks
matters and is kept: an envelope error before the signature, the signature before
the revision, the revision before the predecessor, the content last. In `ReadSide`
a request is `Ask`, `ReadFloor`, `ReadRetained`; `Witnessed` is any decision of
`Witness`, which may fall between them.

In `WitnessService` a request goes from `reading` (`Open`: its connection is accepted,
the `Json` extractor awaits the body) to `queued` (`Receive`: the body is there, the
clock read, `spawn_blocking` called; or `TurnAway`: rejected before that), to `waiting`
(authenticated, wants the mutex), through the phases of a transaction, to `answered`
(the task has ended, its outcome waits for the client), and ends when the client takes
the answer (`Deliver`) or, if the client has left, with the task (`Discard`).
`AwaitsClient` names the two phases in which only the client can go on. `Acquire` is
the lock and BEGIN, the `Decide...` actions are the reads of `transition` and `rotation_transition`, the
`Insert...` actions one statement each, `Commit` is COMMIT and the release of the
lock. The rows of an open transaction are its task's `writes`; they reach the tables
of `Witness` at the commit. What can go wrong: `StoreError` (any statement, BEGIN and
COMMIT included: rollback), `Panic` (rollback by unwinding, the mutex poisoned,
`JoinError`), `Leave` (the connection closes and axum drops the handler's future; a
blocking task runs on), `Shutdown`
(no new connection, those open are served, idle ones closed), `DropQueued` (the runtime drops blocking
tasks that have not started), `Crash` and `Restart` (SQLite keeps whole transactions,
`CREATE TABLE IF NOT EXISTS` leaves them alone).

In `Admission`, `Start` is `main` up to serving, `Intake` is `witness_handler` up to
the blocking call with `witness_checkpoint` up to the key state, `Verification` is
`resolve_log_key` and `verify_checkpoint_signature`, `Material` and `NamedChecks` are
`rotation_anchors_for`, and `Authentication` puts them in the order of the code: the
named rotation before the ordinary failure. `RejectIntake`, `RejectAuthentication`
and `Admit` are the three ends of a request.

Abstractions:

- A root is the sequence of leaves it commits to, so SHA-256 has no collisions.
- A signature is the key it verifies under. Signing is deterministic (Ed25519),
  so a key gives one signature over one checkpoint; `Checkpoint.key` stands for
  `key_id` and `signature`.
- A consistency proof is generated from the offered entries. When the old size
  is a power of two the proof omits the old tree and verification starts from
  the retained root, so such a proof relates the *retained* root to the new one
  and says nothing about the offered entries below the old size; otherwise both
  roots are recomputed from the proof. `VerifyConsistency` states exactly that.
- To `Witness`, governance is three constant operators of (log, entries): which
  keys are active, which rotations a checkpoint anchors, and the freshness terms.
  What it proves holds for all of them; `GovernedWitness` says what they are.
- Entries are content-addressed, so in `Governance` an entry is its own id and
  `Says` tells what it states. A statement is a record. Its signature is the
  producer key it verifies under, or "forged", or "malformed" where envelope
  verification returns an error instead of false. `current` stands for the
  protocol revision and `readable` for everything that parses. Log keys stay a
  sequence, because resolution takes the first object with a key_id; producer
  keys are a map and witness keys a set, as they are used.
- In `Admission` a key stands for its fingerprint, so a key_id is the key it claims to
  be the fingerprint of, and a signature is the key that made it and the blob it was
  made over. A text that does not parse is `Garbled`. The manifests a walk collects
  are given (`Declared`; `Governance` says how they are collected), each with key
  objects that may not resolve. A body is told apart only by what the checks tell
  apart. A witness stands for its key: that `declares_witness` compares the
  `witness_id` as well is in `Governance`. A request that axum's extractors reject and
  the 500 of a clock before 1970 are left out there; in `WitnessService` they are
  `TurnAway`.
- In `Duration` and `CheckpointTime` texts are spelt out, because what the parsers do
  with their characters is the question. Their sizes are scaled (see the bounds).
- In `WitnessService`, `waiting` tasks take the mutex in any order, and a failed
  statement is any statement. BEGIN cannot fail by itself in the model, but a failure
  right after it is the same rollback.
- `effective` (`GovernanceWalk`) and the members `views`, `known` and `before` of
  a reader (`ReadSide`) are history: no guard reads them.
- `issued` is a history variable too: every cosignature returned to a submitter. So
  is `received` (`WitnessService`): every answer that reached one.
- `transition` also handles `ConsistencyOutcome::Equivocation` from `check`,
  which its comment calls unreachable; the equal-size case is decided before the
  retained row is read, so `Compares` never yields it and no action stands for it.

Definitions named `Fault...` are seeded faults: what the definition after them
would be with one plausible bug. No specification uses them. For each property
of a passing run, `PROJECT.json` names the fault that makes TLC find that
property violated.

## What the runs check

| Run | Instance | Question |
| --- | --- | --- |
| `rotations` | `Witness` under the governance of six statements: a manifest that replaces both log keys by k2, one that replaces witness keys only, a forgery; two keys valid at once, 2 checkpoint times where only witness keys change, 2 clock readings at size 2, sizes to 3 | do the two tables agree on one root per size, is the earliest anchor served whatever the order of arrival, does an anchor prove its rotation from its own log, does the series never drop a log key without a handover, is what was issued stored, is resubmission accepted? |
| `history` | histories that fork at 3 and at 4, sizes to 4, a second log in the same store | is the series one append-only history, does all evidence verify, are floors permanent and with their evidence, is the promise kept, is no honest extension and no retry refused? |
| `issued_roots` (violation) | a key rotation with two clock readings | are two roots at one size ever *issued*? They are: see Findings |
| `anchor_resubmission` (violation) | the same | is an anchor on record accepted again? Not at a later instant |
| `governance_walk` | every log of up to 5 entries over 13 statements: rotations, a postponed key, producers replaced, added and retired, another epoch, earlier revisions, a forgery, data | is whoever was in force when, told from the effective statements, what the walk went by? Can a log key be dropped with no rotation to bridge it? |
| `only_producers_abort` (violation) | 4 statements, one with an unreadable signature | does only a producer's statement abort the walk? No |
| `terms_govern` (violation) | a manifest that changes the cadence, sizes to 2, 2 checkpoint times | are a row's terms those of the manifest governing its checkpoint? Not at a size already held |
| `reads` | one log that may fork at 2, an unstorable cadence, one reader, sizes to 3, 2 checkpoint times | is each answer a state the log was in, no older than what was issued before the request, and never behind the previous answer? Is staleness exact in 64 bits? |
| `service` | two threads, three requests among seven submissions that meet every decision, one mishap of any kind, a shutdown at any time, restarts | do the committed tables move by whole decisions, does what was answered stay on record, does every request handed to a task get its outcome, does a shutdown end unless a client stalls for good? |
| `formats` | duration texts of up to four components in any order with one slip; every time of a small calendar with one typo; 1,600 requests to a server started from 15 configurations, over four manifests | is a duration or a time exactly what its text means? Is what is admitted signed, and does naming a rotation change nothing but the report? |
| `duration_signs` (violation) | the same texts | is only what the grammar allows parsed? A plus sign before the seconds is, too |
| `ordinary_failure` (violation) | the same requests | is a failed second chance never what is reported? It is when a rotation is named |

Bounds. Decisions: the entries that may come at each place (`Second`, `Third`,
`Fourth`), `MaxTime`, `MaxAt`, `MaxCosigned` rows of the series and `MaxRefusals` rows
of refusals, all in `MCWitness` and the configurations. Size 4 reaches an old size
that is not a power of two (3), which is the case of a proof that recomputes both
roots; two refusals are enough for a floor and a refusal that repeats its evidence;
three series rows let a proof relate a candidate to a row that itself was related to
another one. A log of five entries is long enough for a producer to be handed over,
act from its activation index on and meet a statement of the producer before it. In
`reads`, `MaxI64` is 2 and `MaxU64` therefore 5: large enough for a time, a cadence
and a grace period to sum past `MaxI64`, small enough for every instant to be tried.
One reader is enough because readers share nothing. The sums over stored terms in
this run stay below `MaxU64`; that `StaleExact` holds up to that boundary rests on the
theorem `StalenessExact`.

The service: `Handlers` (two threads, the least that can overlap), `MaxRequests` (three: the
first is served alone, and the two that overlap find what it left) and
`MaxMishaps` (one). `MaxRequests` is part of what the liveness properties claim (below).

Formats: `MaxU64` is 1500, a fraction has two digits, and a minute, an hour and a day
are 2, 4 and 8 seconds, so that each component, each sum and the scaling to
nanoseconds can be the one that overflows while all fit in TLC's integers; the
calendar has four years of ten months of one or two days and half days, with instants
from year 1 to the middle of year 2, so that years and halves are cut off on both
sides. One slip or typo (`MaxSlips`, `MaxTypos`) suffices to leave every rule of either layout.

Fairness. Decisions, walks and reads assume none: they are driven by requests that
may never come, and their properties are safety properties. `WitnessService` assumes
weak fairness of each blocking task's own steps, `Advance(h)`, and of `Exit`: the runtime
runs every task it was handed, and the process ends once nothing is left. It assumes
nothing of clients (`ClientStep`): the body is awaited (`http.rs:219`) and the answer
written with no timeout, so either may take for ever. `RequestsEnd` is therefore about
requests from `spawn_blocking` on, and `DrainCompletes` says that a shutdown ends unless
some client stalls for good: graceful shutdown waits for every open connection
(`bin/ahl-witness.rs:52`), and without that condition the same run refutes it, with a
client that never reads its answer. Nothing is assumed of requests, mishaps, signals or
restarts either, and nothing of the mutex:
std's mutex is not fair, so a task may be overtaken at `Acquire` as long as others
keep coming. `RequestsEnd` and `DrainCompletes` therefore are about finitely many
requests, which is what `MaxRequests` bounds; with endless requests a task could
starve, and after a shutdown there are none.

Deadlock is checked wherever submissions are modelled: one that does not authenticate
is always possible. It is not checked for a walk, which ends with the entries it is
given or at an error, for the service, which may have stopped with its requests used
up, and for the formats, where a text or a server is done with.

## What is proved

Every theorem holds for all values of the constants, without the bounds of the
runs. The assumptions on constants are named where they are declared:

| Module | Theorems | Assumed of the constants |
| --- | --- | --- |
| `WitnessProofs` | `WitnessKeepsPromise`, `InvCorrect`, `TypeCorrect`, `NoTwoRootsHeld`, `OneHistory`, `RefusalsProven`, `RefusalsCited`, `RetriesNeverRefused`, `NoFalseAccusation`, `FloorsEvidenced`, `ServesEarliest`, `IssuedIsStored`, `ResubmissionAccepted`, `FloorsArePermanent` | `MaxI64` is a natural number; offers and the governance operators have their types; a prefix without entries has no active log key (a genesis manifest is needed) |
| `GovernanceProofs` | `WalkInvariant`, `WalkIsComputed`, `Authorized`, `RevisionNeverSkipped`, `Chained`, `DroppedKeysBridge` | statements and the configured anchor have their types; no producer is named "forged" or "malformed"; no entry is `NoEntry` |
| `GovernedProofs` | `GovernanceFits`, `VersionsOfPrefix`, `GovernanceIsKept`, `KeysAreHandedOver`, `AnchorsProveRotation` | those of `Witness` and of `Governance`; the governance parameters are those computed from the entries offered, and what entries say and the configured anchors have their types (`StatementsAssumption`) |
| `ReadProofs` | `ReadsCorrect`, `ReadsExisted`, `ReadsCoverIssued`, `ReadsMoveForward`, `StalenessExact` | those of `Witness`; there is a log |
| `ServiceProofs` | `ServiceCorrect`, `ServiceImplements`, `ServerKeepsPromise`, `AnswersStay` | those of `Witness`; `Nobody` is no thread, `NoOffer` is no submission |
| `AdmissionProofs` | `AdmissionIsSound`, `NamesNarrowNothing` | requests, manifests and configurations have their types; what does not parse is no key |
| `TextProofs` | `WellFormedIsParsed`, `AcceptedIsMeant`, `DurationsExact` | the units are positive, numerals and fractions are digits, a fraction has no more digits than there is precision (`DurationAssumption`); the last two: every numeral and every fraction is one a writer may mean (`FullGrammar`) |
| `TextProofs` | `TimeTextsExact`, `RenderingsAreRead` | the fields of the calendar fit their places: years of four digits, at most 99 months, at most 10 parts of a day (`CalendarAssumption`) |

**Decisions.** The properties are not inductive one by one, so the proofs carry
`Inv`, their conjunction with two facts about the tables: `RootsMeasure` (a series root has as
many leaves as its size says) and `QueriesAnswer` (each "first row" query finds a
row if there is a candidate). One root per size follows because a candidate is
filed only if it is `Undisputed`, and the one row each query looks at stands for
all rows at that size by the invariant itself. `OneHistory` goes through
`VerifiedContinues`: a proof that verifies against a retained root of the right
length yields a root of the right length that continues it; the largest retained
row continues all others, so the candidate does too, by transitivity. Floors need
`FloorHasEvidence` in the invariant because a later refusal copies the earliest
pair. For the refinement, `RetainedAgree` shows that rows tied for "retained"
have one root, and a filing either adds a checkpoint at a size already there (a
stutter) or strictly extends the head.

**Governance.** `WalkInv` is inductive. Its core is `ProducersTold`: the key map the
walk carries is exactly what the effective statements say, so that whatever the
walk authorizes is authorized by them. What was said at earlier indexes is not
changed by reading one more entry, because entries are only appended and an index
takes effect only when it is read; what is said at the new end is the one step to
prove. `DroppedKeysBridge` is proved for a checkpoint of every size, not only that
of the prefix: if a version accepts a key and a later one does not, then of the
first version after it that does not accept the key, the predecessor still does,
and the two differ as sets of key objects.

**Anchors.** A checkpoint is filed as an anchor of a rotation only if its root is
that of the offered entries up to its size, and those have as many entries as its
size says; so what the governance of the offer says of it, the governance of its
own root says (`AnchorsProveRotation`). That these parameters are admissible is
`GovernanceFits`.

**Handover.** A walk over more entries has the versions of the shorter one in the same
places, and whatever it adds lies beyond the entries the shorter one covered
(`VersionsOfPrefix`). Series checkpoints of one log have roots of which one continues
the other (`OneHistory`'s invariant), so what governed the earlier governs the later
(`GovernanceIsKept`). A key that the earlier resolved and the later does not was
therefore dropped by a version in between; the first such version differs from its
predecessor in its log keys, so it is a rotation, and its predecessor still resolves the
key at the later size (`KeysAreHandedOver`). It holds where the walk over the later
checkpoint's entries did not abort and no version lists two key objects under one id:
the first of such a pair would hide the second.

**Reads.** The two queries of a request may see two states. What saves them is that
an ended log's rows do not change (`FloorPermanent`, stated per table): a reader
that found no floor and reads rows after one appeared reads the rows as they stood
when it appeared, which is a view that existed (`UnderWay`). `AnswersMoveForward`
needs that retained checkpoints only move to later ones, and that every answer goes
on being so (`Stands`). `StaleExact` is arithmetic on what the columns admit.

**The service.** `ServiceInv` says three things. `Excludes`: a thread is inside a
transaction exactly while it owns the mutex. `Staged`: what an open transaction has
decided and inserted so far is what the *committed* tables call for, with the
rotations still to be filed in `todo`. It is kept because only the owner of the mutex
commits, and no other task is inside a transaction then; a rollback leaves nothing
that it speaks of. `AnswersOnRecord`: an answer held or received is on record.
`StepRefines` then maps every step: a commit is the one action of `Witness` that its
staged rows add up to; an arrival, an insert, a mishap or a crash is a stutter.
So what is proved of `Witness` holds of the server: `ServerKeepsPromise` puts the two
refinements together, from statements of a transaction to one growing history per log.
`AnswersStay` follows from the refinement: `Witness`'s invariant holds of the
committed tables, so a record means rows that a reader finds.

**Admission.** A request is admitted only if it passes the checks of the active
version or of an outgoing one, and each of these lists contains every check that ties
an unsigned member to the blob (`VerifiedIsSigned`); a key object resolves only under
its own id, and versions hold only such objects. `NamesNarrowNothing` compares a
request with itself less the name: no check but those of `NamedChecks` reads the name.
The anchors differ by log (`AnchorsDiffer`: of two for one log the last is kept), so
the anchor of a request is one.

**Durations.** `Split` and `Joined` say that a text is put together where it is taken
apart: at the first occurrence of a character, of which the part before has none.
`TakeWritten` is that one component is taken for what it means whatever follows it,
`TakeTaken` that whatever is taken for one was one; the same holds of the seconds, with
their fraction and the sign that `from_str` takes (`SecondsWritten`, `SecondsTaken`).
From the first of each pair, `ParseWritten`: a text of the grammar, with or without a
sign, is parsed to `Fits({Meant(p)})`. The sums and products may stop at any of five
places for want of room, and `Room` shows that none of them stops unless the whole has
no room. From the second, `ParseTaken`: an accepted text has such parts, and
`UnsignedIs` that less its sign it is what the grammar renders. That two fillings of the
grammar with one text mean the same needs no argument of its own: both are what the
text is parsed to. What the run checks for four numerals, the theorems say of all;
`DurationsExact` needs all (`FullGrammar`), because what is accepted is compared with
what a writer may mean, and `WellFormedIsParsed` does not.

**Times.** An instant is a number in mixed radix (`DayInYear`, `Product`), and its text
the digits of the same fields in the same order. Both orders are therefore that of the
first field that differs: `InstantInOrder` on numbers, `TextInOrder` on texts, each field
taken two digits at a time (`PairDecides`). Hence texts sort as instants do and no two
instants have one text; that a text accepted stands for one instant is the parser's own
re-rendering, and `RenderingsAreRead` is the way back.

**Recursion.** `NumberOf`, `TenTo`, `DaysBefore` and `Walk` are recursive functions. The
library's induction theorems take a predicate, which the provers cannot instantiate;
`DataInduction` states induction over sets instead (`SetInduction`, from the
well-foundedness of the numbers) and that a function given step by step exists
(`RecursiveExists`). With it the proofs unfold each of them once and for all into its
steps. `WalkIsComputed` is such a result: the machine of `GovernanceWalk` and the
operator `Walk` that `GovernedWitness` and the assumptions of `Witness` go by are the
same walk.

Only model-checked: the six violations, which no theorem could state, and `RequestsEnd`
and `DrainCompletes`, since TLAPS proves neither liveness under fairness nor `ENABLED`.
No module declares a `RECURSIVE` operator.

## Findings

- `issued_roots`: an anchor no earlier than the one held is cosigned and returned
  but not recorded (`src/store.rs:474-495`), so a later checkpoint with another
  root at that size is cosigned as well, which `README.md:346-350` excludes.
- `only_producers_abort`: an envelope whose signature cannot be read is an error
  that aborts the walk (`src/governance.rs:374`, also 362 and 413), whoever added
  it, where `src/governance.rs:346-347` says that bytes anyone can append must not
  abort resolution.
- `terms_govern`: at a size already cosigned, a checkpoint with the same root is
  cosigned without a look at the entries offered with it, but stored with their
  cadence and grace (`src/witness.rs:797`), so a row can carry terms of a manifest
  outside its log, where `src/witness.rs:33-34` takes them from the manifest version
  governing the checkpoint.
- `anchor_resubmission`: resubmitting an anchor on record fails with
  `RotationCosignatureConflict` unless the clock reads the same instant
  (`src/store.rs:464`), where `src/store.rs:435` promises idempotence.
- `duration_signs`: the whole seconds of a duration are parsed by `u64::from_str`
  (`src/duration.rs:120`), which takes a plus sign, where the other numbers are checked
  to be digits; `src/duration.rs:41-43` promises `BadDuration` for what is not of the
  grammar.
- `ordinary_failure`: a submission that names a rotation it does not anchor is
  answered with `NotRotationMaterial` whatever it earned under the ordinary rule
  (`src/witness.rs:527`, called at 613 before 614-618), where `src/error.rs:208-210`
  says that error is never what a submission is refused with. `src/http.rs:156-157`
  describes what the code does.

## What is left

- The order of arrival among anchors signed at one instant by two keys: the first is
  filed and the second fails, so what is served depends on the order, against
  `README.md:342-344`. That compares two behaviours, which no property of one states.
- A composition of `Admission` with `Governance`. `Declared` is given in `Admission`;
  `VersionsOfPrefix` shows that the versions of a walk have the shape it is given, the
  manifests below a size, but no module puts the two together.

## Not modelled

- `verify_cosignature` and `verify_refusal_signature`: Ed25519 over bytes, with no
  state. What they would confirm, that evidence verifies from its own contents, is
  `RefusalsCheckable` less the arithmetic.
- The read handlers `history_handler`, `rotation_cosignatures_handler` and
  `refusals_handler` have no action: each is one query under one acquisition, and what
  it lists is a query of `WitnessStore` that the properties go by (`SeriesRowsOf`,
  `IsServed`, `RefusalsOf`). `/health`, `/v1/witness-key` and routing hold no state.
- Byte layouts, JSON, base64, hex, hashing of leaves, the RFC 3339 rendering of
  `cosigned_at` and `refused_at`, logging, arguments and the port.
- The fuzz targets and the generators of their seeds: a harness over the parsers.
