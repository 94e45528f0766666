------------------------------ MODULE Admission ------------------------------
(***************************************************************************)
(* What a request goes through before the store is touched: the start of   *)
(* the server from its configuration (config.rs, the binary), the checks   *)
(* of witness_handler (http.rs) and of witness_checkpoint (witness.rs,     *)
(* checkpoint.rs), and the error it is answered with (error.rs).           *)
(*                                                                         *)
(* A public key stands for its fingerprint, so a key_id is the key it is   *)
(* claimed to be the fingerprint of.  A signature is the key that made it  *)
(* and the blob it was made over.                                          *)
(***************************************************************************)
EXTENDS Naturals, Sequences

CONSTANTS
  Logs, Roots, Times,  \* what well-formed texts stand for
  Keys,                \* public keys, of logs, producers and witnesses
  Manifests,           \* the entry ids an anchor may name as genesis
  Garbled,             \* a text or a key that does not parse
  Declared,            \* by genesis and log: the manifests of the log, in order
  Deployments,         \* the configurations an operator may write
  Requests             \* the submissions that may arrive

Text(S) == S \cup {Garbled}

\* KeyObjectSpec: an id, the key it comes with, the index it is valid from.
KeySpec == [id : Keys, pub : Text(Keys), from : Nat]

\* The blob a log signs holds neither the key_id nor the rendering of the time.
Blob == [log : Text(Logs), size : Nat, root : Text(Roots), time : Text(Times)]
Signature == [by : Keys, over : Blob]
SignedCheckpoint ==
  [log : Text(Logs), size : Nat, root : Text(Roots), time : Text(Times), key : Keys,
   sig : Signature \cup {Garbled}]

BlobOf(cp) == [log |-> cp.log, size |-> cp.size, root |-> cp.root, time |-> cp.time]

\* A body: whether it or its checkpoint carries an undefined member and whether the
\* rest deserializes; the raw framing and the entries sent along, whether these are
\* base64 and whether the walk over them fails; the rotation named.
Request ==
  [path : Logs, extra : BOOLEAN, cpExtra : BOOLEAN, typed : BOOLEAN, cp : SignedCheckpoint,
   raw : SUBSET Text(Blob), have : Nat, base64 : BOOLEAN,
   chain : {"walks", "malformed", "earlier revision"}, named : SUBSET Nat]

\* A manifest as a walk over the entries from `index` on finds it.
WitnessKey == [key : Keys, from : Nat]
Declaration == [index : Nat, keys : Seq(KeySpec), witnesses : SUBSET WitnessKey]

ASSUME RequestsAssumption == Requests \subseteq Request
ASSUME DeclaredAssumption == Declared \in [Manifests -> [Logs -> SUBSET Declaration]]
ASSUME GarbledAssumption == Garbled \notin Keys

-----------------------------------------------------------------------------
(* Errors and the status each is answered with *)

EntryErrors == {"MalformedEnvelope", "NotCanonical", "UnknownCheckpointMember",
                "UnknownRequestMember", "IncompleteEntries"}
GovernanceErrors == {"GovernanceChainUnresolvable", "UnsupportedStatementVersion",
                     "NoGenesisProducerKeys", "ConfigKeyIdMismatch", "UnknownLog"}
CheckpointErrors == {"BadCheckpointTime", "WrongLogId", "UnknownSigningKey", "KeyNotYetActive",
                     "RotationCosignatureConflict", "UnknownRotationCosignature",
                     "NotRotationMaterial", "WitnessNotInOutgoingSet", "SignatureInvalid",
                     "RawBlobMismatch", "CheckpointRootMismatch"}
DurationErrors == {"BadDuration", "ProhibitedDurationComponent", "BadCadenceEpoch"}
InfrastructureErrors == {"BadSigningKeySeed", "IndexOverflow", "Json", "Ahl", "Atl",
                         "Store", "StoreInit"}
Errors == EntryErrors \cup GovernanceErrors \cup CheckpointErrors
            \cup DurationErrors \cup InfrastructureErrors

\* IntoResponse for ApiError.
Status(error) ==
  IF error \in {"UnknownLog", "UnknownRotationCosignature"} THEN 404
  ELSE IF error \in {"Store", "StoreInit", "IndexOverflow"} THEN 500
  ELSE 400

\* A check that fails gives its error; of several the first is reported.
Check(fails, error) == [fails |-> fails, error |-> error]
Failures(checks) == {i \in DOMAIN checks : checks[i].fails}
Passes(checks) == Failures(checks) = {}
Reported(checks) ==
  {checks[i].error : i \in {j \in Failures(checks) : \A k \in Failures(checks) : j <= k}}

-----------------------------------------------------------------------------
(* Configuration *)

\* Fault: the id a key object carries is believed.
FaultTrustsKeyId(spec) == spec.pub # Garbled

\* ResolvedKeyObject::resolve: the id is recomputed from the key.
KeyResolves(spec) == spec.pub # Garbled /\ spec.pub = spec.id

LogAnchorSpec == [log : Logs, genesis : Manifests, producers : Seq(KeySpec)]

\* LogAnchor::resolve.
AnchorResolves(spec) ==
  spec.producers # <<>> /\ \A i \in DOMAIN spec.producers : KeyResolves(spec.producers[i])

\* The seed names the key made from it.
DeploymentSpec == [seed : Text(Keys), logs : Seq(LogAnchorSpec)]

ASSUME DeploymentsAssumption == Deployments \subseteq DeploymentSpec

\* Deployment::resolve.
DeploymentResolves(spec) ==
  spec.seed # Garbled /\ \A i \in DOMAIN spec.logs : AnchorResolves(spec.logs[i])

\* The anchors by log_id: of two for one log the last is kept.
AnchorsOf(spec) ==
  {spec.logs[i] : i \in {j \in DOMAIN spec.logs :
                           \A k \in (j + 1)..Len(spec.logs) : spec.logs[k].log # spec.logs[j].log}}

VARIABLES signer,    \* the witness's own key, none before the server runs
          anchors,   \* the anchors it runs with
          exchange   \* the last request and what came of it, none so far

admissionVars == <<signer, anchors, exchange>>

AdmissionInit == signer = {} /\ anchors = {} /\ exchange = {}

-----------------------------------------------------------------------------
(* witness_handler and witness_checkpoint, up to the key state of the entries *)

\* governance::versions, for the anchor: a manifest with a key object that does not
\* resolve is passed over.
Versions(a, n) ==
  {m \in Declared[a.genesis][a.log] :
     m.index < n /\ \A i \in DOMAIN m.keys : KeyResolves(m.keys[i])}

\* The version active for the whole prefix: the last.
Active(versions) == {m \in versions : \A v \in versions : v.index <= m.index}

\* anchor_for.
Watched(path) == {a \in anchors : a.log = path}

Intake(r) ==
  <<Check(Watched(r.path) = {}, "UnknownLog"),
    Check(r.extra, "UnknownRequestMember"),
    Check(r.cpExtra, "UnknownCheckpointMember"),
    Check(~r.typed, "Json"),
    Check(Garbled \in r.raw, "MalformedEnvelope"),
    Check(~r.base64, "MalformedEnvelope"),
    Check(r.have # r.cp.size, "IncompleteEntries"),
    Check(r.chain = "malformed", "Ahl"),
    Check(r.chain = "earlier revision", "UnsupportedStatementVersion"),
    Check(\A a \in Watched(r.path) : Active(Versions(a, r.have)) = {},
          "GovernanceChainUnresolvable")>>

-----------------------------------------------------------------------------
(* Authentication *)

\* resolve_log_key: the first key object with this id.
KeyObject(m, id) ==
  {m.keys[i] : i \in {j \in DOMAIN m.keys :
                        m.keys[j].id = id /\ \A k \in 1..(j - 1) : m.keys[k].id # id}}

Signed(key, cp) == cp.sig = [by |-> key, over |-> BlobOf(cp)]

\* Fault: the raw framing is not compared with the blob.
FaultIgnoresRaw(m, r) ==
  LET key == KeyObject(m, r.cp.key)
  IN <<Check(key = {}, "UnknownSigningKey"),
       Check(\E o \in key : r.cp.size < o.from, "KeyNotYetActive"),
       Check(r.cp.log # r.path, "WrongLogId"),
       Check(\A o \in key : ~Signed(o.pub, r.cp), "SignatureInvalid")>>

\* resolve_log_key, then verify_checkpoint_signature.
Verification(m, r) ==
  LET key == KeyObject(m, r.cp.key)
  IN <<Check(key = {}, "UnknownSigningKey"),
       Check(\E o \in key : r.cp.size < o.from, "KeyNotYetActive"),
       Check(r.cp.log # r.path, "WrongLogId"),
       Check(Garbled \in {r.cp.log, r.cp.root}, "Ahl"),
       Check(r.cp.time = Garbled, "BadCheckpointTime"),
       Check(\E blob \in r.raw : blob # BlobOf(r.cp), "RawBlobMismatch"),
       Check(r.cp.sig = Garbled, "Ahl"),
       Check(\A o \in key : ~Signed(o.pub, r.cp), "SignatureInvalid")>>

\* The version before another.
Precedes(u, m, versions) ==
  /\ u \in versions /\ u.index < m.index
  /\ \A v \in versions : v.index < m.index => v.index <= u.index

\* rotations_in: pairs of an outgoing version and the one rotating it.
Rotations(versions) ==
  {p \in versions \X versions :
     /\ Precedes(p[1], p[2], versions)
     /\ \/ {p[1].keys[i] : i \in DOMAIN p[1].keys} # {p[2].keys[i] : i \in DOMAIN p[2].keys}
        \/ p[1].witnesses # p[2].witnesses}

DeclaresWitness(m, size) == \E w \in m.witnesses : w.key \in signer /\ w.from <= size

\* rotation_anchors_for, for one rotation.
Material(p, r) ==
  <<Check(r.cp.size <= p[2].index, "NotRotationMaterial"),
    Check(~Passes(Verification(p[1], r)), "NotRotationMaterial"),
    Check(~DeclaresWitness(p[1], r.cp.size), "WitnessNotInOutgoingSet")>>

\* Fault: only the rotation that is named is looked at.
FaultLooksAtNamed(versions, r) ==
  {p[2].index : p \in {q \in Rotations(versions) :
     Passes(Material(q, r)) /\ (r.named = {} \/ q[2].index \in r.named)}}

\* rotation_anchors_for: every rotation of the entries is tried.
Anchored(versions, r) ==
  {p[2].index : p \in {q \in Rotations(versions) : Passes(Material(q, r))}}

SeriesMember(versions, r) ==
  \E m \in Active(versions) : Passes(Verification(m, r))

\* A rotation that is named and not anchored is reported with the reason, an
\* entry index that is no rotation like one the checkpoint is no material for.
NamedChecks(versions, r) ==
  LET missing == r.named \ Anchored(versions, r)
      undeclared == {p[2].index : p \in {q \in Rotations(versions) :
                       Reported(Material(q, r)) = {"WitnessNotInOutgoingSet"}}}
  IN <<Check(missing \ undeclared # {}, "NotRotationMaterial"),
       Check(missing # {}, "WitnessNotInOutgoingSet")>>

Authentication(versions, r) ==
  IF SeriesMember(versions, r) \/ Anchored(versions, r) # {} THEN NamedChecks(versions, r)
  ELSE NamedChecks(versions, r)
         \o Verification(CHOOSE m \in Active(versions) : TRUE, r)

-----------------------------------------------------------------------------
(* The machine *)

\* main: load the configuration, resolve it, serve.
Start(d) ==
  /\ signer = {}
  /\ DeploymentResolves(d)
  /\ signer' = {d.seed}
  /\ anchors' = AnchorsOf(d)
  /\ UNCHANGED exchange

Rejected(r, error) ==
  [request |-> r, admitted |-> FALSE, error |-> error, status |-> Status(error)]
Admitted(r, versions) ==
  [request |-> r, admitted |-> TRUE, series |-> SeriesMember(versions, r),
   anchors |-> Anchored(versions, r)]

\* parse_witness_request, the base64 fields, the entries and their governance.
RejectIntake(r) ==
  /\ signer # {}
  /\ \E error \in Reported(Intake(r)) : exchange' = {Rejected(r, error)}
  /\ UNCHANGED <<signer, anchors>>

Authenticating(r, versions) ==
  /\ signer # {}
  /\ Passes(Intake(r))
  /\ \E a \in Watched(r.path) : versions = Versions(a, r.have)

RejectAuthentication(r) ==
  /\ \E a \in anchors :
       /\ Authenticating(r, Versions(a, r.have))
       /\ \E error \in Reported(Authentication(Versions(a, r.have), r)) :
            exchange' = {Rejected(r, error)}
  /\ UNCHANGED <<signer, anchors>>

\* On to the store, with what the checkpoint was classified as.
Admit(r) ==
  /\ \E a \in anchors :
       /\ Authenticating(r, Versions(a, r.have))
       /\ Passes(Authentication(Versions(a, r.have), r))
       /\ exchange' = {Admitted(r, Versions(a, r.have))}
  /\ UNCHANGED <<signer, anchors>>

AdmissionNext ==
  \/ \E d \in Deployments : Start(d)
  \/ \E r \in Requests : RejectIntake(r) \/ RejectAuthentication(r) \/ Admit(r)

AdmissionSpec == AdmissionInit /\ [][AdmissionNext]_admissionVars

-----------------------------------------------------------------------------
(* Properties *)

\* What reaches the store was signed, as it stands, by the key it names, for the
\* log it was posted to and one the witness watches; and a framing sent along is
\* the one that was signed.  The path, the key_id, the rotation and the framing
\* are under no signature, and the key object is only as good as its id.
AdmittedIsSigned ==
  \A e \in exchange : e.admitted =>
    LET cp == e.request.cp
    IN /\ cp.sig = [by |-> cp.key, over |-> BlobOf(cp)]
       /\ cp.log = e.request.path
       /\ Watched(e.request.path) # {}
       /\ e.request.raw \subseteq {BlobOf(cp)}

Unnamed(r) == [r EXCEPT !.named = {}]

\* Naming a rotation narrows nothing: a request that gets as far as its
\* authentication is admitted when the same request without the name would be and
\* the rotation is among those that one anchors, and is then classified like it.
NamingNarrowsNothing ==
  \A e \in exchange, a \in anchors :
    LET r == e.request
        versions == Versions(a, r.have)
    IN a.log = r.path /\ Passes(Intake(r)) =>
         /\ e.admitted <=> /\ Passes(Authentication(versions, Unnamed(r)))
                           /\ r.named \subseteq Anchored(versions, Unnamed(r))
         /\ e.admitted => /\ e.series = SeriesMember(versions, Unnamed(r))
                          /\ e.anchors = Anchored(versions, Unnamed(r))

\* A request that is not admitted is answered as its sender's mistake: nothing on
\* the way to the store is reported as a failure of the server, and a defect of a
\* manifest's duration or cadence makes it no version and is reported by none.
RejectionsAreSenders ==
  \A e \in exchange : ~e.admitted =>
    /\ e.status \in {400, 404}
    /\ e.error \in EntryErrors \cup GovernanceErrors \cup CheckpointErrors \cup {"Ahl", "Json"}

\* What is let through to the store, and what is said of the rest.
AdmissionSound == AdmittedIsSigned /\ RejectionsAreSenders

\* NotRotationMaterial: "Never the error a submission is refused with: the
\* exception is a second chance, so a checkpoint that fails it is reported with
\* the failure it earned under the ordinary rule".
OrdinaryFailureReported ==
  \A e \in exchange : ~e.admitted => e.error # "NotRotationMaterial"

=============================================================================
