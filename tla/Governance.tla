------------------------------ MODULE Governance ------------------------------
(***************************************************************************)
(* Governance of one log (governance.rs): the walk over an entry prefix    *)
(* that follows the chain of manifest and key statements from the genesis  *)
(* manifest an operator configured, and the questions witness.rs asks of   *)
(* the versions it collects.  Pure operators.                              *)
(*                                                                         *)
(* Entries are content-addressed, so an entry is its own entry id, and     *)
(* Says tells what it states.  A signature is the producer key it verifies *)
(* under, "forged" when it verifies under none, "malformed" when envelope  *)
(* verification cannot read it.                                            *)
(***************************************************************************)
EXTENDS Naturals, Sequences

CONSTANTS Entries,     \* log entries, by entry id
          NoEntry,     \* the predecessor of a manifest that names none
          Producers,   \* producer signing keys
          LogKeyIds,   \* log checkpoint-signing keys
          Witnesses,   \* witness identities: a witness_id with a key_id
          Self,        \* the identity of this witness
          LogIds,
          Says,        \* what each entry states
          Anchor       \* the configured trust anchor of the log

Signatures == Producers \cup {"forged", "malformed"}

\* Producer keys with their valid_from_index: a map by key_id, the last object of
\* a list with a key_id standing for all of them.
ProducerKey == [key : Producers, from : Nat]
KeyMaps == {S \in SUBSET ProducerKey : \A o, q \in S : o.key = q.key => o = q}

LogKeyObject == [key : LogKeyIds, from : Nat]
WitnessKeyObject == [holder : Witnesses, from : Nat]

\* "current": it declares the revision this build verifies.  "readable": every
\* member it has parses and every key object in it matches its own key_id.
Manifest ==
  [type : {"manifest"}, sig : Signatures, current : BOOLEAN, readable : BOOLEAN,
   pred : Entries \cup {NoEntry}, log : LogIds, producers : KeyMaps,
   logKeys : Seq(LogKeyObject), witnessKeys : SUBSET WitnessKeyObject,
   cadence : Nat, grace : Nat, epoch : Nat]

KeyStatement ==
  [type : {"key"}, sig : Signatures, current : BOOLEAN, readable : BOOLEAN,
   action : {"add", "retire"}, key : Producers, from : Nat]

\* Anything the walk passes over: data, or bytes that are no statement.
Other == [type : {"other"}]

LogAnchor == [log : LogIds, genesis : Entries, producers : KeyMaps]

ASSUME SaysAssumption == Says \in [Entries -> Manifest \cup KeyStatement \cup Other]
ASSUME AnchorAssumption == Anchor \in LogAnchor
ASSUME SelfAssumption == Self \in Witnesses
ASSUME ProducersAssumption == "forged" \notin Producers /\ "malformed" \notin Producers
ASSUME NoEntryAssumption == NoEntry \notin Entries

-----------------------------------------------------------------------------
(* GovernanceState *)

\* A manifest version as the walk leaves it.
Version ==
  [index : Nat, id : Entries, logKeys : Seq(LogKeyObject),
   witnessKeys : SUBSET WitnessKeyObject, cadence : Nat, grace : Nat, epoch : Nat]

\* resolve_log_key: the FIRST key object with this key_id, from its activation on.
Resolves(v, k, size) ==
  \E i \in DOMAIN v.logKeys :
    /\ v.logKeys[i].key = k
    /\ \A j \in 1..(i - 1) : v.logKeys[j].key # k
    /\ v.logKeys[i].from <= size

\* No two of its objects have one key_id.
DistinctKeys(v) ==
  \A i, j \in DOMAIN v.logKeys : v.logKeys[i].key = v.logKeys[j].key => i = j

LogKeySet(v) == {v.logKeys[i] : i \in DOMAIN v.logKeys}

\* Fault: key sets are compared by key_id.
FaultRotatesByKeyId(v, predecessor) ==
  \/ {o.key : o \in LogKeySet(v)} # {o.key : o \in LogKeySet(predecessor)}
  \/ v.witnessKeys # predecessor.witnessKeys

Rotates(v, predecessor) ==
  \/ LogKeySet(v) # LogKeySet(predecessor)
  \/ v.witnessKeys # predecessor.witnessKeys

DeclaresWitness(v, size) ==
  \E o \in v.witnessKeys : o.holder = Self /\ o.from <= size

-----------------------------------------------------------------------------
(* The state of a walk *)

\* The running state: no version yet is no governance yet.  Key statements
\* change the producer keys only, so the last version is the running state.
WalkState == [versions : Seq(Version), producers : KeyMaps, aborted : BOOLEAN]

WalkInit == [versions |-> <<>>, producers |-> {}, aborted |-> FALSE]

Unresolved(w) == w.versions = <<>>
Running(w) == w.versions[Len(w.versions)]

\* The producer keys a statement has to verify under.
Authority(w) == IF Unresolved(w) THEN Anchor.producers ELSE w.producers

\* The statements that get as far as envelope verification: before genesis only
\* the entry the anchor names, afterwards every manifest and key statement.
Candidate(w, e) ==
  IF Unresolved(w) THEN Says[e].type = "manifest" /\ e = Anchor.genesis
  ELSE Says[e].type \in {"manifest", "key"}

\* Fault: the activation index of a producer key is not looked at.
FaultVerifiesEarly(w, e, index) ==
  Candidate(w, e) /\ \E o \in Authority(w) : o.key = Says[e].sig

\* verify_envelope is true: resolver_from_slice or resolver_from_map knows the
\* key, and the key is active at the entry's own index.
Verifies(w, e, index) ==
  /\ Candidate(w, e)
  /\ \E o \in Authority(w) : o.key = Says[e].sig /\ o.from <= index

\* verify_envelope fails, and `?` passes the error on.
EnvelopeError(w, e) == Candidate(w, e) /\ Says[e].sig = "malformed"

\* check_statement_version, reached only by statements that verify.
EarlierRevision(w, e, index) == Verifies(w, e, index) /\ ~Says[e].current

\* Fault: a later manifest names some predecessor, not the version in force.
FaultLinksAnywhere(w, m) == Unresolved(w) <=> m.pred = NoEntry

\* The genesis manifest names no predecessor, every other one the version in force.
Linked(w, m) == m.pred = IF Unresolved(w) THEN NoEntry ELSE Running(w).id

\* parse_governance gives a state: later versions keep the epoch of the first.
Valid(w, m) ==
  /\ m.readable
  /\ m.log = Anchor.log
  /\ m.cadence > 0
  /\ Unresolved(w) \/ m.epoch = Running(w).epoch

\* Fault: the predecessor is read before the revision.
FaultLinkBeforeRevision(w, e, index) ==
  \/ EnvelopeError(w, e)
  \/ EarlierRevision(w, e, index) /\ Says[e].type = "manifest" /\ Linked(w, Says[e])
  \/ EarlierRevision(w, e, index) /\ Says[e].type = "key"

Aborts(w, e, index) == EnvelopeError(w, e) \/ EarlierRevision(w, e, index)

\* try_apply_manifest installs a version.
Installs(w, e, index) ==
  /\ ~Aborts(w, e, index)
  /\ Verifies(w, e, index)
  /\ Says[e].type = "manifest"
  /\ Linked(w, Says[e])
  /\ Valid(w, Says[e])

VersionOf(e, index) ==
  [index |-> index, id |-> e, logKeys |-> Says[e].logKeys,
   witnessKeys |-> Says[e].witnessKeys, cadence |-> Says[e].cadence,
   grace |-> Says[e].grace, epoch |-> Says[e].epoch]

\* try_apply_key changes the producer keys.
Changes(w, e, index) ==
  /\ ~Aborts(w, e, index)
  /\ Verifies(w, e, index)
  /\ Says[e].type = "key"
  /\ Says[e].readable

\* HashMap::insert and HashMap::remove.
WithoutKey(keys, p) == {o \in keys : o.key # p}
WithKey(keys, p, from) == WithoutKey(keys, p) \cup {[key |-> p, from |-> from]}

\* Fault: a retired key stays.
FaultRetireKeeps(w, k) ==
  IF k.action = "add" THEN WithKey(w.producers, k.key, k.from) ELSE w.producers

ApplyKey(w, k) ==
  IF k.action = "add" THEN WithKey(w.producers, k.key, k.from)
  ELSE WithoutKey(w.producers, k.key)

\* One turn of the loop in walk; nothing is read after an error.
Step(w, e, index) ==
  IF w.aborted THEN w
  ELSE IF Aborts(w, e, index) THEN [w EXCEPT !.aborted = TRUE]
  ELSE IF Installs(w, e, index)
  THEN [w EXCEPT !.versions = Append(@, VersionOf(e, index)), !.producers = Says[e].producers]
  ELSE IF Changes(w, e, index) THEN [w EXCEPT !.producers = ApplyKey(w, Says[e])]
  ELSE w

\* walk over a whole prefix; the entry at position n has index n - 1.
Walk(prefix) ==
  LET after[n \in 0..Len(prefix)] ==
        IF n = 0 THEN WalkInit ELSE Step(after[n - 1], prefix[n], n - 1)
  IN after[Len(prefix)]

-----------------------------------------------------------------------------
(* What witness_checkpoint asks of a walked prefix *)

\* versions returns the collected versions rather than an error.
Resolved(w) == ~w.aborted /\ ~Unresolved(w)

\* The log keys under which a checkpoint over the prefix is a series member.
ActiveLogKeys(w, size) ==
  IF Resolved(w) THEN {k \in LogKeyIds : Resolves(Running(w), k, size)} ELSE {}

\* rotations_in: positions of the versions that rotate their predecessor's keys.
RotationsIn(w) ==
  {j \in 2..Len(w.versions) : Rotates(w.versions[j], w.versions[j - 1])}

\* rotation_anchors_for a checkpoint of this size signed by k.
RotationAnchorsFor(w, k, size) ==
  IF Resolved(w)
  THEN {w.versions[j].index : j \in {i \in RotationsIn(w) :
          /\ size > w.versions[i].index
          /\ Resolves(w.versions[i - 1], k, size)
          /\ DeclaresWitness(w.versions[i - 1], size)}}
  ELSE {}

\* Cadence and grace of the governing version.
TermsIn(w) ==
  IF Resolved(w) THEN [cadence |-> Running(w).cadence, grace |-> Running(w).grace]
  ELSE [cadence |-> 0, grace |-> 0]

=============================================================================
