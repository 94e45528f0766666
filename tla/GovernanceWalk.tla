---------------------------- MODULE GovernanceWalk ----------------------------
(***************************************************************************)
(* The walk of governance.rs as a machine that reads one entry per step,   *)
(* over every log its steps can spell.  `effective` is a history variable: *)
(* the indexes of the statements that took effect.  From it and the        *)
(* entries alone the properties say who was in force when.                 *)
(***************************************************************************)
EXTENDS Governance

VARIABLES entries,    \* the prefix read so far
          walk,       \* the state of the walk after it
          effective   \* indexes of the statements that took effect

walkVars == <<entries, walk, effective>>

WalkTypeOK ==
  /\ entries \in Seq(Entries)
  /\ walk \in WalkState
  /\ effective \subseteq Nat

Init == entries = <<>> /\ walk = WalkInit /\ effective = {}

TakesEffect(e, index) == Installs(walk, e, index) \/ Changes(walk, e, index)

\* The next entry is e; nothing is read after an error.
Read(e) ==
  /\ ~walk.aborted
  /\ entries' = Append(entries, e)
  /\ walk' = Step(walk, e, Len(entries))
  /\ effective' = IF TakesEffect(e, Len(entries)) THEN effective \cup {Len(entries)}
                  ELSE effective

Next == \E e \in Entries : Read(e)

Spec == Init /\ [][Next]_walkVars

-----------------------------------------------------------------------------
(* Who is in force, told from the statements that took effect *)

Stated(x) == Says[entries[x + 1]]

\* The producer keys the statement at x puts in force.
GivenKeys(x) ==
  IF Stated(x).type = "manifest" THEN Stated(x).producers
  ELSE IF Stated(x).action = "add" THEN {[key |-> Stated(x).key, from |-> Stated(x).from]}
  ELSE {}

\* The statement at x ends what was said of p before: a manifest replaces the
\* producer keys in full, a key statement speaks of one key.
Overrides(x, p) == Stated(x).type = "manifest" \/ Stated(x).key = p

Before(n) == {x \in effective : x < n}

\* The key objects of which the last effective word before n is that they hold.
KeysInForce(n) ==
  UNION {{o \in GivenKeys(x) : \A y \in Before(n) : x < y => ~Overrides(y, o.key)} :
           x \in Before(n)}

InForceAt(p, n) == \E o \in KeysInForce(n) : o.key = p /\ o.from <= n

\* The genesis manifest is judged by the configured keys.
ConfiguredAt(p, n) == \E o \in Anchor.producers : o.key = p /\ o.from <= n

-----------------------------------------------------------------------------
(* Properties *)

\* Governance is not self-authorizing: every statement that took effect was
\* signed by a producer key in force at its own index, as the earlier effective
\* statements have it; the first one is the configured genesis manifest under a
\* configured key.  Retirements, replacements in full and activation indexes all
\* count, whatever else the log holds in between.
EffectiveAuthorized ==
  \A x \in effective :
    IF Before(x) = {}
    THEN entries[x + 1] = Anchor.genesis /\ ConfiguredAt(Stated(x).sig, x)
    ELSE InForceAt(Stated(x).sig, x)

\* Of an earlier revision, and of a producer in force: such a statement is never
\* skipped.  A walk that did not abort has read none, so it does not report the
\* governance before it as if it still stood.
EarlierRevisionNeverSkipped ==
  ~walk.aborted =>
    \A x \in 0..(Len(entries) - 1) :
      Stated(x).type \in {"manifest", "key"} /\ ~Stated(x).current =>
        /\ ~InForceAt(Stated(x).sig, x)
        /\ ~(/\ Before(x) = {}
             /\ Stated(x).type = "manifest"
             /\ entries[x + 1] = Anchor.genesis
             /\ ConfiguredAt(Stated(x).sig, x))

\* The versions are one chain: it starts at the configured genesis manifest, each
\* manifest names the one before it and keeps its epoch, and each stands in the
\* log at the index its version carries, later than its predecessor.
VersionsChained ==
  \A j \in DOMAIN walk.versions :
    LET v == walk.versions[j]
    IN /\ v.index \in effective
       /\ v.id = entries[v.index + 1]
       /\ IF j = 1 THEN v.id = Anchor.genesis
          ELSE /\ walk.versions[j - 1].index < v.index
               /\ Says[v.id].pred = walk.versions[j - 1].id
               /\ v.epoch = walk.versions[1].epoch

\* The same for a checkpoint of any size.
BridgesAt(size) ==
  (\A j \in DOMAIN walk.versions : DistinctKeys(walk.versions[j])) =>
    \A i, j \in DOMAIN walk.versions, k \in LogKeyIds :
      i < j /\ Resolves(walk.versions[i], k, size) /\ ~Resolves(walk.versions[j], k, size) =>
        \E h \in (i + 1)..j :
          h \in RotationsIn(walk) /\ Resolves(walk.versions[h - 1], k, size)

\* A log key is never dropped without a rotation it can anchor: if an earlier
\* version accepts a key at the size of the prefix and a later one does not, some
\* version in between rotates keys and its predecessor still accepts the key.
DroppedKeyBridges == BridgesAt(Len(entries))

-----------------------------------------------------------------------------
(* The inductive invariant *)

\* The running key map is what the effective statements say, and there is one
\* from the first of them on.
ProducersTold ==
  /\ Unresolved(walk) <=> effective = {}
  /\ ~Unresolved(walk) => walk.producers = KeysInForce(Len(entries))

\* Statements take effect at indexes that were read.
EffectiveRead ==
  \A x \in effective : x < Len(entries) /\ Stated(x).type \in {"manifest", "key"}

\* Read entry by entry or as a whole, a prefix gives one state: what witness.rs
\* asks of Walk over the offered entries is what the properties here speak of.
WalkComputed == walk = Walk(entries)

\* What the proofs carry from step to step.
WalkInv ==
  /\ WalkTypeOK
  /\ WalkComputed
  /\ EffectiveRead
  /\ ProducersTold
  /\ EffectiveAuthorized
  /\ EarlierRevisionNeverSkipped
  /\ VersionsChained

-----------------------------------------------------------------------------
(* What the comments say of the walk *)

\* governance.rs, try_apply_manifest: an envelope that does not verify "stays
\* 'candidate ignored': bytes anyone can append must not abort resolution".  So a
\* walk that aborted has read a statement signed by a producer in force.
OnlyProducersAbort ==
  walk.aborted =>
    LET x == Len(entries) - 1
    IN InForceAt(Stated(x).sig, x) \/ (Before(x) = {} /\ ConfiguredAt(Stated(x).sig, x))

=============================================================================
