------------------------------- MODULE Witness -------------------------------
(***************************************************************************)
(* The witness's decision procedure on one offered checkpoint              *)
(* (witness.rs, witness_checkpoint): authentication against the governance *)
(* of the offered entries, then `transition` for a member of the log's     *)
(* series or `rotation_transition` for material that only anchors a key    *)
(* rotation.  Both run inside one store transaction, so each outcome is    *)
(* one atomic step here; every error rolls the transaction back.           *)
(***************************************************************************)
EXTENDS WitnessStore, Consistency

CONSTANTS
  Offers,                  \* the submissions this witness may receive
  LogKeys(_, _),           \* (log, entries): log keys active for a checkpoint over entries
  RotationAnchors(_, _, _),\* (log, entries, key): rotations a checkpoint by key anchors
  TermsOf(_, _)            \* (log, entries): cadence and grace of the governing manifest

\* A submission: the checkpoint, the entries covering it, the rotation it
\* names (none or one) and the instant its handler read the clock.
Offer == [cp : Checkpoint, entries : Root, named : SUBSET Nat, at : Nat]

ASSUME OffersAssumption ==
  \A o \in Offers :
    /\ o \in Offer
    /\ LogKeys(o.cp.log, o.entries) \subseteq Keys
    /\ RotationAnchors(o.cp.log, o.entries, o.cp.key) \subseteq Nat
    /\ TermsOf(o.cp.log, o.entries) \in FreshnessTerms

\* Without a genesis manifest the governance of a prefix does not resolve.
ASSUME GenesisAssumption == \A l \in Logs : LogKeys(l, <<>>) = {}

VARIABLE issued  \* every cosignature returned to a submitter, with what it was for

vars == <<cosigned, rotations, refusals, equivocations, issued>>

Issue == [cp : Checkpoint, series : BOOLEAN, anchors : SUBSET Nat]

TypeOK == StoreTypeOK /\ issued \subseteq Issue

Init == StoreInit /\ issued = {}

-----------------------------------------------------------------------------
(* What is vouched for *)

SeriesCheckpoints == {cosigned[i].cp : i \in DOMAIN cosigned}
RotationCheckpoints == {r.cp : r \in rotations}
Held == SeriesCheckpoints \cup RotationCheckpoints

-----------------------------------------------------------------------------
(* Authentication: pure, done before the store is touched *)

\* The checkpoint verifies under the key state active for its own size.
SeriesMember(o) == o.cp.key \in LogKeys(o.cp.log, o.entries)

Anchors(o) == RotationAnchors(o.cp.log, o.entries, o.cp.key)

Authentic(o) ==
  /\ Len(o.entries) = o.cp.size
  /\ SeriesMember(o) \/ Anchors(o) # {}
  /\ o.named \subseteq Anchors(o)

-----------------------------------------------------------------------------
(* The permanent floor: both procedures refuse first, citing the original pair *)

\* Fault: the refusal sets the new offer against the original retained checkpoint.
FaultCitesOffer(o) ==
  /\ Authentic(o)
  /\ Floored(o.cp.log)
  /\ \E i \in DOMAIN refusals :
       /\ IsOriginalPair(i, o.cp.log)
       /\ InsertRefusal("equivocation", refusals[i].retained, o.cp, NoProof)
  /\ UNCHANGED <<cosigned, rotations, equivocations, issued>>

RefuseAtFloor(o) ==
  /\ Authentic(o)
  /\ Floored(o.cp.log)
  /\ \E i \in DOMAIN refusals :
       /\ IsOriginalPair(i, o.cp.log)
       /\ InsertRefusal("equivocation", refusals[i].retained, refusals[i].offered, NoProof)
  /\ UNCHANGED <<cosigned, rotations, equivocations, issued>>

-----------------------------------------------------------------------------
(* A second root at a size already vouched for *)

\* Fault: the pair is recorded the wrong way round.
FaultSwapsPair(held, offered) ==
  /\ InsertEquivocation(offered.log, offered.size)
  /\ InsertRefusal("equivocation", offered, held, NoProof)
  /\ UNCHANGED <<cosigned, rotations, issued>>

\* record_equivocation_and_refuse_conn
RecordEquivocation(held, offered) ==
  /\ InsertEquivocation(offered.log, offered.size)
  /\ InsertRefusal("equivocation", held, offered, NoProof)
  /\ UNCHANGED <<cosigned, rotations, issued>>

SeriesConflict(i, c) ==
  /\ IsFirstAtSize(i, c.log, c.size)
  /\ cosigned[i].cp.root # c.root

NoSeriesConflict(c) ==
  \/ SeriesRowsAtSize(c.log, c.size) = {}
  \/ \E i \in DOMAIN cosigned :
       IsFirstAtSize(i, c.log, c.size) /\ cosigned[i].cp.root = c.root

\* The series asks the rotation table first, the rotation-only path the series.
EquivocatesWith(o, held) ==
  /\ Authentic(o)
  /\ ~Floored(o.cp.log)
  /\ \/ /\ SeriesMember(o) \/ NoSeriesConflict(o.cp)
        /\ \E r \in rotations : IsRotationConflict(r, o.cp) /\ held = r.cp
     \/ /\ SeriesMember(o) => RotationConflicts(o.cp) = {}
        /\ \E i \in DOMAIN cosigned : SeriesConflict(i, o.cp) /\ held = cosigned[i].cp

RefuseEquivocation(o) ==
  \E held \in Held : EquivocatesWith(o, held) /\ RecordEquivocation(held, o.cp)

\* Fault: the floor is not looked up.
FaultIgnoresFloor(o) ==
  Authentic(o) /\ RotationConflicts(o.cp) = {} /\ NoSeriesConflict(o.cp)

\* No floor, and no other root at this size in either table.
Undisputed(o) ==
  /\ Authentic(o)
  /\ ~Floored(o.cp.log)
  /\ RotationConflicts(o.cp) = {}
  /\ NoSeriesConflict(o.cp)

-----------------------------------------------------------------------------
(* `transition`: members of the series *)

\* Fault: a size already cosigned is compared like any other.
FaultComparesAnySize(o) == SeriesMember(o) /\ Undisputed(o)

\* Nothing cosigned at this size, so the retained checkpoint decides.
NewSize(o) == SeriesMember(o) /\ Undisputed(o) /\ SeriesRowsAtSize(o.cp.log, o.cp.size) = {}

Bootstrap(o) == NewSize(o) /\ SeriesRowsOf(o.cp.log) = {}

\* The offer compares with retained row i with this outcome.
Compares(o, i, outcome) ==
  /\ NewSize(o)
  /\ IsRetained(i, o.cp.log)
  /\ Check(cosigned[i].cp, o.cp, o.entries) = outcome

RootRecomputes(o) == ComputeRoot(o.entries) = o.cp.root

SeriesAdmissible(o) ==
  \/ SeriesMember(o) /\ Undisputed(o) /\ SeriesRowsAtSize(o.cp.log, o.cp.size) # {}
  \/ Bootstrap(o) /\ RootRecomputes(o)
  \/ \E i \in DOMAIN cosigned : Compares(o, i, "consistent")

CanCosignSeries(o) ==
  /\ CanInsertCosigned(o.cp, TermsOf(o.cp.log, o.entries))
  /\ CanInsertRotation(Anchors(o), o.cp, o.at)

\* cosign_conn: one cosignature, filed in the series and under every rotation.
CosignSeries(o) ==
  /\ SeriesAdmissible(o)
  /\ CanCosignSeries(o)
  /\ InsertCosigned(o.cp, TermsOf(o.cp.log, o.entries), o.at)
  /\ InsertRotation(Anchors(o), o.cp, o.at)
  /\ issued' = issued \cup {[cp |-> o.cp, series |-> TRUE, anchors |-> Anchors(o)]}
  /\ UNCHANGED <<refusals, equivocations>>

RefuseSizeRegression(o) ==
  /\ \E i \in DOMAIN cosigned :
       /\ Compares(o, i, "size-regression")
       /\ InsertRefusal("size-regression", cosigned[i].cp, o.cp, NoProof)
  /\ UNCHANGED <<cosigned, rotations, equivocations, issued>>

RefuseExtension(o) ==
  /\ \E i \in DOMAIN cosigned :
       /\ Compares(o, i, "extension-failed")
       /\ InsertRefusal("extension-failed", cosigned[i].cp, o.cp,
            [from |-> cosigned[i].cp.size, to |-> o.cp.size, leaves |-> o.entries])
  /\ UNCHANGED <<cosigned, rotations, equivocations, issued>>

-----------------------------------------------------------------------------
(* `rotation_transition`: material that only anchors a rotation *)

\* Fault: material for a rotation is cosigned without recomputing its root.
FaultAnchorsUnseenTree(o) == ~SeriesMember(o) /\ Undisputed(o)

RotationAdmissible(o) == ~SeriesMember(o) /\ Undisputed(o) /\ RootRecomputes(o)

CosignRotation(o) ==
  /\ RotationAdmissible(o)
  /\ CanInsertRotation(Anchors(o), o.cp, o.at)
  /\ InsertRotation(Anchors(o), o.cp, o.at)
  /\ issued' = issued \cup {[cp |-> o.cp, series |-> FALSE, anchors |-> Anchors(o)]}
  /\ UNCHANGED <<cosigned, refusals, equivocations>>

-----------------------------------------------------------------------------
(* Errors: nothing is written *)

\* CheckpointRootMismatch.
BadRoot(o) == (Bootstrap(o) \/ (~SeriesMember(o) /\ Undisputed(o))) /\ ~RootRecomputes(o)

\* The uniqueness constraint, an unstorable integer or RotationCosignatureConflict.
InsertFails(o) ==
  \/ SeriesAdmissible(o) /\ ~CanCosignSeries(o)
  \/ RotationAdmissible(o) /\ ~CanInsertRotation(Anchors(o), o.cp, o.at)

Reject(o) == (~Authentic(o) \/ BadRoot(o) \/ InsertFails(o)) /\ UNCHANGED vars

-----------------------------------------------------------------------------
Decide(o) ==
  \/ RefuseAtFloor(o)
  \/ RefuseEquivocation(o)
  \/ CosignSeries(o)
  \/ RefuseSizeRegression(o)
  \/ RefuseExtension(o)
  \/ CosignRotation(o)
  \/ Reject(o)

Next == \E o \in Offers : Decide(o)

Spec == Init /\ [][Next]_vars

-----------------------------------------------------------------------------
(* Safety *)

\* Core safety.  Across BOTH tables the witness holds at most one root for a
\* log at a size: transition and rotation_transition each compare a candidate
\* with the whole retained history, in their own order, before filing it.
OneRootPerSize ==
  \A c, d \in Held : c.log = d.log /\ c.size = d.size => c.root = d.root

\* s continues r: the leaves r commits to are the first leaves of s.
Continues(s, r) == Len(r) <= Len(s) /\ \A k \in 1..Len(r) : s[k] = r[k]

\* The series of a log is one append-only history: of two cosigned series
\* checkpoints the larger continues the smaller, although each consistency
\* proof only ever relates a candidate to the newest retained checkpoint.
SeriesAppendOnly ==
  \A c, d \in SeriesCheckpoints :
    c.log = d.log /\ c.size <= d.size => Continues(d.root, c.root)

\* Every stored refusal passes verify_refusal_claim, from its own evidence.
RefusalsCheckable == \A i \in DOMAIN refusals : VerifyRefusalClaim(refusals[i])

\* No false accusation: a checkpoint that continues the retained history, offered
\* with the very entries it commits to, is never refused as a failed extension,
\* whether or not the proof for the two sizes carries the old tree.
HonestNeverRefused ==
  \A i \in DOMAIN refusals :
    refusals[i].reason = "extension-failed" =>
      ~(/\ refusals[i].proof.leaves = refusals[i].offered.root
        /\ Continues(refusals[i].offered.root, refusals[i].retained.root))

\* Every stored refusal sets the offer against a checkpoint of the same log
\* that this witness itself holds a cosignature for, in one of its tables.
RefusalsCiteHeld ==
  \A i \in DOMAIN refusals :
    /\ refusals[i].retained \in Held
    /\ refusals[i].retained.log = refusals[i].offered.log

\* The floor and its evidence are recorded together: a log has a floor exactly
\* when it has an equivocation refusal, the original pair disagrees at the
\* floor, and every later refusal repeats that pair (the StoreInit error
\* "equivocation floor recorded with no evidence pair" cannot arise).
FloorHasEvidence ==
  \A l \in Logs :
    /\ Floored(l) <=> EquivocationRefusals(l) # {}
    /\ \A i \in EquivocationRefusals(l) :
         /\ IsFloor(refusals[i].offered.size, l)
         /\ \A j \in EquivocationRefusals(l) :
              /\ refusals[j].retained = refusals[i].retained
              /\ refusals[j].offered = refusals[i].offered

\* Every checkpoint issued as a rotation's anchor is at or after the one the
\* rotation route serves: superseding a later anchor never loses the minimum.
ServedAnchorIsEarliest ==
  \A s \in issued : \A x \in s.anchors :
    \E r \in RotationRowsOf(s.cp.log, x) :
      IsServed(r, s.cp.log, x) /\ AtOrBefore(r.cp, s.cp)

\* Every cosignature issued for the series is on record in the series.
IssuedSeriesStored == \A s \in issued : s.series => s.cp \in SeriesCheckpoints

\* A series checkpoint on record that anchors nothing is accepted again, for as
\* long as the log has no floor, and resubmitting it changes no table.
ResubmissionIdempotent ==
  \A o \in Offers :
    (/\ Authentic(o) /\ SeriesMember(o) /\ Anchors(o) = {}
     /\ Storable(TermsOf(o.cp.log, o.entries))
     /\ o.cp \in SeriesCheckpoints /\ ~Floored(o.cp.log))
    => SeriesAdmissible(o) /\ CanCosignSeries(o) /\ SeriesPresent(o.cp)

\* Once a log has a floor, it stays ended: nothing more is vouched for in either
\* table and the floor neither moves nor goes away, whatever is offered.
FloorPermanent ==
  [][\A l \in Logs : Floored(l) =>
       /\ {c \in Held : c.log = l}' = {c \in Held : c.log = l}
       /\ {e \in equivocations : e.log = l}' = {e \in equivocations : e.log = l}]_vars

\* A submitter whose answer was lost may ask again, however far the series has
\* moved on: no refusal is ever recorded against a checkpoint the series holds.
RetryNeverRefused ==
  [][\A i \in DOMAIN refusals' \ DOMAIN refusals :
       refusals'[i].offered \notin SeriesCheckpoints]_vars

-----------------------------------------------------------------------------
(* The inductive invariant *)

\* A series root commits to as many leaves as its tree_size says.
RootsMeasure == \A c \in SeriesCheckpoints : Len(c.root) = c.size

\* Each "first row" query finds a row whenever its table has a candidate.
QueriesAnswer ==
  /\ \A l \in Logs : SeriesRowsOf(l) # {} => \E i \in DOMAIN cosigned : IsRetained(i, l)
  /\ \A c \in SeriesCheckpoints :
       \E i \in DOMAIN cosigned : IsFirstAtSize(i, c.log, c.size)
  /\ \A q \in rotations : \E r \in rotations : IsServed(r, q.cp.log, q.index)

\* What the proofs carry from step to step: the safety properties together with
\* the two facts above, which they need about the tables they are stated on.
Inv ==
  /\ TypeOK
  /\ RootsMeasure
  /\ QueriesAnswer
  /\ OneRootPerSize
  /\ SeriesAppendOnly
  /\ RefusalsCheckable
  /\ RefusalsCiteHeld
  /\ FloorHasEvidence
  /\ ServedAnchorIsEarliest
  /\ IssuedSeriesStored

-----------------------------------------------------------------------------
(* What the documentation says of the program *)

\* README, "Rotation-anchoring checkpoints": equivocation detection spans both
\* tables in both directions, so the witness never signs two roots at a size.
IssuedOneRootPerSize ==
  \A s, t \in issued : s.cp.log = t.cp.log /\ s.cp.size = t.cp.size => s.cp.root = t.cp.root

\* store.rs, insert_rotation_cosigned: "Idempotent for an identical
\* resubmission".  A checkpoint already filed under every rotation it anchors is
\* accepted when it is offered again, at whatever instant.
AnchorResubmissionIdempotent ==
  \A o \in Offers :
    (/\ SeriesAdmissible(o) \/ RotationAdmissible(o)
     /\ Anchors(o) # {}
     /\ \A x \in Anchors(o) : \E r \in RotationRowsOf(o.cp.log, x) : r.cp = o.cp)
    => CanInsertRotation(Anchors(o), o.cp, o.at)

=============================================================================
