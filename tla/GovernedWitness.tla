--------------------------- MODULE GovernedWitness ---------------------------
(***************************************************************************)
(* The decision procedure under the governance its submissions carry: the  *)
(* three operators Witness takes as parameters are what witness_checkpoint *)
(* computes from a walk over the offered entries (witness.rs,              *)
(* governance.rs).                                                         *)
(***************************************************************************)
EXTENDS Witness

CONSTANTS NoEntry, Producers, Witnesses, Self, Says,
          AnchorOf   \* the configured trust anchor of each log

Governance(l) ==
  INSTANCE Governance WITH Entries <- Leaves, LogKeyIds <- Keys, LogIds <- Logs,
                           Anchor <- AnchorOf[l]

\* What resolves is parsed, and the configuration is read at startup.
ASSUME StatementsAssumption ==
  \A l \in Logs :
    /\ Says \in [Leaves -> Governance(l)!Manifest \cup Governance(l)!KeyStatement
                             \cup Governance(l)!Other]
    /\ AnchorOf[l] \in Governance(l)!LogAnchor

GovernedLogKeys(l, entries) ==
  Governance(l)!ActiveLogKeys(Governance(l)!Walk(entries), Len(entries))

GovernedRotationAnchors(l, entries, key) ==
  Governance(l)!RotationAnchorsFor(Governance(l)!Walk(entries), key, Len(entries))

GovernedTerms(l, entries) == Governance(l)!TermsIn(Governance(l)!Walk(entries))

\* The decision procedure asks the walk over what was offered.
ASSUME GovernedAssumption ==
  \A o \in Offers :
    LET l == o.cp.log
    IN /\ LogKeys(l, o.entries) = GovernedLogKeys(l, o.entries)
       /\ RotationAnchors(l, o.entries, o.cp.key) = GovernedRotationAnchors(l, o.entries, o.cp.key)
       /\ TermsOf(l, o.entries) = GovernedTerms(l, o.entries)

-----------------------------------------------------------------------------
(* Properties *)

\* A checkpoint held only as a rotation's anchor is evidence by itself: in the
\* log its own root commits to, the rotation is there, the checkpoint's key is of
\* the outgoing version and no longer active, and this witness was declared.
\* A receipt built from it needs nothing of the submission it arrived with.
AnchorsOwnHistory ==
  \A r \in rotations : r.cp \notin SeriesCheckpoints =>
    /\ r.index \in GovernedRotationAnchors(r.cp.log, r.cp.root, r.cp.key)
    /\ r.cp.key \notin GovernedLogKeys(r.cp.log, r.cp.root)

\* The series never drops a log key without a handover.  If a key is active for one
\* cosigned checkpoint and no longer for a later one, the manifests the log added
\* between them hold a rotation whose outgoing version still accepts that key at
\* the later size: the key can still sign a checkpoint that anchors it.
KeysHandedOver ==
  \A c, d \in SeriesCheckpoints :
    c.log = d.log /\ c.size <= d.size =>
      LET walk == Governance(d.log)!Walk(d.root)
      IN /\ ~walk.aborted
         /\ \A j \in DOMAIN walk.versions : Governance(d.log)!DistinctKeys(walk.versions[j])
         => \A k \in GovernedLogKeys(c.log, c.root) \ GovernedLogKeys(d.log, d.root) :
              \E j \in Governance(d.log)!RotationsIn(walk) :
                /\ walk.versions[j].index >= c.size
                /\ Governance(d.log)!Resolves(walk.versions[j - 1], k, d.size)

\* witness.rs, module documentation: cadence and grace are "taken from the
\* manifest version governing the checkpoint in question".
TermsGovern ==
  \A i \in DOMAIN cosigned :
    cosigned[i].terms = GovernedTerms(cosigned[i].cp.log, cosigned[i].cp.root)

=============================================================================
