---------------------------- MODULE WitnessProofs ----------------------------
(***************************************************************************)
(* Theorems about the decision procedure, for every set of logs, keys,     *)
(* leaves and offers and every governance consistent with the assumptions, *)
(* and that it implements SeriesPromise: the initial states map to the     *)
(* initial state, and every step maps to Extend, to End or to a stutter.   *)
(***************************************************************************)
EXTENDS WitnessRefinement, SequenceTheorems, TLAPS

-----------------------------------------------------------------------------
(* What an insert does to its table *)

\* insert_cosigned keeps every row and files at most the checkpoint given.
LEMMA InsertCosignedAdds ==
  ASSUME StoreTypeOK,
         NEW c \in Checkpoint, NEW terms \in FreshnessTerms, NEW at \in Nat,
         InsertCosigned(c, terms, at)
  PROVE  /\ cosigned' \in Seq(SeriesRow)
         /\ \A i \in DOMAIN cosigned : i \in DOMAIN cosigned' /\ cosigned'[i] = cosigned[i]
         /\ \A i \in DOMAIN cosigned' :
              \/ i \in DOMAIN cosigned
              \/ i \notin DOMAIN cosigned /\ cosigned'[i].cp = c
         /\ \A i, j \in DOMAIN cosigned' \ DOMAIN cosigned : i = j
         /\ SeriesCheckpoints' = SeriesCheckpoints \cup {c}
<1> DEFINE row == [cp |-> c, terms |-> terms, at |-> at]
<1>1. cosigned \in Seq(SeriesRow) /\ row \in SeriesRow
  BY DEF StoreTypeOK, SeriesRow
<1>2. CASE SeriesPresent(c)
  <2>1. cosigned' = cosigned
    BY <1>2 DEF InsertCosigned
  <2>2. c \in SeriesCheckpoints
    BY <1>2 DEF SeriesPresent, SeriesCheckpoints
  <2> QED
    BY <1>1, <2>1, <2>2 DEF SeriesCheckpoints
<1>3. CASE ~SeriesPresent(c)
  <2>1. cosigned' = Append(cosigned, row)
    BY <1>3 DEF InsertCosigned
  <2>2. /\ cosigned' \in Seq(SeriesRow)
        /\ DOMAIN cosigned = 1..Len(cosigned)
        /\ DOMAIN cosigned' = 1..(Len(cosigned) + 1)
        /\ \A i \in DOMAIN cosigned : cosigned'[i] = cosigned[i]
        /\ cosigned'[Len(cosigned) + 1] = row
        /\ Len(cosigned) \in Nat
    BY <1>1, <2>1
  <2>3. \A i \in DOMAIN cosigned' : i \in DOMAIN cosigned \/ i = Len(cosigned) + 1
    BY <2>2
  <2>4. SeriesCheckpoints' = SeriesCheckpoints \cup {c}
    BY <2>2, <2>3 DEF SeriesCheckpoints
  <2> QED
    BY <2>2, <2>3, <2>4
<1> QED
  BY <1>2, <1>3

\* insert_rotation_cosigned keeps every row and files at most the checkpoint given.
LEMMA InsertRotationAdds ==
  ASSUME StoreTypeOK,
         NEW c \in Checkpoint, NEW xs \in SUBSET Nat, NEW at \in Nat,
         InsertRotation(xs, c, at)
  PROVE  /\ rotations' \subseteq RotationRow
         /\ rotations \subseteq rotations'
         /\ \A r \in rotations' \ rotations :
              r.index \in xs /\ r.cp = c /\ ~Superseded(r.index, c)
         /\ RotationCheckpoints' \subseteq RotationCheckpoints \cup {c}
  BY DEF StoreTypeOK, InsertRotation, RotationRow, RotationCheckpoints

\* insert_refusal appends one row.
LEMMA InsertRefusalAppends ==
  ASSUME StoreTypeOK,
         NEW e \in Refusal,
         refusals' = Append(refusals, e)
  PROVE  /\ refusals' \in Seq(Refusal)
         /\ \A i \in DOMAIN refusals : i \in DOMAIN refusals' /\ refusals'[i] = refusals[i]
         /\ \A i \in DOMAIN refusals' :
              \/ i \in DOMAIN refusals
              \/ i \notin DOMAIN refusals /\ refusals'[i] = e
         /\ Len(refusals) + 1 \in DOMAIN refusals' /\ refusals'[Len(refusals) + 1] = e
  BY DEF StoreTypeOK

-----------------------------------------------------------------------------
(* Type correctness *)

LEMMA RowTypes ==
  ASSUME StoreTypeOK
  PROVE  /\ \A i \in DOMAIN cosigned : cosigned[i].cp \in Checkpoint
         /\ \A r \in rotations : r \in RotationRow /\ r.cp \in Checkpoint
         /\ \A i \in DOMAIN refusals : refusals[i] \in Refusal
<1>1. \A i \in DOMAIN cosigned : cosigned[i] \in SeriesRow
  BY DEF StoreTypeOK
<1>2. \A row \in SeriesRow : row.cp \in Checkpoint
  BY DEF SeriesRow
<1>3. \A r \in rotations : r \in RotationRow /\ r.cp \in Checkpoint
  BY DEF StoreTypeOK, RotationRow
<1>4. \A i \in DOMAIN refusals : refusals[i] \in Refusal
  BY DEF StoreTypeOK
<1> QED
  BY <1>1, <1>2, <1>3, <1>4

LEMMA HeldTypes == TypeOK => Held \subseteq Checkpoint /\ SeriesCheckpoints \subseteq Held
  BY RowTypes DEF TypeOK, Held, SeriesCheckpoints, RotationCheckpoints

LEMMA OfferParts ==
  ASSUME NEW o \in Offers
  PROVE  /\ o.cp \in Checkpoint /\ o.entries \in Root /\ o.at \in Nat
         /\ o.named \in SUBSET Nat
         /\ Anchors(o) \in SUBSET Nat
         /\ TermsOf(o.cp.log, o.entries) \in FreshnessTerms
         /\ o.cp.log \in Logs /\ o.cp.size \in Nat /\ o.cp.time \in Nat
         /\ o.cp.root \in Root /\ o.cp.key \in Keys
  BY OffersAssumption DEF Offer, Anchors, Checkpoint

LEMMA TypeStep == TypeOK /\ [Next]_vars => TypeOK'
<1> SUFFICES ASSUME TypeOK, [Next]_vars PROVE TypeOK'
  OBVIOUS
<1> USE DEF TypeOK, StoreTypeOK
<1>1. CASE UNCHANGED vars
  BY <1>1 DEF vars
<1>2. ASSUME NEW o \in Offers, Decide(o) PROVE TypeOK'
  <2>0. NoProof \in Proof
    BY DEF NoProof, Proof, Root
  <2>1. CASE RefuseAtFloor(o)
    <3>1. PICK i \in DOMAIN refusals :
            InsertRefusal("equivocation", refusals[i].retained, refusals[i].offered, NoProof)
      BY <2>1 DEF RefuseAtFloor
    <3>2. refusals[i] \in Refusal
      OBVIOUS
    <3>3. refusals' \in Seq(Refusal)
      BY <3>1, <3>2, <2>0 DEF InsertRefusal, Refusal, Reasons
    <3> QED
      BY <2>1, <3>3 DEF RefuseAtFloor
  <2>2. CASE RefuseEquivocation(o)
    <3>1. o.cp \in Checkpoint
      BY OfferParts
    <3>2. ASSUME NEW held \in Checkpoint, RecordEquivocation(held, o.cp) PROVE TypeOK'
      BY <2>0, <3>1, <3>2 DEF RecordEquivocation, InsertEquivocation, InsertRefusal, Refusal, Reasons,
         EquivocationRow, Checkpoint
    <3>3. \A c \in Held : c \in Checkpoint
      BY HeldTypes
    <3> QED
      BY <2>2, <3>2, <3>3 DEF RefuseEquivocation
  <2>3. CASE CosignSeries(o)
    <3>1. cosigned' \in Seq(SeriesRow)
      BY <2>3, OfferParts, InsertCosignedAdds DEF CosignSeries
    <3>2. rotations' \subseteq RotationRow
      BY <2>3, OfferParts, InsertRotationAdds DEF CosignSeries
    <3>3. issued' \subseteq Issue
      <4>1. [cp |-> o.cp, series |-> TRUE, anchors |-> Anchors(o)] \in Issue
        BY OfferParts DEF Issue
      <4> QED
        BY <2>3, <4>1 DEF CosignSeries
    <3> QED
      BY <2>3, <3>1, <3>2, <3>3 DEF CosignSeries
  <2>4. CASE RefuseSizeRegression(o)
    <3>1. PICK i \in DOMAIN cosigned :
            InsertRefusal("size-regression", cosigned[i].cp, o.cp, NoProof)
      BY <2>4 DEF RefuseSizeRegression
    <3>2. cosigned[i].cp \in Checkpoint
      BY RowTypes
    <3>3. refusals' \in Seq(Refusal)
      BY <3>1, <3>2, <2>0, OfferParts DEF InsertRefusal, Refusal, Reasons
    <3> QED
      BY <2>4, <3>3 DEF RefuseSizeRegression
  <2>5. CASE RefuseExtension(o)
    <3> DEFINE proof(i) == [from |-> cosigned[i].cp.size, to |-> o.cp.size, leaves |-> o.entries]
    <3>1. PICK i \in DOMAIN cosigned :
            InsertRefusal("extension-failed", cosigned[i].cp, o.cp, proof(i))
      BY <2>5 DEF RefuseExtension
    <3>2. cosigned[i].cp \in Checkpoint
      BY RowTypes
    <3>3. proof(i) \in Proof
      BY <3>2, OfferParts DEF Proof, Checkpoint
    <3>4. refusals' \in Seq(Refusal)
      BY <3>1, <3>2, <3>3, OfferParts DEF InsertRefusal, Refusal, Reasons
    <3> QED
      BY <2>5, <3>4 DEF RefuseExtension
  <2>6. CASE CosignRotation(o)
    <3>1. rotations' \subseteq RotationRow
      BY <2>6, OfferParts, InsertRotationAdds DEF CosignRotation
    <3>2. issued' \subseteq Issue
      <4>1. [cp |-> o.cp, series |-> FALSE, anchors |-> Anchors(o)] \in Issue
        BY OfferParts DEF Issue
      <4> QED
        BY <2>6, <4>1 DEF CosignRotation
    <3> QED
      BY <2>6, <3>1, <3>2 DEF CosignRotation
  <2>7. CASE Reject(o)
    BY <2>7 DEF Reject, vars
  <2> QED
    BY <1>2, <2>1, <2>2, <2>3, <2>4, <2>5, <2>6, <2>7 DEF Decide
<1> QED
  BY <1>1, <1>2 DEF Next

\* The tables and the cosignatures issued keep their types.
THEOREM TypeCorrect == Spec => []TypeOK
<1>1. Init => TypeOK
  BY DEF Init, StoreInit, TypeOK, StoreTypeOK
<1>2. QED
  BY <1>1, TypeStep, PTL DEF Spec

-----------------------------------------------------------------------------
(* What each outcome does to what is vouched for *)

\* Whatever is filed is undisputed; a refusal or an error files nothing.
LEMMA VouchingStep ==
  ASSUME TypeOK, NEW o \in Offers, Decide(o)
  PROVE  \/ /\ UNCHANGED <<cosigned, rotations, issued>>
            /\ Held' = Held /\ SeriesCheckpoints' = SeriesCheckpoints
         \/ /\ CosignSeries(o) /\ Undisputed(o)
            /\ SeriesCheckpoints' = SeriesCheckpoints \cup {o.cp}
            /\ Held' = Held \cup {o.cp}
         \/ /\ CosignRotation(o) /\ Undisputed(o)
            /\ SeriesCheckpoints' = SeriesCheckpoints
            /\ Held \subseteq Held' /\ Held' \subseteq Held \cup {o.cp}
<1> USE DEF TypeOK
<1>1. ASSUME UNCHANGED <<cosigned, rotations, issued>>
      PROVE  Held' = Held /\ SeriesCheckpoints' = SeriesCheckpoints
  BY <1>1 DEF Held, SeriesCheckpoints, RotationCheckpoints
<1>2. CASE CosignSeries(o)
  <2>1. SeriesCheckpoints' = SeriesCheckpoints \cup {o.cp}
    BY <1>2, OfferParts, InsertCosignedAdds DEF CosignSeries
  <2>2. /\ RotationCheckpoints' \subseteq RotationCheckpoints \cup {o.cp}
        /\ rotations \subseteq rotations'
    BY <1>2, OfferParts, InsertRotationAdds DEF CosignSeries
  <2>3. RotationCheckpoints \subseteq RotationCheckpoints'
    BY <2>2 DEF RotationCheckpoints
  <2>4. Held' = Held \cup {o.cp}
    BY <2>1, <2>2, <2>3 DEF Held
  <2>5. Undisputed(o)
    BY <1>2 DEF CosignSeries, SeriesAdmissible, Bootstrap, Compares, NewSize
  <2> QED
    BY <1>2, <2>1, <2>4, <2>5
<1>3. CASE CosignRotation(o)
  <2>1. SeriesCheckpoints' = SeriesCheckpoints
    BY <1>3 DEF CosignRotation, SeriesCheckpoints
  <2>2. /\ RotationCheckpoints' \subseteq RotationCheckpoints \cup {o.cp}
        /\ rotations \subseteq rotations'
    BY <1>3, OfferParts, InsertRotationAdds DEF CosignRotation
  <2>3. RotationCheckpoints \subseteq RotationCheckpoints'
    BY <2>2 DEF RotationCheckpoints
  <2>4. Undisputed(o)
    BY <1>3 DEF CosignRotation, RotationAdmissible
  <2> QED
    BY <1>3, <2>1, <2>2, <2>3, <2>4 DEF Held
<1>4. CASE RefuseAtFloor(o) \/ RefuseEquivocation(o) \/ RefuseSizeRegression(o)
           \/ RefuseExtension(o) \/ Reject(o)
  BY <1>1, <1>4 DEF RefuseAtFloor, RefuseEquivocation, RecordEquivocation, RefuseSizeRegression,
     RefuseExtension, Reject, vars
<1> QED
  BY <1>2, <1>3, <1>4 DEF Decide

\* An undisputed offer agrees with everything held at its size.
LEMMA UndisputedAgrees ==
  ASSUME Inv, NEW o \in Offers, Undisputed(o),
         NEW c \in Held, c.log = o.cp.log, c.size = o.cp.size
  PROVE  c.root = o.cp.root
<1>1. CASE c \in RotationCheckpoints
  BY <1>1 DEF RotationCheckpoints, Undisputed, RotationConflicts
<1>2. CASE c \in SeriesCheckpoints
  <2>1. SeriesRowsAtSize(o.cp.log, o.cp.size) # {}
    BY <1>2 DEF SeriesCheckpoints, SeriesRowsAtSize, SeriesRowsOf
  <2>2. PICK i \in DOMAIN cosigned :
          IsFirstAtSize(i, o.cp.log, o.cp.size) /\ cosigned[i].cp.root = o.cp.root
    BY <2>1 DEF Undisputed, NoSeriesConflict
  <2>3. /\ cosigned[i].cp \in Held
        /\ cosigned[i].cp.log = o.cp.log /\ cosigned[i].cp.size = o.cp.size
    BY <2>2 DEF IsFirstAtSize, SeriesRowsAtSize, SeriesRowsOf, Held, SeriesCheckpoints
  <2> QED
    BY <2>2, <2>3 DEF Inv, OneRootPerSize
<1> QED
  BY <1>1, <1>2 DEF Held

LEMMA OneRootStep == Inv /\ [Next]_vars => OneRootPerSize'
<1> SUFFICES ASSUME Inv, [Next]_vars PROVE OneRootPerSize'
  OBVIOUS
<1>1. CASE UNCHANGED vars
  BY <1>1 DEF vars, Inv, OneRootPerSize, Held, SeriesCheckpoints, RotationCheckpoints
<1>2. ASSUME NEW o \in Offers, Decide(o) PROVE OneRootPerSize'
  <2>1. CASE Held' = Held
    BY <2>1 DEF Inv, OneRootPerSize
  <2>2. CASE Undisputed(o) /\ Held' \subseteq Held \cup {o.cp}
    BY <2>2, UndisputedAgrees DEF Inv, OneRootPerSize
  <2> QED
    BY <1>2, <2>1, <2>2, VouchingStep DEF Inv
<1> QED
  BY <1>1, <1>2 DEF Next

-----------------------------------------------------------------------------
(* The series is one append-only history *)

LEMMA ContinuesTransitive ==
  ASSUME NEW r \in Root, NEW s \in Root, NEW t \in Root, Continues(s, r), Continues(t, s)
  PROVE  Continues(t, r)
<1>1. Len(r) \in Nat /\ Len(s) \in Nat /\ Len(t) \in Nat
  BY DEF Root
<1> QED
  BY <1>1 DEF Continues

LEMMA ContinuesReflexive == \A r \in Root : Continues(r, r)
  BY DEF Root, Continues

LEMMA ConcatExtends ==
  \A S : \A r, t \in Seq(S) :
    /\ Len(r \o t) = Len(r) + Len(t)
    /\ \A k \in 1..Len(r) : (r \o t)[k] = r[k]
<1> SUFFICES ASSUME NEW S, NEW r \in Seq(S), NEW t \in Seq(S)
             PROVE  /\ Len(r \o t) = Len(r) + Len(t)
                    /\ \A k \in 1..Len(r) : (r \o t)[k] = r[k]
  OBVIOUS
<1>1. Len(r \o t) = Len(r) + Len(t)
  BY ConcatProperties, Zenon
<1>2. \A k \in 1..Len(r) : (r \o t)[k] = r[k]
  OBVIOUS
<1> QED
  BY <1>1, <1>2

\* A consistency proof that verifies shows that the new root commits to as many
\* leaves as it should and continues the old one.
LEMMA VerifiedContinues ==
  ASSUME NEW leaves \in Root, NEW m \in Nat, NEW n \in Nat, m < n, Len(leaves) = n,
         NEW r \in Root, NEW s \in Root, Len(r) = m,
         VerifyConsistency(leaves, m, n, r, s)
  PROVE  Len(s) = n /\ Continues(s, r)
<1> USE DEF Root
<1>1. CASE IsPowerOfTwo(m)
  <2> DEFINE rest == SubSeq(leaves, m + 1, n)
  <2>1. rest \in Seq(Leaves) /\ Len(rest) = n - m
    OBVIOUS
  <2>2. s = r \o rest
    BY <1>1 DEF VerifyConsistency
  <2> HIDE DEF rest
  <2>3. /\ Len(r \o rest) = Len(r) + Len(rest)
        /\ \A k \in 1..Len(r) : (r \o rest)[k] = r[k]
    BY <2>1, ConcatExtends, Zenon
  <2> QED
    BY <2>1, <2>2, <2>3 DEF Continues
<1>2. CASE ~IsPowerOfTwo(m)
  <2>1. r = SubSeq(leaves, 1, m) /\ s = SubSeq(leaves, 1, n)
    BY <1>2 DEF VerifyConsistency
  <2>2. Len(s) = n
    BY <2>1
  <2>3. \A k \in 1..m : r[k] = leaves[k] /\ s[k] = leaves[k]
    BY <2>1
  <2> QED
    BY <2>2, <2>3 DEF Continues
<1> QED
  BY <1>1, <1>2

\* What a positive comparison with the retained checkpoint means.
LEMMA CheckConsistent ==
  ASSUME NEW r \in Checkpoint, NEW c \in Checkpoint, NEW leaves,
         Check(r, c, leaves) = "consistent", c.size # r.size
  PROVE  /\ r.size < c.size
         /\ VerifyConsistency(leaves, r.size, c.size, r.root, c.root)
  BY DEF Check, Checkpoint

\* The offer an admissible step files fits everything in the log's series.
LEMMA AdmissibleFits ==
  ASSUME Inv, NEW o \in Offers, SeriesAdmissible(o)
  PROVE  /\ Len(o.cp.root) = o.cp.size
         /\ \A c \in SeriesCheckpoints : c.log = o.cp.log =>
              /\ c.size <= o.cp.size => Continues(o.cp.root, c.root)
              /\ o.cp.size <= c.size => Continues(c.root, o.cp.root)
<1>0. SeriesCheckpoints \subseteq Checkpoint
  BY HeldTypes DEF Inv
<1>1. Undisputed(o)
  BY DEF SeriesAdmissible, Bootstrap, Compares, NewSize
<1>2. CASE SeriesRowsAtSize(o.cp.log, o.cp.size) # {}
  <2>1. PICK i \in DOMAIN cosigned :
          IsFirstAtSize(i, o.cp.log, o.cp.size) /\ cosigned[i].cp.root = o.cp.root
    BY <1>1, <1>2 DEF Undisputed, NoSeriesConflict
  <2> DEFINE d == cosigned[i].cp
  <2>2. d \in SeriesCheckpoints /\ d.log = o.cp.log /\ d.size = o.cp.size /\ d.root = o.cp.root
    BY <2>1 DEF IsFirstAtSize, SeriesRowsAtSize, SeriesRowsOf, SeriesCheckpoints
  <2> HIDE DEF d
  <2> QED
    BY <2>2 DEF Inv, RootsMeasure, SeriesAppendOnly
<1>3. CASE Bootstrap(o) /\ RootRecomputes(o)
  <2>1. o.cp.root = o.entries /\ Len(o.entries) = o.cp.size
    BY <1>3, <1>1 DEF RootRecomputes, ComputeRoot, Undisputed, Authentic
  <2>2. \A c \in SeriesCheckpoints : c.log # o.cp.log
    BY <1>3 DEF Bootstrap, SeriesRowsOf, SeriesCheckpoints
  <2> QED
    BY <2>1, <2>2
<1>4. ASSUME NEW i \in DOMAIN cosigned, Compares(o, i, "consistent")
      PROVE  /\ Len(o.cp.root) = o.cp.size
             /\ \A c \in SeriesCheckpoints : c.log = o.cp.log =>
                  /\ c.size <= o.cp.size => Continues(o.cp.root, c.root)
                  /\ o.cp.size <= c.size => Continues(c.root, o.cp.root)
  <2> DEFINE d == cosigned[i].cp
  <2>1. d \in SeriesCheckpoints /\ d \in Checkpoint
    BY <1>0 DEF SeriesCheckpoints
  <2>2. /\ d.log = o.cp.log
        /\ Check(d, o.cp, o.entries) = "consistent"
        /\ \A c \in SeriesCheckpoints : c.log = o.cp.log => AtOrBefore(c, d)
    BY <1>4 DEF Compares, IsRetained, SeriesRowsOf, SeriesCheckpoints
  <2>3. \A c \in SeriesCheckpoints : c.log = o.cp.log => c.size # o.cp.size
    BY <1>4 DEF Compares, NewSize, SeriesRowsAtSize, SeriesRowsOf, SeriesCheckpoints
  <2> HIDE DEF d
  <2>4. /\ o.cp \in Checkpoint /\ o.entries \in Root
        /\ Len(o.entries) = o.cp.size
    BY <1>1, OfferParts DEF Undisputed, Authentic
  <2>5. /\ d.size < o.cp.size
        /\ VerifyConsistency(o.entries, d.size, o.cp.size, d.root, o.cp.root)
    BY <2>1, <2>2, <2>3, <2>4, CheckConsistent
  <2>6. d.root \in Root /\ o.cp.root \in Root /\ d.size \in Nat /\ o.cp.size \in Nat
    BY <2>1, <2>4 DEF Checkpoint
  <2>7. Len(d.root) = d.size
    BY <2>1 DEF Inv, RootsMeasure
  <2>8. Len(o.cp.root) = o.cp.size /\ Continues(o.cp.root, d.root)
    BY <2>4, <2>5, <2>6, <2>7, VerifiedContinues
  <2>9. ASSUME NEW c \in SeriesCheckpoints, c.log = o.cp.log
        PROVE  c.size < o.cp.size /\ Continues(o.cp.root, c.root)
    <3>1. c \in Checkpoint /\ c.size \in Nat /\ c.root \in Root
      BY <1>0 DEF Checkpoint
    <3>2. c.size <= d.size
      BY <2>2, <2>6, <2>9, <3>1 DEF AtOrBefore
    <3>3. Continues(d.root, c.root)
      BY <2>1, <2>2, <2>9, <3>2 DEF Inv, SeriesAppendOnly
    <3> QED
      BY <2>5, <2>6, <2>8, <3>1, <3>2, <3>3, ContinuesTransitive
  <2>10. \A c \in SeriesCheckpoints : c.size \in Nat
    BY <1>0 DEF Checkpoint
  <2> QED
    BY <2>6, <2>8, <2>9, <2>10
<1> QED
  BY <1>2, <1>3, <1>4 DEF SeriesAdmissible

LEMMA AppendOnlyStep == Inv /\ [Next]_vars => RootsMeasure' /\ SeriesAppendOnly'
<1> SUFFICES ASSUME Inv, [Next]_vars PROVE RootsMeasure' /\ SeriesAppendOnly'
  OBVIOUS
<1>1. CASE UNCHANGED vars
  BY <1>1 DEF vars, Inv, RootsMeasure, SeriesAppendOnly, SeriesCheckpoints
<1>2. ASSUME NEW o \in Offers, Decide(o) PROVE RootsMeasure' /\ SeriesAppendOnly'
  <2>1. CASE SeriesCheckpoints' = SeriesCheckpoints
    BY <2>1 DEF Inv, RootsMeasure, SeriesAppendOnly
  <2>2. CASE CosignSeries(o) /\ SeriesCheckpoints' = SeriesCheckpoints \cup {o.cp}
    <3>1. SeriesAdmissible(o)
      BY <2>2 DEF CosignSeries
    <3>2. o.cp.root \in Root
      BY OfferParts
    <3>3. RootsMeasure'
      BY <2>2, <3>1, AdmissibleFits DEF Inv, RootsMeasure
    <3>4. SeriesAppendOnly'
      BY <2>2, <3>1, <3>2, AdmissibleFits, ContinuesReflexive DEF Inv, SeriesAppendOnly
    <3> QED
      BY <3>3, <3>4
  <2> QED
    BY <1>2, <2>1, <2>2, VouchingStep DEF Inv
<1> QED
  BY <1>1, <1>2 DEF Next

-----------------------------------------------------------------------------
(* Refusals and their evidence *)

\* A refusal step either repeats the original pair of a floored log or makes
\* new evidence; both leave evidence that checks and cites what is held.
LEMMA RefusalStep ==
  ASSUME Inv, NEW o \in Offers, Decide(o), refusals' # refusals
  PROVE  \E e \in Refusal :
           /\ refusals' = Append(refusals, e)
           /\ VerifyRefusalClaim(e)
           /\ e.retained \in Held
           /\ e.retained.log = e.offered.log
           /\ e.offered.log = o.cp.log
           /\ e.reason = "equivocation" =>
                \/ /\ equivocations' = equivocations
                   /\ \E i \in EquivocationRefusals(o.cp.log) :
                        e.retained = refusals[i].retained /\ e.offered = refusals[i].offered
                \/ /\ ~Floored(o.cp.log)
                   /\ equivocations' = equivocations \cup {[log |-> e.offered.log, size |-> e.offered.size]}
           /\ e.reason # "equivocation" => equivocations' = equivocations
<1> DEFINE Good(e) ==
      /\ VerifyRefusalClaim(e)
      /\ e.retained \in Held
      /\ e.retained.log = e.offered.log
      /\ e.offered.log = o.cp.log
<1>0. NoProof \in Proof /\ o.cp \in Checkpoint /\ o.entries \in Root /\ o.cp.size \in Nat
  BY OfferParts DEF NoProof, Proof, Root
<1>1. StoreTypeOK
  BY DEF Inv, TypeOK
<1>2. CASE RefuseAtFloor(o)
  <2>1. PICK i \in DOMAIN refusals :
          /\ IsOriginalPair(i, o.cp.log)
          /\ InsertRefusal("equivocation", refusals[i].retained, refusals[i].offered, NoProof)
    BY <1>2 DEF RefuseAtFloor
  <2> DEFINE e == [reason |-> "equivocation", retained |-> refusals[i].retained,
                   offered |-> refusals[i].offered, proof |-> NoProof]
  <2>2. refusals[i] \in Refusal
    BY <1>1, RowTypes
  <2>3. e \in Refusal
    BY <2>2, <1>0 DEF Refusal, Reasons
  <2>4. i \in EquivocationRefusals(o.cp.log)
    BY <2>1 DEF IsOriginalPair
  <2>5. refusals[i].reason = "equivocation" /\ refusals[i].offered.log = o.cp.log
    BY <2>4 DEF EquivocationRefusals
  <2>6. VerifyRefusalClaim(refusals[i])
    BY DEF Inv, RefusalsCheckable
  <2>7. VerifyRefusalClaim(e)
    BY <2>5, <2>6 DEF VerifyRefusalClaim
  <2>8. refusals[i].retained \in Held /\ refusals[i].retained.log = refusals[i].offered.log
    BY DEF Inv, RefusalsCiteHeld
  <2>9. equivocations' = equivocations /\ refusals' = Append(refusals, e)
    BY <1>2, <2>1 DEF RefuseAtFloor, InsertRefusal
  <2> QED
    BY <2>3, <2>4, <2>5, <2>7, <2>8, <2>9
<1>3. CASE RefuseEquivocation(o)
  <2>1. ASSUME NEW c \in Held, RecordEquivocation(c, o.cp),
               c.log = o.cp.log, c.size = o.cp.size, c.root # o.cp.root, ~Floored(o.cp.log)
        PROVE  \E e \in Refusal :
                 /\ refusals' = Append(refusals, e)
                 /\ Good(e)
                 /\ e.reason = "equivocation"
                 /\ equivocations' = equivocations \cup {[log |-> e.offered.log, size |-> e.offered.size]}
    <3> DEFINE e == [reason |-> "equivocation", retained |-> c, offered |-> o.cp, proof |-> NoProof]
    <3>1. e \in Refusal
      BY <1>0, <2>1, HeldTypes DEF Inv, Refusal, Reasons
    <3>2. refusals' = Append(refusals, e)
      BY <2>1 DEF RecordEquivocation, InsertRefusal
    <3>3. equivocations' = equivocations \cup {[log |-> e.offered.log, size |-> e.offered.size]}
      BY <2>1 DEF RecordEquivocation, InsertEquivocation
    <3>4. VerifyRefusalClaim(e)
      BY <2>1 DEF VerifyRefusalClaim
    <3> QED
      BY <2>1, <3>1, <3>2, <3>3, <3>4
  <2> HIDE DEF Good
  <2>2. PICK held \in Held : EquivocatesWith(o, held) /\ RecordEquivocation(held, o.cp)
    BY <1>3 DEF RefuseEquivocation
  <2>3. CASE \E r \in rotations : IsRotationConflict(r, o.cp) /\ held = r.cp
    <3>1. held.log = o.cp.log /\ held.size = o.cp.size /\ held.root # o.cp.root
      BY <2>3 DEF IsRotationConflict, RotationConflicts
    <3> QED
      BY <1>3, <2>1, <2>2, <3>1 DEF EquivocatesWith, Good
  <2>4. CASE \E i \in DOMAIN cosigned : SeriesConflict(i, o.cp) /\ held = cosigned[i].cp
    <3>1. held.log = o.cp.log /\ held.size = o.cp.size /\ held.root # o.cp.root
      BY <2>4 DEF SeriesConflict, IsFirstAtSize, SeriesRowsAtSize, SeriesRowsOf
    <3> QED
      BY <1>3, <2>1, <2>2, <3>1 DEF EquivocatesWith, Good
  <2> QED
    BY <2>2, <2>3, <2>4 DEF EquivocatesWith
<1>4. CASE RefuseSizeRegression(o)
  <2>1. PICK i \in DOMAIN cosigned :
          /\ Compares(o, i, "size-regression")
          /\ InsertRefusal("size-regression", cosigned[i].cp, o.cp, NoProof)
    BY <1>4 DEF RefuseSizeRegression
  <2> DEFINE c == cosigned[i].cp
             e == [reason |-> "size-regression", retained |-> c, offered |-> o.cp, proof |-> NoProof]
  <2>2. c \in Held /\ c \in Checkpoint /\ c.log = o.cp.log
    BY <1>1, <2>1, RowTypes DEF Held, SeriesCheckpoints, Compares, IsRetained, SeriesRowsOf
  <2>3. o.cp.size < c.size
    BY <2>1 DEF Compares, Check
  <2>4. refusals' = Append(refusals, e) /\ equivocations' = equivocations
    BY <1>4, <2>1 DEF RefuseSizeRegression, InsertRefusal
  <2> HIDE DEF c
  <2>5. e \in Refusal /\ e.reason = "size-regression"
    BY <1>0, <2>2 DEF Refusal, Reasons
  <2>6. Good(e)
    BY <2>2, <2>3 DEF VerifyRefusalClaim
  <2> QED
    BY <2>4, <2>5, <2>6
<1>5. CASE RefuseExtension(o)
  <2>1. PICK i \in DOMAIN cosigned :
          /\ Compares(o, i, "extension-failed")
          /\ InsertRefusal("extension-failed", cosigned[i].cp, o.cp,
               [from |-> cosigned[i].cp.size, to |-> o.cp.size, leaves |-> o.entries])
    BY <1>5 DEF RefuseExtension
  <2> DEFINE c == cosigned[i].cp
             proof == [from |-> c.size, to |-> o.cp.size, leaves |-> o.entries]
             e == [reason |-> "extension-failed", retained |-> c, offered |-> o.cp, proof |-> proof]
  <2>2. c \in Held /\ c \in Checkpoint /\ c.log = o.cp.log
    BY <1>1, <2>1, RowTypes DEF Held, SeriesCheckpoints, Compares, IsRetained, SeriesRowsOf
  <2>3. ~VerifyConsistency(o.entries, c.size, o.cp.size, c.root, o.cp.root)
    BY <2>1 DEF Compares, Check
  <2>4. refusals' = Append(refusals, e) /\ equivocations' = equivocations
    BY <1>5, <2>1 DEF RefuseExtension, InsertRefusal
  <2> HIDE DEF c
  <2>5. proof \in Proof
    BY <1>0, <2>2 DEF Proof, Checkpoint
  <2>6. e \in Refusal /\ e.reason = "extension-failed"
    BY <1>0, <2>2, <2>5 DEF Refusal, Reasons
  <2>7. Good(e)
    BY <2>2, <2>3 DEF VerifyRefusalClaim, VerifyExtensionFailure
  <2> QED
    BY <2>4, <2>6, <2>7
<1>6. CASE CosignSeries(o) \/ CosignRotation(o) \/ Reject(o)
  BY <1>6 DEF CosignSeries, CosignRotation, Reject, vars
<1> QED
  BY <1>2, <1>3, <1>4, <1>5, <1>6 DEF Decide

\* Leaves that continue a root of length m verify against it.
LEMMA HonestVerifies ==
  ASSUME NEW s \in Root, NEW m \in Nat, NEW n \in Nat, m < n, Len(s) = n,
         NEW r \in Root, Len(r) = m, Continues(s, r)
  PROVE  VerifyConsistency(s, m, n, r, s)
<1> DEFINE rest == SubSeq(s, m + 1, n)
<1>1. s = SubSeq(s, 1, n)
  BY DEF Root
<1>2. r = SubSeq(s, 1, m)
  BY DEF Root, Continues
<1>3. rest \in Seq(Leaves) /\ Len(rest) = n - m /\ \A k \in 1..(n - m) : rest[k] = s[m + k]
  BY DEF Root
<1>4. s = r \o rest
  <2> HIDE DEF rest
  <2>1. (r \o rest) \in Seq(Leaves) /\ Len(r \o rest) = n
    BY <1>3, ConcatExtends DEF Root
  <2>2. \A k \in 1..n : (r \o rest)[k] = s[k]
    <3> SUFFICES ASSUME NEW k \in 1..n PROVE (r \o rest)[k] = s[k]
      OBVIOUS
    <3>1. CASE k <= m
      <4>1. (r \o rest)[k] = r[k]
        BY <1>3, ConcatExtends, <3>1 DEF Root
      <4> QED
        BY <3>1, <4>1 DEF Continues
    <3>2. CASE k > m
      <4>1. k - m \in 1..(n - m) /\ m + (k - m) = k
        BY <3>2
      <4>2. (r \o rest)[k] = rest[k - m]
        <5>1. r \in Seq(Leaves) /\ Len(r) = m /\ k \in 1..(Len(r) + Len(rest)) /\ k > Len(r)
          BY <1>3, <3>2 DEF Root
        <5> QED
          BY <1>3, <5>1
      <4>3. rest[k - m] = s[m + (k - m)]
        BY <1>3, <4>1
      <4> QED
        BY <4>1, <4>2, <4>3
    <3>3. k <= m \/ k > m
      OBVIOUS
    <3> QED
      BY <3>1, <3>2, <3>3, Zenon
  <2> QED
    BY <2>1, <2>2, SeqEqual DEF Root
<1> QED
  BY <1>1, <1>2, <1>4 DEF VerifyConsistency

LEMMA HonestStep == Inv /\ HonestNeverRefused /\ [Next]_vars => HonestNeverRefused'
<1> SUFFICES ASSUME Inv, HonestNeverRefused, [Next]_vars PROVE HonestNeverRefused'
  OBVIOUS
<1>0. StoreTypeOK
  BY DEF Inv, TypeOK
<1>1. CASE refusals' = refusals
  BY <1>1 DEF HonestNeverRefused
<1>2. ASSUME NEW e \in Refusal, refusals' = Append(refusals, e),
             e.reason = "extension-failed" =>
               ~(e.proof.leaves = e.offered.root /\ Continues(e.offered.root, e.retained.root))
      PROVE  HonestNeverRefused'
  <2>1. \A i \in DOMAIN refusals' :
          (i \in DOMAIN refusals /\ refusals'[i] = refusals[i]) \/ refusals'[i] = e
    BY <1>0, <1>2, InsertRefusalAppends
  <2> QED
    BY <1>2, <2>1 DEF HonestNeverRefused
<1>3. ASSUME NEW o \in Offers, RefuseExtension(o)
      PROVE  HonestNeverRefused'
  <2>1. PICK i \in DOMAIN cosigned :
          /\ Compares(o, i, "extension-failed")
          /\ InsertRefusal("extension-failed", cosigned[i].cp, o.cp,
               [from |-> cosigned[i].cp.size, to |-> o.cp.size, leaves |-> o.entries])
    BY <1>3 DEF RefuseExtension
  <2> DEFINE c == cosigned[i].cp
             proof == [from |-> c.size, to |-> o.cp.size, leaves |-> o.entries]
             e == [reason |-> "extension-failed", retained |-> c, offered |-> o.cp, proof |-> proof]
  <2>2. c \in Checkpoint /\ Len(c.root) = c.size
    BY <1>0, <2>1, RowTypes DEF Inv, RootsMeasure, SeriesCheckpoints
  <2>3. o.cp \in Checkpoint /\ o.entries \in Root /\ Len(o.entries) = o.cp.size
    BY <2>1, OfferParts DEF Compares, NewSize, Undisputed, Authentic
  <2>4. /\ ~VerifyConsistency(o.entries, c.size, o.cp.size, c.root, o.cp.root)
        /\ ~(o.cp.size < c.size) /\ o.cp.size # c.size
    BY <2>1 DEF Compares, Check
  <2>5. refusals' = Append(refusals, e)
    BY <2>1 DEF InsertRefusal
  <2> HIDE DEF c
  <2>6. e \in Refusal
    BY <2>2, <2>3 DEF Refusal, Reasons, Proof, Checkpoint
  <2>7. c.root \in Root /\ c.size \in Nat /\ o.cp.size \in Nat /\ c.size < o.cp.size
    BY <2>2, <2>3, <2>4 DEF Checkpoint
  <2>8. ~(o.entries = o.cp.root /\ Continues(o.cp.root, c.root))
    BY <2>2, <2>3, <2>4, <2>7, HonestVerifies
  <2> QED
    BY <1>2, <2>5, <2>6, <2>8
<1>4. ASSUME NEW o \in Offers, Decide(o), ~RefuseExtension(o), refusals' # refusals
      PROVE  HonestNeverRefused'
  <2>1. RefuseAtFloor(o) \/ RefuseEquivocation(o) \/ RefuseSizeRegression(o)
    BY <1>4 DEF Decide, CosignSeries, CosignRotation, Reject, vars
  <2>2. PICK e \in Refusal : refusals' = Append(refusals, e)
    BY <1>4, RefusalStep
  <2>3. ASSUME NEW r, NEW c, NEW d, NEW p, InsertRefusal(r, c, d, p), r # "extension-failed"
        PROVE  e.reason # "extension-failed"
    <3> DEFINE f == [reason |-> r, retained |-> c, offered |-> d, proof |-> p]
    <3>1. Append(refusals, e) = Append(refusals, f)
      BY <2>2, <2>3 DEF InsertRefusal
    <3>2. \A x : Append(refusals, x)[Len(refusals) + 1] = x
      BY <1>0 DEF StoreTypeOK
    <3>3. e = f
      BY <3>1, <3>2
    <3> QED
      BY <2>3, <3>3
  <2>4. e.reason # "extension-failed"
    <3>1. CASE RefuseAtFloor(o)
      BY <2>3, <3>1 DEF RefuseAtFloor
    <3>2. CASE RefuseEquivocation(o)
      BY <2>3, <3>2 DEF RefuseEquivocation, RecordEquivocation
    <3>3. CASE RefuseSizeRegression(o)
      BY <2>3, <3>3 DEF RefuseSizeRegression
    <3> QED
      BY <2>1, <3>1, <3>2, <3>3
  <2> QED
    BY <1>2, <2>2, <2>4
<1> QED
  BY <1>1, <1>3, <1>4 DEF Next, vars

\* Without a refusal no floor is recorded.
LEMMA NoRefusalNoFloor ==
  ASSUME TypeOK, NEW o \in Offers, Decide(o), refusals' = refusals
  PROVE  equivocations' = equivocations
<1>1. \A e : Append(refusals, e) # refusals
  BY DEF TypeOK, StoreTypeOK
<1>2. ~RefuseEquivocation(o)
  BY <1>1 DEF RefuseEquivocation, RecordEquivocation, InsertRefusal
<1> QED
  BY <1>2 DEF Decide, RefuseAtFloor, CosignSeries, RefuseSizeRegression, RefuseExtension,
     CosignRotation, Reject, vars

LEMMA RefusalsStep == Inv /\ [Next]_vars => RefusalsCheckable' /\ RefusalsCiteHeld'
<1> SUFFICES ASSUME Inv, [Next]_vars PROVE RefusalsCheckable' /\ RefusalsCiteHeld'
  OBVIOUS
<1>0. StoreTypeOK
  BY DEF Inv, TypeOK
<1>1. ASSUME UNCHANGED refusals, Held \subseteq Held'
      PROVE  RefusalsCheckable' /\ RefusalsCiteHeld'
  BY <1>1 DEF Inv, RefusalsCheckable, RefusalsCiteHeld
<1>2. CASE UNCHANGED vars
  BY <1>1, <1>2 DEF vars, Held, SeriesCheckpoints, RotationCheckpoints
<1>3. ASSUME NEW o \in Offers, Decide(o)
      PROVE  RefusalsCheckable' /\ RefusalsCiteHeld'
  <2>1. Held \subseteq Held'
    BY <1>3, VouchingStep DEF Inv
  <2>2. CASE refusals' = refusals
    BY <1>1, <2>1, <2>2
  <2>3. CASE refusals' # refusals
    <3>1. PICK e \in Refusal :
            /\ refusals' = Append(refusals, e)
            /\ VerifyRefusalClaim(e) /\ e.retained \in Held /\ e.retained.log = e.offered.log
      BY <1>3, <2>3, RefusalStep
    <3>2. \A i \in DOMAIN refusals' :
            (i \in DOMAIN refusals /\ refusals'[i] = refusals[i]) \/ refusals'[i] = e
      BY <1>0, <3>1, InsertRefusalAppends
    <3>3. RefusalsCheckable'
      BY <3>1, <3>2 DEF Inv, RefusalsCheckable
    <3>4. RefusalsCiteHeld'
      BY <2>1, <3>1, <3>2 DEF Inv, RefusalsCiteHeld
    <3> QED
      BY <3>3, <3>4
  <2> QED
    BY <2>2, <2>3
<1> QED
  BY <1>2, <1>3 DEF Next

LEMMA FloorStep == Inv /\ [Next]_vars => FloorHasEvidence'
<1> SUFFICES ASSUME Inv, [Next]_vars PROVE FloorHasEvidence'
  OBVIOUS
<1>0. StoreTypeOK
  BY DEF Inv, TypeOK
<1>1. ASSUME UNCHANGED <<refusals, equivocations>> PROVE FloorHasEvidence'
  BY <1>1 DEF Inv, FloorHasEvidence, Floored, EquivocationRefusals, IsFloor
<1>2. CASE UNCHANGED vars
  BY <1>1, <1>2 DEF vars
<1>3. ASSUME NEW o \in Offers, Decide(o) PROVE FloorHasEvidence'
  <2>1. CASE refusals' = refusals
    BY <1>1, <1>3, <2>1, NoRefusalNoFloor DEF Inv
  <2>2. CASE refusals' # refusals
    <3>1. PICK e \in Refusal :
            /\ refusals' = Append(refusals, e)
            /\ e.offered.log = o.cp.log
            /\ e.reason = "equivocation" =>
                \/ /\ equivocations' = equivocations
                   /\ \E i \in EquivocationRefusals(o.cp.log) :
                        e.retained = refusals[i].retained /\ e.offered = refusals[i].offered
                \/ /\ ~Floored(o.cp.log)
                   /\ equivocations' =
                        equivocations \cup {[log |-> e.offered.log, size |-> e.offered.size]}
            /\ e.reason # "equivocation" => equivocations' = equivocations
      BY <1>3, <2>2, RefusalStep
    <3>2. /\ \A i \in DOMAIN refusals : i \in DOMAIN refusals' /\ refusals'[i] = refusals[i]
          /\ \A i \in DOMAIN refusals' :
               \/ i \in DOMAIN refusals
               \/ i \notin DOMAIN refusals /\ refusals'[i] = e
          /\ \E k \in DOMAIN refusals' : refusals'[k] = e
      BY <1>0, <3>1, InsertRefusalAppends
    <3> DEFINE FloorOf(l) ==
          /\ Floored(l) <=> EquivocationRefusals(l) # {}
          /\ \A i \in EquivocationRefusals(l) :
               /\ IsFloor(refusals[i].offered.size, l)
               /\ \A j \in EquivocationRefusals(l) :
                    /\ refusals[j].retained = refusals[i].retained
                    /\ refusals[j].offered = refusals[i].offered
    <3>3. SUFFICES ASSUME NEW l \in Logs PROVE FloorOf(l)'
      BY DEF FloorHasEvidence
    <3>4. FloorOf(l)
      BY DEF Inv, FloorHasEvidence
    <3>5. CASE l # o.cp.log
      <4>1. EquivocationRefusals(l)' = EquivocationRefusals(l)
        BY <3>1, <3>2, <3>5 DEF EquivocationRefusals
      <4>2. \A f : f.log = l => (f \in equivocations' <=> f \in equivocations)
        BY <3>1, <3>5
      <4>3. \A i \in EquivocationRefusals(l) : refusals'[i] = refusals[i]
        BY <3>2 DEF EquivocationRefusals
      <4>4. Floored(l)' <=> Floored(l)
        BY <4>2 DEF Floored
      <4>5. \A n : IsFloor(n, l)' <=> IsFloor(n, l)
        BY <4>2 DEF IsFloor
      <4> QED
        BY <3>4, <4>1, <4>3, <4>4, <4>5
    <3>6. CASE l = o.cp.log /\ e.reason # "equivocation"
      <4>1. EquivocationRefusals(l)' = EquivocationRefusals(l)
        BY <3>1, <3>2, <3>6 DEF EquivocationRefusals
      <4>2. \A i \in EquivocationRefusals(l) : refusals'[i] = refusals[i]
        BY <3>2 DEF EquivocationRefusals
      <4>3. (Floored(l)' <=> Floored(l)) /\ (\A n : IsFloor(n, l)' <=> IsFloor(n, l))
        BY <3>1, <3>6 DEF Floored, IsFloor
      <4> QED
        BY <3>4, <4>1, <4>2, <4>3
    <3>7. ASSUME l = o.cp.log, e.reason = "equivocation",
                 equivocations' = equivocations,
                 NEW i \in EquivocationRefusals(l),
                 e.retained = refusals[i].retained, e.offered = refusals[i].offered
          PROVE  FloorOf(l)'
      <4>1. \A j \in EquivocationRefusals(l)' :
              /\ refusals'[j].retained = refusals[i].retained
              /\ refusals'[j].offered = refusals[i].offered
        BY <3>2, <3>4, <3>7 DEF EquivocationRefusals
      <4>2. Floored(l)'
        BY <3>4, <3>7 DEF Floored
      <4>3. \A n : IsFloor(n, l)' <=> IsFloor(n, l)
        BY <3>7 DEF IsFloor
      <4>4. EquivocationRefusals(l)' # {}
        BY <3>1, <3>2, <3>7 DEF EquivocationRefusals
      <4>5. \A j \in EquivocationRefusals(l)' : IsFloor(refusals'[j].offered.size, l)
        BY <3>4, <3>7, <4>1
      <4> QED
        BY <4>1, <4>2, <4>3, <4>4, <4>5
    <3>8. ASSUME l = o.cp.log, e.reason = "equivocation", ~Floored(l),
                 equivocations' = equivocations \cup {[log |-> e.offered.log, size |-> e.offered.size]}
          PROVE  FloorOf(l)'
      <4>1. EquivocationRefusals(l) = {}
        BY <3>4, <3>8
      <4>2. \A j \in EquivocationRefusals(l)' : refusals'[j] = e
        BY <3>2, <4>1 DEF EquivocationRefusals
      <4>3. EquivocationRefusals(l)' # {}
        BY <3>1, <3>2, <3>8 DEF EquivocationRefusals
      <4>4. Floored(l)'
        <5> DEFINE f == [log |-> e.offered.log, size |-> e.offered.size]
        <5>1. f \in equivocations' /\ f.log = l
          BY <3>1, <3>8
        <5> HIDE DEF f
        <5> QED
          BY <5>1 DEF Floored
      <4>5. e.offered.size \in Nat
        BY DEF Refusal, Checkpoint
      <4>6. IsFloor(e.offered.size, l)'
        BY <3>1, <3>8, <4>5 DEF Floored, IsFloor
      <4> QED
        BY <4>2, <4>3, <4>4, <4>6
    <3> QED
      BY <3>1, <3>5, <3>6, <3>7, <3>8
  <2> QED
    BY <2>1, <2>2
<1> QED
  BY <1>2, <1>3 DEF Next

-----------------------------------------------------------------------------
(* The "first row" queries *)

LEMMA AtOrBeforeOrders ==
  /\ \A c \in Checkpoint : AtOrBefore(c, c)
  /\ \A c, d \in Checkpoint : AtOrBefore(c, d) \/ AtOrBefore(d, c)
  /\ \A c, d, e \in Checkpoint : AtOrBefore(c, d) /\ AtOrBefore(d, e) => AtOrBefore(c, e)
  BY DEF AtOrBefore, Checkpoint

\* Filing a series row leaves every log with rows one that is retained.
LEMMA RetainedStep ==
  ASSUME Inv, NEW o \in Offers, CosignSeries(o), NEW l \in Logs, SeriesRowsOf(l)' # {}
  PROVE  \E i \in DOMAIN cosigned' : IsRetained(i, l)'
<1> DEFINE c == o.cp
<1>1. /\ \A i \in DOMAIN cosigned : i \in DOMAIN cosigned' /\ cosigned'[i] = cosigned[i]
      /\ \A i \in DOMAIN cosigned' :
           \/ i \in DOMAIN cosigned
           \/ i \notin DOMAIN cosigned /\ cosigned'[i].cp = c
      /\ SeriesCheckpoints' = SeriesCheckpoints \cup {c}
  BY OfferParts, InsertCosignedAdds DEF Inv, TypeOK, CosignSeries
<1>2. c \in Checkpoint /\ \A i \in DOMAIN cosigned : cosigned[i].cp \in Checkpoint
  BY OfferParts, RowTypes DEF Inv, TypeOK
<1>3. \E k \in DOMAIN cosigned' : cosigned'[k].cp = c
  BY <1>1 DEF SeriesCheckpoints
<1> HIDE DEF c
<1>4. CASE SeriesRowsOf(l) = {}
  <2>1. PICK i \in DOMAIN cosigned' : i \in SeriesRowsOf(l)'
    BY DEF SeriesRowsOf
  <2>2. \A j \in SeriesRowsOf(l)' : cosigned'[j].cp = c
    BY <1>1, <1>4 DEF SeriesRowsOf
  <2> QED
    BY <2>1, <2>2, <1>2, AtOrBeforeOrders DEF IsRetained
<1>5. CASE SeriesRowsOf(l) # {}
  <2>1. PICK i \in DOMAIN cosigned : IsRetained(i, l)
    BY <1>5 DEF Inv, QueriesAnswer
  <2> DEFINE d == cosigned[i].cp
  <2>2. /\ i \in DOMAIN cosigned' /\ cosigned'[i].cp = d /\ d \in Checkpoint /\ d.log = l
        /\ i \in SeriesRowsOf(l)'
    BY <1>1, <1>2, <2>1 DEF IsRetained, SeriesRowsOf
  <2>3. \A j \in SeriesRowsOf(l)' : AtOrBefore(cosigned'[j].cp, d) \/ (cosigned'[j].cp = c /\ c.log = l)
    BY <1>1, <2>1 DEF IsRetained, SeriesRowsOf
  <2> HIDE DEF d
  <2>4. CASE AtOrBefore(c, d)
    BY <2>2, <2>3, <2>4 DEF IsRetained
  <2>5. CASE c.log # l
    BY <2>2, <2>3, <2>5 DEF IsRetained
  <2>6. CASE AtOrBefore(d, c) /\ c.log = l
    <3>1. PICK k \in DOMAIN cosigned' : cosigned'[k].cp = c
      BY <1>3
    <3>2. k \in SeriesRowsOf(l)'
      BY <2>6, <3>1 DEF SeriesRowsOf
    <3>3. \A j \in SeriesRowsOf(l)' : cosigned'[j].cp \in Checkpoint
      BY <1>1, <1>2 DEF SeriesRowsOf
    <3>4. \A j \in SeriesRowsOf(l)' : AtOrBefore(cosigned'[j].cp, c)
      BY <1>2, <2>2, <2>3, <2>6, <3>3, AtOrBeforeOrders
    <3> QED
      BY <3>1, <3>2, <3>4 DEF IsRetained
  <2> QED
    BY <1>2, <2>2, <2>4, <2>5, <2>6, AtOrBeforeOrders
<1> QED
  BY <1>4, <1>5

\* Filing a series row leaves every size with rows one that is first.
LEMMA FirstStep ==
  ASSUME Inv, NEW o \in Offers, CosignSeries(o), NEW d \in SeriesCheckpoints'
  PROVE  \E i \in DOMAIN cosigned' : IsFirstAtSize(i, d.log, d.size)'
<1> DEFINE c == o.cp
<1>1. /\ \A i \in DOMAIN cosigned : i \in DOMAIN cosigned' /\ cosigned'[i] = cosigned[i]
      /\ \A i \in DOMAIN cosigned' :
           \/ i \in DOMAIN cosigned
           \/ i \notin DOMAIN cosigned /\ cosigned'[i].cp = c
      /\ \A i, j \in DOMAIN cosigned' \ DOMAIN cosigned : i = j
      /\ SeriesCheckpoints' = SeriesCheckpoints \cup {c}
      /\ cosigned' \in Seq(SeriesRow)
  BY OfferParts, InsertCosignedAdds DEF Inv, TypeOK, CosignSeries
<1>2. /\ DOMAIN cosigned = 1..Len(cosigned) /\ Len(cosigned) \in Nat
      /\ DOMAIN cosigned' = 1..Len(cosigned') /\ Len(cosigned') \in Nat
  BY <1>1 DEF Inv, TypeOK, StoreTypeOK
<1>3. \A i \in DOMAIN cosigned, j \in DOMAIN cosigned' \ DOMAIN cosigned : i <= j
  BY <1>2
<1>6. \E k \in DOMAIN cosigned' : cosigned'[k].cp = c
  <2>1. c \in SeriesCheckpoints'
    BY <1>1
  <2> QED
    BY <2>1 DEF SeriesCheckpoints
<1> HIDE DEF c
<1>4. CASE \E b \in SeriesCheckpoints : b.log = d.log /\ b.size = d.size
  <2>1. PICK i \in DOMAIN cosigned : IsFirstAtSize(i, d.log, d.size)
    BY <1>4 DEF Inv, QueriesAnswer
  <2>2. i \in SeriesRowsAtSize(d.log, d.size)'
    BY <1>1, <2>1 DEF IsFirstAtSize, SeriesRowsAtSize, SeriesRowsOf
  <2>3. \A j \in SeriesRowsAtSize(d.log, d.size)' : i <= j
    BY <1>1, <1>3, <2>1 DEF IsFirstAtSize, SeriesRowsAtSize, SeriesRowsOf
  <2> QED
    BY <1>1, <2>1, <2>2, <2>3 DEF IsFirstAtSize
<1>5. CASE ~\E b \in SeriesCheckpoints : b.log = d.log /\ b.size = d.size
  <2>1. d = c
    BY <1>1, <1>5
  <2>2. PICK k \in DOMAIN cosigned' : cosigned'[k].cp = c
    BY <1>6
  <2>3. k \in SeriesRowsAtSize(d.log, d.size)'
    BY <2>1, <2>2 DEF SeriesRowsAtSize, SeriesRowsOf
  <2>4. \A j \in SeriesRowsAtSize(d.log, d.size)' : j \notin DOMAIN cosigned
    BY <1>1, <1>5 DEF SeriesRowsAtSize, SeriesRowsOf, SeriesCheckpoints
  <2>5. \A j \in SeriesRowsAtSize(d.log, d.size)' : k = j
    BY <1>1, <2>3, <2>4 DEF SeriesRowsAtSize, SeriesRowsOf
  <2>6. \A j \in SeriesRowsAtSize(d.log, d.size)' : k <= j
    BY <1>2, <2>5
  <2> QED
    BY <2>2, <2>3, <2>6 DEF IsFirstAtSize
<1> QED
  BY <1>4, <1>5

\* A rotation row that is filed is the one served from then on.
LEMMA NewRowServed ==
  ASSUME TypeOK, NEW o \in Offers, InsertRotation(Anchors(o), o.cp, o.at),
         NEW q \in rotations' \ rotations
  PROVE  /\ q.cp = o.cp /\ q.index \in Anchors(o)
         /\ IsServed(q, q.cp.log, q.index)'
<1>1. /\ rotations \subseteq rotations'
      /\ \A r \in rotations' \ rotations :
           r.index \in Anchors(o) /\ r.cp = o.cp /\ ~Superseded(r.index, o.cp)
  BY OfferParts, InsertRotationAdds DEF TypeOK
<1>2. o.cp \in Checkpoint /\ \A r \in rotations : r.cp \in Checkpoint
  BY OfferParts, RowTypes DEF TypeOK
<1>3. \A r \in RotationRowsOf(q.cp.log, q.index) : AtOrBefore(q.cp, r.cp)
  <2> SUFFICES ASSUME NEW r \in RotationRowsOf(q.cp.log, q.index) PROVE AtOrBefore(q.cp, r.cp)
    OBVIOUS
  <2>1. ~AtOrBefore(r.cp, o.cp)
    BY <1>1 DEF Superseded
  <2>2. r.cp \in Checkpoint
    BY <1>2 DEF RotationRowsOf
  <2> QED
    BY <1>1, <1>2, <2>1, <2>2, AtOrBeforeOrders
<1>4. \A r \in RotationRowsOf(q.cp.log, q.index)' : AtOrBefore(q.cp, r.cp)
  BY <1>1, <1>2, <1>3, AtOrBeforeOrders DEF RotationRowsOf
<1>5. q \in RotationRowsOf(q.cp.log, q.index)'
  BY DEF RotationRowsOf
<1> QED
  BY <1>1, <1>4, <1>5 DEF IsServed

\* What is served for a rotation only ever moves to an earlier checkpoint.
LEMMA ServedMovesEarlier ==
  ASSUME TypeOK, NEW o \in Offers,
         rotations' = rotations \/ InsertRotation(Anchors(o), o.cp, o.at),
         NEW l, NEW x, NEW r \in rotations, IsServed(r, l, x)
  PROVE  \E q \in rotations' : IsServed(q, l, x)' /\ AtOrBefore(q.cp, r.cp)
<1>0. \A q \in rotations : q.cp \in Checkpoint
  BY RowTypes DEF TypeOK
<1>1. CASE rotations' = rotations
  BY <1>0, <1>1, AtOrBeforeOrders DEF IsServed, RotationRowsOf
<1>2. CASE InsertRotation(Anchors(o), o.cp, o.at)
  <2>1. rotations \subseteq rotations'
    BY <1>2, OfferParts, InsertRotationAdds DEF TypeOK
  <2>2. CASE \E q \in rotations' \ rotations : q.cp.log = l /\ q.index = x
    <3>1. PICK q \in rotations' \ rotations : q.cp.log = l /\ q.index = x
      BY <2>2
    <3>2. IsServed(q, l, x)'
      BY <1>2, <3>1, NewRowServed
    <3>3. r \in RotationRowsOf(l, x)'
      BY <2>1 DEF IsServed, RotationRowsOf
    <3> QED
      BY <3>2, <3>3 DEF IsServed
  <2>3. CASE ~\E q \in rotations' \ rotations : q.cp.log = l /\ q.index = x
    <3>1. RotationRowsOf(l, x)' = RotationRowsOf(l, x)
      BY <2>1, <2>3 DEF RotationRowsOf
    <3>2. IsServed(r, l, x)'
      BY <3>1 DEF IsServed
    <3> QED
      BY <1>0, <2>1, <3>2, AtOrBeforeOrders
  <2> QED
    BY <2>2, <2>3
<1> QED
  BY <1>1, <1>2

LEMMA RotationsMove ==
  ASSUME NEW o \in Offers, Decide(o)
  PROVE  rotations' = rotations \/ InsertRotation(Anchors(o), o.cp, o.at)
BY DEF Decide, RefuseAtFloor, RefuseEquivocation, RecordEquivocation, CosignSeries,
   RefuseSizeRegression, RefuseExtension, CosignRotation, Reject, vars

LEMMA QueriesStep == Inv /\ [Next]_vars => QueriesAnswer'
<1> SUFFICES ASSUME Inv, [Next]_vars PROVE QueriesAnswer'
  OBVIOUS
<1> DEFINE Retains == \A l \in Logs : SeriesRowsOf(l) # {} => \E i \in DOMAIN cosigned : IsRetained(i, l)
           Firsts == \A c \in SeriesCheckpoints :
                       \E i \in DOMAIN cosigned : IsFirstAtSize(i, c.log, c.size)
           Serves == \A q \in rotations : \E r \in rotations : IsServed(r, q.cp.log, q.index)
<1>0. Retains /\ Firsts /\ Serves
  BY DEF Inv, QueriesAnswer
<1>1. ASSUME cosigned' = cosigned PROVE Retains' /\ Firsts'
  BY <1>0, <1>1 DEF SeriesRowsOf, IsRetained, SeriesCheckpoints, IsFirstAtSize, SeriesRowsAtSize
<1>2. ASSUME rotations' = rotations PROVE Serves'
  BY <1>0, <1>2 DEF IsServed, RotationRowsOf
<1>3. CASE UNCHANGED vars
  BY <1>1, <1>2, <1>3 DEF vars, QueriesAnswer
<1>4. ASSUME NEW o \in Offers, Decide(o) PROVE QueriesAnswer'
  <2>1. Retains' /\ Firsts'
    <3>1. cosigned' = cosigned \/ CosignSeries(o)
      BY <1>4 DEF Decide, RefuseAtFloor, RefuseEquivocation, RecordEquivocation,
         RefuseSizeRegression, RefuseExtension, CosignRotation, Reject, vars
    <3>2. CASE CosignSeries(o)
      BY <3>2, RetainedStep, FirstStep
    <3> QED
      BY <1>1, <3>1, <3>2
  <2>2. ASSUME NEW q \in rotations'
        PROVE  \E r \in rotations' : IsServed(r, q.cp.log, q.index)'
    <3>0. TypeOK
      BY DEF Inv
    <3>1. CASE q \in rotations
      <4>1. PICK r \in rotations : IsServed(r, q.cp.log, q.index)
        BY <1>0, <3>1
      <4> QED
        BY <1>4, <3>0, <4>1, RotationsMove, ServedMovesEarlier
    <3>2. CASE q \notin rotations
      BY <1>4, <3>0, <3>2, RotationsMove, NewRowServed
    <3> QED
      BY <3>1, <3>2
  <2> QED
    BY <2>1, <2>2 DEF QueriesAnswer
<1> QED
  BY <1>3, <1>4 DEF Next

\* The rotation route serves, for every rotation an anchor was offered for, a
\* checkpoint at or before that anchor.
LEMMA AnchorServed ==
  ASSUME Inv, NEW o \in Offers, InsertRotation(Anchors(o), o.cp, o.at), NEW x \in Anchors(o)
  PROVE  \E q \in rotations' : IsServed(q, o.cp.log, x)' /\ AtOrBefore(q.cp, o.cp)
<1> DEFINE row == [index |-> x, cp |-> o.cp, at |-> o.at]
<1>0. TypeOK /\ o.cp \in Checkpoint /\ \A r \in rotations : r.cp \in Checkpoint
  BY OfferParts, RowTypes DEF Inv, TypeOK
<1>1. CASE Superseded(x, o.cp)
  <2>1. PICK r \in rotations :
          r \in RotationRowsOf(o.cp.log, x) /\ r.cp.log = o.cp.log /\ r.index = x /\ AtOrBefore(r.cp, o.cp)
    BY <1>1 DEF Superseded, RotationRowsOf
  <2>2. PICK p \in rotations : IsServed(p, o.cp.log, x)
    BY <2>1 DEF Inv, QueriesAnswer
  <2>3. AtOrBefore(p.cp, r.cp)
    BY <2>1, <2>2 DEF IsServed
  <2>4. PICK q \in rotations' : IsServed(q, o.cp.log, x)' /\ AtOrBefore(q.cp, p.cp)
    BY <1>0, <2>2, ServedMovesEarlier
  <2>5. \A q1 \in rotations' : q1.cp \in Checkpoint
    BY <1>0, OfferParts, InsertRotationAdds DEF TypeOK, RotationRow
  <2> QED
    BY <1>0, <2>1, <2>3, <2>4, <2>5, AtOrBeforeOrders
<1>2. CASE ~Superseded(x, o.cp)
  <2>1. row \in rotations' /\ row.cp = o.cp /\ row.index = x
    BY <1>2 DEF InsertRotation
  <2>2. row \notin rotations
    BY <1>0, <1>2, <2>1, AtOrBeforeOrders DEF Superseded, RotationRowsOf
  <2> HIDE DEF row
  <2>3. IsServed(row, row.cp.log, row.index)'
    BY <1>0, <2>1, <2>2, NewRowServed
  <2> QED
    BY <1>0, <2>1, <2>3, AtOrBeforeOrders
<1> QED
  BY <1>1, <1>2

\* A step issues at most the offer's cosignature, filed as it is issued.
LEMMA IssueStep ==
  ASSUME NEW o \in Offers, Decide(o), NEW s \in issued', s \notin issued
  PROVE  /\ s.cp = o.cp /\ s.anchors = Anchors(o)
         /\ s.series => CosignSeries(o)
         /\ InsertRotation(Anchors(o), o.cp, o.at)
<1>1. CASE CosignSeries(o)
  BY <1>1 DEF CosignSeries
<1>2. CASE CosignRotation(o)
  BY <1>2 DEF CosignRotation
<1>3. CASE issued' = issued
  BY <1>3
<1> QED
  BY <1>1, <1>2, <1>3 DEF Decide, RefuseAtFloor, RefuseEquivocation, RecordEquivocation,
     RefuseSizeRegression, RefuseExtension, Reject, vars

LEMMA ServedStep == Inv /\ [Next]_vars => ServedAnchorIsEarliest'
<1> SUFFICES ASSUME Inv, [Next]_vars PROVE ServedAnchorIsEarliest'
  OBVIOUS
<1>0. TypeOK
  BY DEF Inv
<1>1. CASE UNCHANGED vars
  BY <1>1 DEF vars, Inv, ServedAnchorIsEarliest, IsServed, RotationRowsOf
<1>2. ASSUME NEW o \in Offers, Decide(o) PROVE ServedAnchorIsEarliest'
  <2>1. SUFFICES ASSUME NEW s \in issued', NEW x \in s.anchors
                 PROVE  \E r \in rotations' : IsServed(r, s.cp.log, x)' /\ AtOrBefore(r.cp, s.cp)
    BY DEF ServedAnchorIsEarliest, IsServed, RotationRowsOf
  <2>2. CASE s \in issued
    <3>1. PICK r \in RotationRowsOf(s.cp.log, x) :
            IsServed(r, s.cp.log, x) /\ AtOrBefore(r.cp, s.cp)
      BY <2>2 DEF Inv, ServedAnchorIsEarliest
    <3>2. r \in rotations
      BY DEF RotationRowsOf
    <3>3. PICK q \in rotations' : IsServed(q, s.cp.log, x)' /\ AtOrBefore(q.cp, r.cp)
      BY <1>0, <1>2, <3>1, <3>2, RotationsMove, ServedMovesEarlier
    <3>4. q.cp \in Checkpoint /\ r.cp \in Checkpoint /\ s.cp \in Checkpoint
      <4>1. rotations' \subseteq RotationRow
        BY <1>0, <1>2, TypeStep DEF TypeOK, StoreTypeOK, Next
      <4> QED
        BY <1>0, <2>2, <3>2, <4>1 DEF TypeOK, StoreTypeOK, RotationRow, Issue
    <3> QED
      BY <3>1, <3>3, <3>4, AtOrBeforeOrders
  <2>3. CASE s \notin issued
    BY <1>2, <2>1, <2>3, IssueStep, AnchorServed
  <2> QED
    BY <2>2, <2>3
<1> QED
  BY <1>1, <1>2 DEF Next

LEMMA IssuedStep == Inv /\ [Next]_vars => IssuedSeriesStored'
<1> SUFFICES ASSUME Inv, [Next]_vars PROVE IssuedSeriesStored'
  OBVIOUS
<1>1. CASE UNCHANGED vars
  BY <1>1 DEF vars, Inv, IssuedSeriesStored, SeriesCheckpoints
<1>2. ASSUME NEW o \in Offers, Decide(o) PROVE IssuedSeriesStored'
  <2>1. SUFFICES ASSUME NEW s \in issued', s.series PROVE s.cp \in SeriesCheckpoints'
    BY DEF IssuedSeriesStored
  <2>2. CASE s \in issued
    <3>1. s.cp \in SeriesCheckpoints
      BY <2>1, <2>2 DEF Inv, IssuedSeriesStored
    <3> QED
      BY <1>2, <3>1, VouchingStep DEF Inv
  <2>3. CASE s \notin issued
    <3>1. CosignSeries(o) /\ s.cp = o.cp
      BY <1>2, <2>1, <2>3, IssueStep
    <3>2. SeriesCheckpoints' = SeriesCheckpoints \cup {o.cp}
      BY <3>1, OfferParts, InsertCosignedAdds DEF CosignSeries, Inv, TypeOK
    <3> QED
      BY <3>1, <3>2
  <2> QED
    BY <2>2, <2>3
<1> QED
  BY <1>1, <1>2 DEF Next

-----------------------------------------------------------------------------
(* The inductive invariant and what follows from it *)

LEMMA InitInv == Init => Inv
<1> SUFFICES ASSUME Init PROVE Inv
  OBVIOUS
<1>1. cosigned = <<>> /\ rotations = {} /\ refusals = <<>> /\ equivocations = {} /\ issued = {}
  BY DEF Init, StoreInit
<1>2. TypeOK
  BY <1>1 DEF TypeOK, StoreTypeOK
<1>3. SeriesCheckpoints = {} /\ Held = {} /\ \A l : SeriesRowsOf(l) = {}
  BY <1>1 DEF SeriesCheckpoints, Held, RotationCheckpoints, SeriesRowsOf
<1>4. \A l : EquivocationRefusals(l) = {} /\ ~Floored(l)
  BY <1>1 DEF EquivocationRefusals, Floored
<1>5. RootsMeasure /\ QueriesAnswer /\ OneRootPerSize /\ SeriesAppendOnly
  BY <1>1, <1>3 DEF RootsMeasure, QueriesAnswer, OneRootPerSize, SeriesAppendOnly
<1>6. RefusalsCheckable /\ RefusalsCiteHeld /\ FloorHasEvidence
  BY <1>1, <1>4 DEF RefusalsCheckable, RefusalsCiteHeld, FloorHasEvidence
<1>7. ServedAnchorIsEarliest /\ IssuedSeriesStored
  BY <1>1 DEF ServedAnchorIsEarliest, IssuedSeriesStored
<1> QED
  BY <1>2, <1>5, <1>6, <1>7 DEF Inv

LEMMA InvStep == Inv /\ [Next]_vars => Inv'
<1> SUFFICES ASSUME Inv, [Next]_vars PROVE Inv'
  OBVIOUS
<1>1. TypeOK'
  BY TypeStep DEF Inv
<1> QED
  BY <1>1, OneRootStep, AppendOnlyStep, RefusalsStep, FloorStep, QueriesStep, ServedStep,
     IssuedStep DEF Inv

\* Everything the proofs carry holds in every reachable state.
THEOREM InvCorrect == Spec => []Inv
  BY InitInv, InvStep, PTL DEF Spec

\* transition and rotation_transition never hold two roots of a log at a size,
\* whichever of the two tables each is in.
THEOREM NoTwoRootsHeld == Spec => []OneRootPerSize
<1>1. Inv => OneRootPerSize
  BY DEF Inv
<1>2. QED
  BY <1>1, InvCorrect, PTL

\* The cosigned series of a log is one append-only history.
THEOREM OneHistory == Spec => []SeriesAppendOnly
<1>1. Inv => SeriesAppendOnly
  BY DEF Inv
<1>2. QED
  BY <1>1, InvCorrect, PTL

\* Every refusal on record verifies from its own evidence.
THEOREM RefusalsProven == Spec => []RefusalsCheckable
<1>1. Inv => RefusalsCheckable
  BY DEF Inv
<1>2. QED
  BY <1>1, InvCorrect, PTL

\* Every refusal on record cites a checkpoint of the same log that this witness
\* holds a cosignature for.
THEOREM RefusalsCited == Spec => []RefusalsCiteHeld
<1>1. Inv => RefusalsCiteHeld
  BY DEF Inv
<1>2. QED
  BY <1>1, InvCorrect, PTL

\* An honest continuation of the retained history is never refused as a failed
\* extension, at any pair of sizes.
THEOREM NoFalseAccusation == Spec => []HonestNeverRefused
<1>1. Init => HonestNeverRefused
  BY DEF Init, StoreInit, HonestNeverRefused
<1> QED
  BY <1>1, HonestStep, InvCorrect, PTL DEF Spec

\* A floor is always recorded with the pair that caused it.
THEOREM FloorsEvidenced == Spec => []FloorHasEvidence
<1>1. Inv => FloorHasEvidence
  BY DEF Inv
<1>2. QED
  BY <1>1, InvCorrect, PTL

\* The rotation route serves a checkpoint at or before every anchor issued.
THEOREM ServesEarliest == Spec => []ServedAnchorIsEarliest
<1>1. Inv => ServedAnchorIsEarliest
  BY DEF Inv
<1>2. QED
  BY <1>1, InvCorrect, PTL

\* Every cosignature issued for the series is on record in the series.
THEOREM IssuedIsStored == Spec => []IssuedSeriesStored
<1>1. Inv => IssuedSeriesStored
  BY DEF Inv
<1>2. QED
  BY <1>1, InvCorrect, PTL

\* Resubmitting a series checkpoint that anchors nothing is accepted and files
\* nothing new, as long as the log has no floor.
THEOREM ResubmissionAccepted == Spec => []ResubmissionIdempotent
<1>1. ASSUME Inv PROVE ResubmissionIdempotent
  <2>1. SUFFICES ASSUME NEW o \in Offers,
                        Authentic(o), SeriesMember(o), Anchors(o) = {},
                        Storable(TermsOf(o.cp.log, o.entries)),
                        o.cp \in SeriesCheckpoints, ~Floored(o.cp.log)
                 PROVE  SeriesAdmissible(o) /\ CanCosignSeries(o) /\ SeriesPresent(o.cp)
    BY DEF ResubmissionIdempotent
  <2>2. SeriesPresent(o.cp) /\ SeriesRowsAtSize(o.cp.log, o.cp.size) # {}
    BY <2>1 DEF SeriesCheckpoints, SeriesPresent, SeriesRowsAtSize, SeriesRowsOf
  <2>3. CanCosignSeries(o)
    BY <2>1, <2>2 DEF CanCosignSeries, CanInsertCosigned, SeriesClash, CanInsertRotation
  <2>4. \A c \in Held : c.log = o.cp.log /\ c.size = o.cp.size => c.root = o.cp.root
    BY <1>1, <2>1, HeldTypes DEF Inv, OneRootPerSize
  <2>5. RotationConflicts(o.cp) = {}
    BY <2>4 DEF RotationConflicts, Held, RotationCheckpoints
  <2>6. PICK i \in DOMAIN cosigned : IsFirstAtSize(i, o.cp.log, o.cp.size)
    BY <1>1, <2>1 DEF Inv, QueriesAnswer
  <2>7. cosigned[i].cp.root = o.cp.root
    BY <2>4, <2>6 DEF IsFirstAtSize, SeriesRowsAtSize, SeriesRowsOf, Held, SeriesCheckpoints
  <2>8. Undisputed(o)
    BY <2>1, <2>5, <2>6, <2>7 DEF Undisputed, NoSeriesConflict
  <2> QED
    BY <2>1, <2>2, <2>3, <2>8 DEF SeriesAdmissible
<1>2. QED
  BY <1>1, InvCorrect, PTL

\* A floor is recorded only for a log that has none.
LEMMA EquivocationsMove ==
  ASSUME NEW o \in Offers, Decide(o)
  PROVE  \/ equivocations' = equivocations
         \/ /\ ~Floored(o.cp.log)
            /\ UNCHANGED <<cosigned, rotations>>
            /\ equivocations' = equivocations \cup {[log |-> o.cp.log, size |-> o.cp.size]}
BY DEF Decide, RefuseAtFloor, RefuseEquivocation, EquivocatesWith, RecordEquivocation,
   InsertEquivocation, CosignSeries, RefuseSizeRegression, RefuseExtension, CosignRotation, Reject, vars

\* Nothing an ended log offers is vouched for again, and its floor stays.
THEOREM FloorsArePermanent == Spec => FloorPermanent
<1> DEFINE HeldFor(l) == {c \in Held : c.log = l}
           FloorsFor(l) == {e \in equivocations : e.log = l}
           Step == \A l \in Logs : Floored(l) =>
                     HeldFor(l)' = HeldFor(l) /\ FloorsFor(l)' = FloorsFor(l)
<1>1. ASSUME Inv, Next PROVE Step
  <2>1. SUFFICES ASSUME NEW l \in Logs, Floored(l)
                 PROVE  HeldFor(l)' = HeldFor(l) /\ FloorsFor(l)' = FloorsFor(l)
    OBVIOUS
  <2>2. PICK o \in Offers : Decide(o)
    BY <1>1 DEF Next
  <2>3. HeldFor(l)' = HeldFor(l)
    <3>1. TypeOK
      BY <1>1 DEF Inv
    <3>2. CASE Held' = Held
      BY <3>2
    <3>3. CASE Undisputed(o) /\ Held \subseteq Held' /\ Held' \subseteq Held \cup {o.cp}
      BY <2>1, <3>3 DEF Undisputed
    <3> QED
      BY <2>2, <3>1, <3>2, <3>3, VouchingStep
  <2>4. FloorsFor(l)' = FloorsFor(l)
    BY <2>1, <2>2, EquivocationsMove
  <2> QED
    BY <2>3, <2>4
<1>2. Inv /\ [Next]_vars =>
        [\A l \in Logs : Floored(l) =>
           /\ {c \in Held : c.log = l}' = {c \in Held : c.log = l}
           /\ {e \in equivocations : e.log = l}' = {e \in equivocations : e.log = l}]_vars
  BY <1>1
<1>3. QED
  BY <1>2, InvCorrect, PTL DEF Spec, FloorPermanent


\* A checkpoint of the series disagrees with nothing held, and its size is not new.
LEMMA SeriesNotAccused ==
  ASSUME Inv, NEW o \in Offers, Decide(o), refusals' # refusals
  PROVE  \E e \in Refusal : refusals' = Append(refusals, e) /\ e.offered \notin SeriesCheckpoints
<1>0. o.cp \in Checkpoint /\ o.entries \in Root /\ NoProof \in Proof
  BY OfferParts DEF NoProof, Proof, Root
<1>1. CASE RefuseSizeRegression(o) \/ RefuseExtension(o)
  <2>1. PICK e \in Refusal : refusals' = Append(refusals, e)
    BY RefusalStep
  <2>2. PICK i \in DOMAIN cosigned :
          \/ /\ Compares(o, i, "size-regression")
             /\ InsertRefusal("size-regression", cosigned[i].cp, o.cp, NoProof)
          \/ /\ Compares(o, i, "extension-failed")
             /\ InsertRefusal("extension-failed", cosigned[i].cp, o.cp,
                  [from |-> cosigned[i].cp.size, to |-> o.cp.size, leaves |-> o.entries])
    BY <1>1 DEF RefuseSizeRegression, RefuseExtension
  <2>3. SeriesRowsAtSize(o.cp.log, o.cp.size) = {}
    BY <2>2 DEF Compares, NewSize
  <2>4. o.cp \notin SeriesCheckpoints
    BY <2>3 DEF SeriesCheckpoints, SeriesRowsAtSize, SeriesRowsOf
  <2>5. cosigned[i].cp \in Checkpoint /\ cosigned[i].cp.size \in Nat
    BY RowTypes DEF Inv, TypeOK, Checkpoint
  <2>6. o.cp.size \in Nat
    BY <1>0 DEF Checkpoint
  <2>7. CASE InsertRefusal("size-regression", cosigned[i].cp, o.cp, NoProof)
    <3> DEFINE f == [reason |-> "size-regression", retained |-> cosigned[i].cp,
                     offered |-> o.cp, proof |-> NoProof]
    <3>1. f \in Refusal /\ f.offered = o.cp
      BY <1>0, <2>5 DEF Refusal, Reasons
    <3>2. refusals' = Append(refusals, f)
      BY <2>7 DEF InsertRefusal
    <3> HIDE DEF f
    <3> QED
      BY <2>4, <3>1, <3>2
  <2>8. CASE InsertRefusal("extension-failed", cosigned[i].cp, o.cp,
                 [from |-> cosigned[i].cp.size, to |-> o.cp.size, leaves |-> o.entries])
    <3> DEFINE p == [from |-> cosigned[i].cp.size, to |-> o.cp.size, leaves |-> o.entries]
               f == [reason |-> "extension-failed", retained |-> cosigned[i].cp,
                     offered |-> o.cp, proof |-> p]
    <3>1. p \in Proof
      BY <1>0, <2>5, <2>6 DEF Proof
    <3>2. refusals' = Append(refusals, f)
      BY <2>8 DEF InsertRefusal
    <3> HIDE DEF p
    <3>3. f \in Refusal /\ f.offered = o.cp
      BY <1>0, <2>5, <3>1 DEF Refusal, Reasons
    <3> HIDE DEF f
    <3> QED
      BY <2>4, <3>2, <3>3
  <2> QED
    BY <2>2, <2>7, <2>8
<1>2. CASE RefuseAtFloor(o) \/ RefuseEquivocation(o)
  <2>1. PICK e \in Refusal :
          /\ refusals' = Append(refusals, e) /\ VerifyRefusalClaim(e)
          /\ e.retained \in Held /\ e.retained.log = e.offered.log
    BY RefusalStep
  <2>2. \E retained, offered : InsertRefusal("equivocation", retained, offered, NoProof)
    BY <1>2 DEF RefuseAtFloor, RefuseEquivocation, RecordEquivocation
  <2>3. e.reason = "equivocation"
    <3>1. PICK retained, offered : InsertRefusal("equivocation", retained, offered, NoProof)
      BY <2>2
    <3> DEFINE f == [reason |-> "equivocation", retained |-> retained,
                     offered |-> offered, proof |-> NoProof]
    <3>2. Append(refusals, e) = Append(refusals, f)
      BY <2>1, <3>1 DEF InsertRefusal
    <3> HIDE DEF f
    <3>3. /\ Append(refusals, e)[Len(refusals) + 1] = e
          /\ Append(refusals, f)[Len(refusals) + 1] = f
      BY DEF Inv, TypeOK, StoreTypeOK
    <3> QED
      BY <3>2, <3>3 DEF f
  <2>4. e.retained.size = e.offered.size /\ e.retained.root # e.offered.root
    BY <2>1, <2>3 DEF VerifyRefusalClaim
  <2>5. e.offered \notin Held
    BY <2>1, <2>4 DEF Inv, OneRootPerSize
  <2> QED
    BY <2>1, <2>5, HeldTypes DEF Inv
<1>3. CASE CosignSeries(o) \/ CosignRotation(o) \/ Reject(o)
  BY <1>3 DEF CosignSeries, CosignRotation, Reject, vars
<1> QED
  BY <1>1, <1>2, <1>3 DEF Decide

\* A submitter who retries a checkpoint of the series is never refused for it.
THEOREM RetriesNeverRefused == Spec => RetryNeverRefused
<1> DEFINE Step == \A i \in DOMAIN refusals' \ DOMAIN refusals :
                     refusals'[i].offered \notin SeriesCheckpoints
<1>1. ASSUME Inv, NEW o \in Offers, Decide(o) PROVE Step
  <2>1. CASE refusals' = refusals
    BY <2>1
  <2>2. CASE refusals' # refusals
    <3>1. PICK e \in Refusal : refusals' = Append(refusals, e) /\ e.offered \notin SeriesCheckpoints
      BY <1>1, <2>2, SeriesNotAccused
    <3>2. \A i \in DOMAIN refusals' : i \in DOMAIN refusals \/ refusals'[i] = e
      BY <1>1, <3>1, InsertRefusalAppends DEF Inv, TypeOK
    <3> QED
      BY <3>1, <3>2
  <2> QED
    BY <2>1, <2>2
<1>2. Inv /\ [Next]_vars =>
        [\A i \in DOMAIN refusals' \ DOMAIN refusals :
           refusals'[i].offered \notin SeriesCheckpoints]_vars
  BY <1>1 DEF Next
<1>3. QED
  BY <1>2, InvCorrect, PTL DEF Spec, RetryNeverRefused

-----------------------------------------------------------------------------
(* The head of a log is what any of its retained rows commits to *)

HeadIsRetained ==
  \A l \in Logs : \A i \in DOMAIN cosigned : IsRetained(i, l) => HeadOf(l) = cosigned[i].cp.root

\* Two retained rows of a log tie in size, so they commit to the same root.
LEMMA RetainedAgree == Inv => HeadIsRetained
<1> SUFFICES ASSUME Inv, NEW l \in Logs, NEW i \in DOMAIN cosigned, IsRetained(i, l)
             PROVE  HeadOf(l) = cosigned[i].cp.root
  BY DEF HeadIsRetained
<1> DEFINE j == CHOOSE k \in DOMAIN cosigned : IsRetained(k, l)
<1>1. j \in DOMAIN cosigned /\ IsRetained(j, l)
  OBVIOUS
<1>2. HeadOf(l) = cosigned[j].cp.root
  BY DEF HeadOf, RetainedRoot, IsRetained
<1> HIDE DEF j
<1>3. /\ cosigned[i].cp \in Held /\ cosigned[j].cp \in Held
      /\ cosigned[i].cp.log = cosigned[j].cp.log
  BY <1>1 DEF IsRetained, SeriesRowsOf, Held, SeriesCheckpoints
<1>4. cosigned[i].cp \in Checkpoint /\ cosigned[j].cp \in Checkpoint
  BY <1>1, RowTypes DEF Inv, TypeOK
<1>5. AtOrBefore(cosigned[i].cp, cosigned[j].cp) /\ AtOrBefore(cosigned[j].cp, cosigned[i].cp)
  BY <1>1 DEF IsRetained
<1>6. cosigned[i].cp.size = cosigned[j].cp.size
  BY <1>4, <1>5 DEF AtOrBefore, Checkpoint
<1> QED
  BY <1>2, <1>3, <1>6 DEF Inv, OneRootPerSize

-----------------------------------------------------------------------------
(* Filing a series checkpoint *)

\* A checkpoint at a size already cosigned moves no head.
LEMMA SameSizeKeepsHeads ==
  ASSUME Inv, Inv', HeadIsRetained, HeadIsRetained',
         NEW o \in Offers, CosignSeries(o),
         NEW l \in Logs,
         l # o.cp.log \/ SeriesRowsAtSize(o.cp.log, o.cp.size) # {}
  PROVE  HeadOf(l)' = HeadOf(l)
<1>1. /\ \A i \in DOMAIN cosigned : i \in DOMAIN cosigned' /\ cosigned'[i] = cosigned[i]
      /\ \A i \in DOMAIN cosigned' :
           \/ i \in DOMAIN cosigned
           \/ i \notin DOMAIN cosigned /\ cosigned'[i].cp = o.cp
  BY OfferParts, InsertCosignedAdds DEF Inv, TypeOK, CosignSeries
<1>2. CASE SeriesRowsOf(l) = {}
  <2>1. l # o.cp.log
    BY <1>2 DEF SeriesRowsAtSize
  <2>2. SeriesRowsOf(l)' = {}
    BY <1>1, <1>2, <2>1 DEF SeriesRowsOf
  <2> QED
    BY <1>2, <2>2 DEF HeadOf
<1>3. CASE SeriesRowsOf(l) # {}
  <2>1. PICK i \in DOMAIN cosigned : IsRetained(i, l)
    BY <1>3 DEF Inv, QueriesAnswer
  <2>2. SeriesRowsOf(l)' # {}
    BY <1>1, <1>3 DEF SeriesRowsOf
  <2>3. PICK k \in DOMAIN cosigned' : IsRetained(k, l)'
    BY <2>2 DEF Inv, QueriesAnswer
  <2> DEFINE c == cosigned[i].cp
             d == cosigned'[k].cp
  <2>4. /\ HeadOf(l) = c.root
        /\ HeadOf(l)' = d.root
    BY <2>1, <2>3 DEF HeadIsRetained
  <2>5. /\ i \in DOMAIN cosigned' /\ cosigned'[i].cp = c /\ c.log = l /\ d.log = l
        /\ AtOrBefore(c, d)
    BY <1>1, <2>1, <2>3 DEF IsRetained, SeriesRowsOf
  <2>6. c \in Checkpoint /\ d \in Checkpoint
    <3>1. \A n \in DOMAIN cosigned' : cosigned'[n].cp \in Checkpoint
      BY <1>1, OfferParts, RowTypes DEF Inv, TypeOK
    <3> QED
      BY <3>1, <2>5
  <2>7. c \in Held' /\ d \in Held'
    BY <2>5 DEF Held, SeriesCheckpoints
  <2>8. d.size <= c.size
    <3>1. CASE k \in DOMAIN cosigned
      <4>1. AtOrBefore(d, c)
        BY <1>1, <2>1, <2>5, <3>1 DEF IsRetained, SeriesRowsOf
      <4> QED
        BY <2>6, <4>1 DEF AtOrBefore, Checkpoint
    <3>2. CASE k \notin DOMAIN cosigned
      <4>1. d = o.cp /\ o.cp.log = l
        BY <1>1, <2>5, <3>2
      <4>2. PICK n \in DOMAIN cosigned : cosigned[n].cp.log = l /\ cosigned[n].cp.size = o.cp.size
        BY <4>1 DEF SeriesRowsAtSize, SeriesRowsOf
      <4>3. AtOrBefore(cosigned[n].cp, c) /\ cosigned[n].cp \in Checkpoint
        BY <2>1, <4>2, RowTypes DEF IsRetained, SeriesRowsOf, Inv, TypeOK
      <4> HIDE DEF c, d
      <4> QED
        BY <2>6, <4>1, <4>2, <4>3 DEF AtOrBefore, Checkpoint
    <3> QED
      BY <3>1, <3>2
  <2> HIDE DEF c, d
  <2>9. c.size = d.size
    BY <2>5, <2>6, <2>8 DEF AtOrBefore, Checkpoint
  <2> QED
    BY <2>4, <2>5, <2>7, <2>9 DEF Inv, OneRootPerSize
<1> QED
  BY <1>2, <1>3

\* A checkpoint at a size not cosigned before becomes the head of its log, and
\* strictly extends the head there was.
LEMMA NewSizeExtendsHead ==
  ASSUME Inv, Inv', HeadIsRetained, HeadIsRetained',
         NEW o \in Offers, CosignSeries(o),
         SeriesRowsAtSize(o.cp.log, o.cp.size) = {}
  PROVE  /\ HeadOf(o.cp.log)' = o.cp.root
         /\ Len(o.cp.root) > Len(HeadOf(o.cp.log))
         /\ Continues(o.cp.root, HeadOf(o.cp.log))
<1> DEFINE l == o.cp.log
<1>0. /\ l \in Logs /\ o.cp \in Checkpoint /\ o.entries \in Root
      /\ \A i \in DOMAIN cosigned : cosigned[i].cp \in Checkpoint
  BY OfferParts, RowTypes DEF Inv, TypeOK
<1>1. /\ \A i \in DOMAIN cosigned : i \in DOMAIN cosigned' /\ cosigned'[i] = cosigned[i]
      /\ \A i \in DOMAIN cosigned' :
           \/ i \in DOMAIN cosigned
           \/ i \notin DOMAIN cosigned /\ cosigned'[i].cp = o.cp
      /\ SeriesCheckpoints' = SeriesCheckpoints \cup {o.cp}
  BY OfferParts, InsertCosignedAdds DEF Inv, TypeOK, CosignSeries
<1>2. SeriesAdmissible(o)
  BY DEF CosignSeries
<1>3. Len(o.cp.root) = o.cp.size
  BY <1>2, AdmissibleFits
<1>4. PICK k \in DOMAIN cosigned' : IsRetained(k, l)'
  <2>1. o.cp \in SeriesCheckpoints'
    BY <1>1
  <2>2. SeriesRowsOf(l)' # {}
    BY <2>1 DEF SeriesCheckpoints, SeriesRowsOf
  <2> QED
    BY <1>0, <2>2 DEF Inv, QueriesAnswer
<1>5. HeadOf(l)' = cosigned'[k].cp.root
  BY <1>0, <1>4 DEF HeadIsRetained
<1>6. CASE Bootstrap(o) /\ RootRecomputes(o)
  <2>1. SeriesRowsOf(l) = {} /\ HeadOf(l) = <<>>
    BY <1>6 DEF Bootstrap, HeadOf
  <2>2. k \notin DOMAIN cosigned
    BY <1>1, <1>4, <2>1 DEF IsRetained, SeriesRowsOf
  <2>3. HeadOf(l)' = o.cp.root
    BY <1>1, <1>5, <2>2
  <2>4. o.entries = o.cp.root /\ o.entries # <<>>
    BY <1>0, <1>6, GenesisAssumption
       DEF RootRecomputes, ComputeRoot, Bootstrap, NewSize, SeriesMember
  <2>5. Len(o.cp.root) > 0
    BY <1>0, <2>4 DEF Root
  <2> QED
    BY <2>1, <2>3, <2>5 DEF Continues
<1>7. ASSUME NEW i \in DOMAIN cosigned, Compares(o, i, "consistent")
      PROVE  /\ HeadOf(l)' = o.cp.root
             /\ Len(o.cp.root) > Len(HeadOf(l))
             /\ Continues(o.cp.root, HeadOf(l))
  <2> DEFINE c == cosigned[i].cp
  <2>1. /\ IsRetained(i, l) /\ c.log = l
        /\ Check(c, o.cp, o.entries) = "consistent"
    BY <1>7 DEF Compares, IsRetained, SeriesRowsOf
  <2>2. c.size # o.cp.size
    BY <2>1 DEF SeriesRowsAtSize, SeriesRowsOf
  <2>3. c.size < o.cp.size
    BY <1>0, <2>1, <2>2, CheckConsistent
  <2>4. HeadOf(l) = c.root
    BY <1>0, <2>1 DEF HeadIsRetained
  <2>5. c \in SeriesCheckpoints
    BY DEF SeriesCheckpoints
  <2>6. Len(c.root) = c.size
    BY <2>5 DEF Inv, RootsMeasure
  <2>7. Continues(o.cp.root, c.root)
    BY <1>0, <1>2, <2>1, <2>3, <2>5, AdmissibleFits DEF Checkpoint
  <2>8. k \notin DOMAIN cosigned
    <3>1. SUFFICES ASSUME k \in DOMAIN cosigned PROVE FALSE
      OBVIOUS
    <3>2. cosigned'[k].cp = cosigned[k].cp /\ cosigned[k].cp.log = l
      BY <1>1, <1>4, <3>1 DEF IsRetained, SeriesRowsOf
    <3>3. AtOrBefore(cosigned[k].cp, c)
      BY <2>1, <3>1, <3>2 DEF IsRetained, SeriesRowsOf
    <3>4. PICK n \in DOMAIN cosigned' : cosigned'[n].cp = o.cp
      <4>1. o.cp \in SeriesCheckpoints'
        BY <1>1
      <4> QED
        BY <4>1 DEF SeriesCheckpoints
    <3>5. AtOrBefore(o.cp, cosigned[k].cp)
      BY <1>4, <3>2, <3>4 DEF IsRetained, SeriesRowsOf
    <3> QED
      BY <1>0, <2>3, <3>1, <3>3, <3>5 DEF AtOrBefore, Checkpoint
  <2> QED
    BY <1>1, <1>5, <2>3, <2>4, <2>6, <2>7, <2>8, <1>3
<1> QED
  BY <1>2, <1>6, <1>7 DEF SeriesAdmissible

-----------------------------------------------------------------------------
(* Every step is a step of the promise *)

LEMMA CosignKeepsPromise ==
  ASSUME Inv, Inv', HeadIsRetained, HeadIsRetained',
         NEW o \in Offers, CosignSeries(o)
  PROVE  Promise!Extend(o.cp.log) \/ UNCHANGED <<Heads, Published, Ended>>
<1> DEFINE l == o.cp.log
<1>0. l \in Logs /\ TypeOK
  BY OfferParts DEF Inv
<1>1. Ended' = Ended
  BY DEF CosignSeries, Ended, Floored
<1>2. SeriesCheckpoints' = SeriesCheckpoints \cup {o.cp}
  BY <1>0, OfferParts, InsertCosignedAdds DEF TypeOK, CosignSeries
<1>3. Published' = Published \cup {<<l, o.cp.root>>}
  BY <1>2 DEF Published
<1>4. CASE SeriesRowsAtSize(l, o.cp.size) # {}
  <2>1. Heads' = Heads
    BY <1>4, SameSizeKeepsHeads DEF Heads
  <2>2. PICK c \in SeriesCheckpoints : c.log = l /\ c.size = o.cp.size
    BY <1>4 DEF SeriesRowsAtSize, SeriesRowsOf, SeriesCheckpoints
  <2>3. c.root = o.cp.root
    <3>1. Undisputed(o)
      BY DEF CosignSeries, SeriesAdmissible, Bootstrap, Compares, NewSize
    <3>2. c \in Held
      BY DEF Held
    <3> QED
      BY <2>2, <3>1, <3>2, UndisputedAgrees
  <2>4. <<l, o.cp.root>> \in Published
    BY <2>2, <2>3 DEF Published
  <2>5. Published' = Published
    BY <1>3, <2>4
  <2> QED
    BY <1>1, <2>1, <2>5
<1>5. CASE SeriesRowsAtSize(l, o.cp.size) = {}
  <2>1. /\ HeadOf(l)' = o.cp.root
        /\ Len(o.cp.root) > Len(HeadOf(l))
        /\ Continues(o.cp.root, HeadOf(l))
    BY <1>5, NewSizeExtendsHead
  <2>2. \A m \in Logs \ {l} : HeadOf(m)' = HeadOf(m)
    BY SameSizeKeepsHeads
  <2>3. l \notin Ended
    BY DEF Ended, CosignSeries, SeriesAdmissible, Undisputed, Bootstrap, Compares, NewSize
  <2>4. Heads'[l] = o.cp.root /\ Heads[l] = HeadOf(l)
    BY <1>0, <2>1 DEF Heads
  <2>5. \A m \in Logs \ {l} : Heads'[m] = Heads[m]
    BY <2>2 DEF Heads
  <2>6. DOMAIN Heads' = Logs
    BY DEF Heads
  <2>7. Promise!Extend(l)
    BY <1>1, <1>3, <2>1, <2>3, <2>4, <2>5, <2>6 DEF Promise!Extend, Continues
  <2> QED
    BY <2>7
<1> QED
  BY <1>4, <1>5

LEMMA StepKeepsPromise ==
  Inv /\ Inv' /\ HeadIsRetained /\ HeadIsRetained' /\ [Next]_vars
    => [Promise!PromiseNext]_(Promise!promiseVars)
<1> SUFFICES ASSUME Inv, Inv', HeadIsRetained, HeadIsRetained', [Next]_vars
             PROVE  Promise!PromiseNext \/ UNCHANGED <<Heads, Published, Ended>>
  BY DEF Promise!promiseVars
<1>1. ASSUME UNCHANGED cosigned PROVE UNCHANGED <<Heads, Published>>
  <2>1. \A l : HeadOf(l)' = HeadOf(l)
    BY <1>1 DEF HeadOf, RetainedRoot, SeriesRowsOf, IsRetained
  <2> QED
    BY <1>1, <2>1 DEF Heads, Published, SeriesCheckpoints
<1>2. ASSUME UNCHANGED equivocations PROVE UNCHANGED Ended
  BY <1>2 DEF Ended, Floored
<1>3. CASE UNCHANGED vars
  BY <1>1, <1>2, <1>3 DEF vars
<1>4. ASSUME NEW o \in Offers, Decide(o)
      PROVE  Promise!PromiseNext \/ UNCHANGED <<Heads, Published, Ended>>
  <2>0. o.cp.log \in Logs
    BY OfferParts
  <2>1. CASE CosignSeries(o)
    BY <2>0, <2>1, CosignKeepsPromise DEF Promise!PromiseNext
  <2>2. CASE UNCHANGED <<cosigned, equivocations>>
    BY <1>1, <1>2, <2>2
  <2>3. CASE /\ ~Floored(o.cp.log)
             /\ UNCHANGED cosigned
             /\ equivocations' = equivocations \cup {[log |-> o.cp.log, size |-> o.cp.size]}
    <3>1. UNCHANGED <<Heads, Published>>
      BY <1>1, <2>3
    <3>2. o.cp.log \notin Ended /\ Ended' = Ended \cup {o.cp.log}
      <4> DEFINE f == [log |-> o.cp.log, size |-> o.cp.size]
      <4>1. f.log = o.cp.log
        OBVIOUS
      <4> HIDE DEF f
      <4>2. \A m : Floored(m)' <=> Floored(m) \/ m = o.cp.log
        BY <2>3, <4>1 DEF Floored, f
      <4> QED
        BY <2>0, <2>3, <4>2 DEF Ended
    <3>3. Promise!End(o.cp.log)
      BY <3>1, <3>2 DEF Promise!End
    <3> QED
      BY <2>0, <3>3 DEF Promise!PromiseNext
  <2>4. cosigned' = cosigned \/ CosignSeries(o)
    BY <1>4 DEF Decide, RefuseAtFloor, RefuseEquivocation, RecordEquivocation,
       RefuseSizeRegression, RefuseExtension, CosignRotation, Reject, vars
  <2> QED
    BY <1>4, <2>1, <2>2, <2>3, <2>4, EquivocationsMove
<1> QED
  BY <1>3, <1>4 DEF Next

\* Whatever is offered in whatever order, the witness follows one growing
\* history per log, publishes only that, and stops at an equivocation.
THEOREM WitnessKeepsPromise == Spec => KeepsPromise
<1>1. Init => Promise!PromiseInit
  <2> SUFFICES ASSUME Init PROVE Promise!PromiseInit
    OBVIOUS
  <2>1. cosigned = <<>> /\ equivocations = {}
    BY DEF Init, StoreInit
  <2>2. SeriesCheckpoints = {} /\ \A l : SeriesRowsOf(l) = {} /\ ~Floored(l)
    BY <2>1 DEF SeriesCheckpoints, SeriesRowsOf, Floored
  <2>3. Heads = [l \in Logs |-> <<>>]
    BY <2>2 DEF Heads, HeadOf
  <2>4. Published = {} /\ Ended = {}
    BY <2>2 DEF Published, Ended
  <2> QED
    BY <2>3, <2>4 DEF Promise!PromiseInit
<1>2. Spec => []Inv
  BY InvCorrect
<1>3. QED
  BY <1>1, <1>2, RetainedAgree, StepKeepsPromise, PTL DEF Spec, KeepsPromise, Promise!PromiseSpec

=============================================================================
