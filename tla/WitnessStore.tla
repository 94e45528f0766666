---------------------------- MODULE WitnessStore ----------------------------
(***************************************************************************)
(* The witness's durable store (store.rs): four SQLite tables, the queries *)
(* the decision procedure reads them with, and the inserts it writes.      *)
(*                                                                         *)
(* A query that returns "the first row ORDER BY ..." is modelled as a      *)
(* predicate on rows (IsFirstAtSize, IsRetained, ...): where SQLite leaves *)
(* ties in an order unspecified, every tied row satisfies it.              *)
(*                                                                         *)
(* A definition named Fault... is a seeded fault: what the definition that *)
(* follows it would be with one plausible bug.  No specification uses it;  *)
(* it shows that a property tells the two apart.                           *)
(***************************************************************************)
EXTENDS Naturals, Sequences

CONSTANTS Logs,     \* the log ids of the deployment's anchors
          Keys,     \* log checkpoint-signing keys
          Leaves,   \* log entries, up to content
          MaxI64    \* i64::MAX, the largest integer an SQLite column holds

ASSUME MaxI64Assumption == MaxI64 \in Nat

(***************************************************************************)
(* A root hash stands for the leaves it commits to (SHA-256 without        *)
(* collisions): computing a root from leaves is then the identity, and two *)
(* roots are equal exactly when they commit to the same leaves.            *)
(***************************************************************************)
Root == Seq(Leaves)

\* A log-signed checkpoint.  The key names the signature: signing is
\* deterministic, so one key gives one signature over one checkpoint.
Checkpoint == [log : Logs, size : Nat, root : Root, time : Nat, key : Keys]

\* The freshness terms of the governing manifest, stored beside the row.
FreshnessTerms == [cadence : Nat, grace : Nat]

\* A consistency proof carried as refusal evidence: the sizes it connects
\* and the leaves it was generated from.
Proof == [from : Nat, to : Nat, leaves : Root]
NoProof == [from |-> 0, to |-> 0, leaves |-> <<>>]

Reasons == {"equivocation", "size-regression", "extension-failed"}
Refusal == [reason : Reasons, retained : Checkpoint, offered : Checkpoint, proof : Proof]

SeriesRow == [cp : Checkpoint, terms : FreshnessTerms, at : Nat]
RotationRow == [index : Nat, cp : Checkpoint, at : Nat]
EquivocationRow == [log : Logs, size : Nat]

VARIABLES cosigned,      \* cosigned_checkpoints: rows in id order
          rotations,     \* rotation_cosignatures: a set, its key is not an id
          refusals,      \* refusals: rows in id order
          equivocations  \* equivocations: UNIQUE(log_id, tree_size)

storeVars == <<cosigned, rotations, refusals, equivocations>>

StoreTypeOK ==
  /\ cosigned \in Seq(SeriesRow)
  /\ rotations \subseteq RotationRow
  /\ refusals \in Seq(Refusal)
  /\ equivocations \subseteq EquivocationRow

StoreInit ==
  /\ cosigned = <<>>
  /\ rotations = {}
  /\ refusals = <<>>
  /\ equivocations = {}

-----------------------------------------------------------------------------
(* Queries on the series *)

SeriesRowsOf(l) == {i \in DOMAIN cosigned : cosigned[i].cp.log = l}

SeriesRowsAtSize(l, n) == {i \in SeriesRowsOf(l) : cosigned[i].cp.size = n}

\* find_cosigned_at_size: ORDER BY id ASC LIMIT 1.
IsFirstAtSize(i, l, n) ==
  /\ i \in SeriesRowsAtSize(l, n)
  /\ \A j \in SeriesRowsAtSize(l, n) : i <= j

\* (size, time) of c is at or before that of d, lexicographically.
AtOrBefore(c, d) == c.size < d.size \/ (c.size = d.size /\ c.time <= d.time)

\* Fault: the retained row is the newest one.
FaultRetainsNewest(i, l) == i \in SeriesRowsOf(l) /\ \A j \in SeriesRowsOf(l) : j <= i

\* get_retained: ORDER BY tree_size DESC, checkpoint_time DESC LIMIT 1.
IsRetained(i, l) ==
  /\ i \in SeriesRowsOf(l)
  /\ \A j \in SeriesRowsOf(l) : AtOrBefore(cosigned[j].cp, cosigned[i].cp)

-----------------------------------------------------------------------------
(* Queries on the rotation table, the equivocations and the refusals *)

\* list_refusals: the evidence published about a log.
RefusalsOf(l) == {refusals[i] : i \in {j \in DOMAIN refusals : refusals[j].offered.log = l}}

RotationRowsOf(l, x) == {r \in rotations : r.cp.log = l /\ r.index = x}

\* rotation_cosignatures_handler serves the first row in this order.
IsServed(r, l, x) ==
  /\ r \in RotationRowsOf(l, x)
  /\ \A q \in RotationRowsOf(l, x) : AtOrBefore(r.cp, q.cp)

\* Fault: a conflict is looked for under the candidate's own log key.
FaultSameKeyConflicts(c) ==
  {r \in rotations : r.cp.log = c.log /\ r.cp.size = c.size /\ r.cp.root # c.root /\ r.cp.key = c.key}

RotationConflicts(c) ==
  {r \in rotations : r.cp.log = c.log /\ r.cp.size = c.size /\ r.cp.root # c.root}

\* find_rotation_conflict: ORDER BY checkpoint_time ASC LIMIT 1.
IsRotationConflict(r, c) ==
  /\ r \in RotationConflicts(c)
  /\ \A q \in RotationConflicts(c) : r.cp.time <= q.cp.time

\* equivocation_floor: Some(MIN(tree_size)).
IsFloor(n, l) ==
  /\ [log |-> l, size |-> n] \in equivocations
  /\ \A e \in equivocations : e.log = l => n <= e.size

Floored(l) == \E e \in equivocations : e.log = l

EquivocationRefusals(l) ==
  {i \in DOMAIN refusals : refusals[i].offered.log = l /\ refusals[i].reason = "equivocation"}

\* original_equivocation_pair: the earliest equivocation refusal.
IsOriginalPair(i, l) ==
  /\ i \in EquivocationRefusals(l)
  /\ \A j \in EquivocationRefusals(l) : i <= j

-----------------------------------------------------------------------------
(* insert_cosigned *)

\* Fault: the columns of the uniqueness constraint are taken for the row.
FaultPresentByColumns(c) ==
  \E i \in DOMAIN cosigned :
    /\ cosigned[i].cp.log = c.log /\ cosigned[i].cp.size = c.size
    /\ cosigned[i].cp.time = c.time

\* The row with the same checkpoint and cosignature: AlreadyPresent.
SeriesPresent(c) == \E i \in DOMAIN cosigned : cosigned[i].cp = c

\* Fault: a plain INSERT, without the AlreadyPresent check before it.
FaultClashWithItself(c) ==
  \E i \in SeriesRowsAtSize(c.log, c.size) : cosigned[i].cp.time = c.time

\* UNIQUE(log_id, tree_size, checkpoint_time) fails for a different row.
SeriesClash(c) ==
  /\ ~SeriesPresent(c)
  /\ \E i \in SeriesRowsAtSize(c.log, c.size) : cosigned[i].cp.time = c.time

\* Fault: cadence and grace are cast to the column type unchecked.
FaultStoresAny(terms) == terms \in FreshnessTerms

Storable(terms) == terms.cadence <= MaxI64 /\ terms.grace <= MaxI64

CanInsertCosigned(c, terms) == Storable(terms) /\ ~SeriesClash(c)

InsertCosigned(c, terms, at) ==
  cosigned' = IF SeriesPresent(c) THEN cosigned
              ELSE Append(cosigned, [cp |-> c, terms |-> terms, at |-> at])

-----------------------------------------------------------------------------
(* insert_rotation_cosigned, for every rotation index a checkpoint anchors *)

\* A row under the same primary key that is not equal in every column.
RotationClash(x, c, at) ==
  \E r \in RotationRowsOf(c.log, x) :
    /\ r.cp.size = c.size /\ r.cp.time = c.time
    /\ r # [index |-> x, cp |-> c, at |-> at]

\* Fault: the first anchor to arrive is kept for good.
FaultSupersededByAny(x, c) == RotationRowsOf(c.log, x) # {}

\* The smallest (size, time) held is at or before the candidate's.
Superseded(x, c) == \E r \in RotationRowsOf(c.log, x) : AtOrBefore(r.cp, c)

CanInsertRotation(xs, c, at) == \A x \in xs : ~RotationClash(x, c, at)

InsertRotation(xs, c, at) ==
  rotations' = rotations \cup
    {[index |-> x, cp |-> c, at |-> at] : x \in {y \in xs : ~Superseded(y, c)}}

-----------------------------------------------------------------------------
(* insert_refusal and insert_equivocation_and_refusal *)

InsertRefusal(reason, retained, offered, proof) ==
  refusals' = Append(refusals,
    [reason |-> reason, retained |-> retained, offered |-> offered, proof |-> proof])

\* Fault: the refusal is written and the floor is not.
FaultForgetsFloor(l, n) == UNCHANGED equivocations

InsertEquivocation(l, n) == equivocations' = equivocations \cup {[log |-> l, size |-> n]}

=============================================================================
