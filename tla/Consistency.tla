----------------------------- MODULE Consistency -----------------------------
(***************************************************************************)
(* The RFC 9162 comparison of an offered checkpoint with a retained one    *)
(* (consistency.rs), and the rechecking of refusal evidence (witness.rs,   *)
(* verify_refusal_claim).  Pure operators.                                 *)
(*                                                                         *)
(* A root stands for the sequence of leaves it commits to.  A consistency  *)
(* proof between sizes m < n is generated from the offered leaves: it      *)
(* holds the subtree hashes of those leaves that are needed to recompute   *)
(* both roots.  When m is a power of two the old tree is itself one node   *)
(* of the new tree, the proof omits it, and the verifier starts from the   *)
(* retained root; otherwise both roots are recomputed from the proof.      *)
(***************************************************************************)
EXTENDS Naturals, Sequences

IsPowerOfTwo(m) == \E k \in 0..m : 2^k = m

\* compute_root over the leaf hashes of the entry prefix.
ComputeRoot(leaves) == leaves

\* Fault: only the new root is recomputed.
FaultNewRootOnly(leaves, m, n, r, s) == s = SubSeq(leaves, 1, n)

\* Fault: the new leaves are taken one place too late.
FaultSuffixShort(leaves, m, n, r, s) ==
  IF IsPowerOfTwo(m)
  THEN s = r \o SubSeq(leaves, m + 2, n)
  ELSE r = SubSeq(leaves, 1, m) /\ s = SubSeq(leaves, 1, n)

\* verify_consistency of the proof generated from `leaves` between the sizes
\* m and n, against the roots r (old) and s (new).
VerifyConsistency(leaves, m, n, r, s) ==
  IF IsPowerOfTwo(m)
  THEN s = r \o SubSeq(leaves, m + 1, n)
  ELSE r = SubSeq(leaves, 1, m) /\ s = SubSeq(leaves, 1, n)

\* check: the four outcomes.
Check(retained, offered, leaves) ==
  IF offered.size < retained.size THEN "size-regression"
  ELSE IF offered.size = retained.size
  THEN IF offered.root = retained.root THEN "consistent" ELSE "equivocation"
  ELSE IF VerifyConsistency(leaves, retained.size, offered.size, retained.root, offered.root)
  THEN "consistent" ELSE "extension-failed"

\* verify_extension_failure: the proof is bound to the pair and does not verify.
VerifyExtensionFailure(proof, retained, offered) ==
  /\ proof.from = retained.size
  /\ proof.to = offered.size
  /\ ~VerifyConsistency(proof.leaves, proof.from, proof.to, retained.root, offered.root)

\* verify_refusal_claim, from the evidence alone.
VerifyRefusalClaim(e) ==
  \/ /\ e.reason = "equivocation"
     /\ e.retained.size = e.offered.size
     /\ e.retained.root # e.offered.root
  \/ /\ e.reason = "size-regression"
     /\ e.offered.size < e.retained.size
  \/ /\ e.reason = "extension-failed"
     /\ VerifyExtensionFailure(e.proof, e.retained, e.offered)

=============================================================================
