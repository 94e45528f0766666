-------------------------- MODULE WitnessRefinement --------------------------
(***************************************************************************)
(* The decision procedure keeps the promise of SeriesPromise: the history  *)
(* of a log is what its retained checkpoint commits to, the published      *)
(* histories are the roots of the series table, and a log has ended when   *)
(* an equivocation floor is recorded for it.                               *)
(***************************************************************************)
EXTENDS Witness

RetainedRoot(l) == cosigned[CHOOSE i \in DOMAIN cosigned : IsRetained(i, l)].cp.root

HeadOf(l) == IF SeriesRowsOf(l) = {} THEN <<>> ELSE RetainedRoot(l)

Heads == [l \in Logs |-> HeadOf(l)]
Published == {<<c.log, c.root>> : c \in SeriesCheckpoints}
Ended == {l \in Logs : Floored(l)}

Promise == INSTANCE SeriesPromise WITH head <- Heads, published <- Published, ended <- Ended

\* Every behaviour of the decision procedure is a behaviour of the promise: the
\* witness follows one growing history per log, publishes only that history,
\* and stops for good when an equivocation is recorded.
KeepsPromise == Promise!PromiseSpec

=============================================================================
