------------------------------ MODULE MCReadSide ------------------------------
(* Small instances of ReadSide: the bounds of MCWitness on decisions. *)
EXTENDS MCWitness, ReadSide

MCWitnessed ==
  /\ Witnessed
  /\ Len(cosigned') <= MaxCosigned
  /\ Len(refusals') <= MaxRefusals

MCReadNext ==
  \/ MCWitnessed
  \/ \E r \in Readers : (\E l \in Logs : Ask(r, l)) \/ ReadFloor(r) \/ ReadRetained(r)

MCReadSpec == Init /\ ReadInit /\ [][MCReadNext]_readVars

=============================================================================
