------------------------------ MODULE MCGoverned ------------------------------
(***************************************************************************)
(* Small instances of GovernedWitness: genesis "g", manifest "m" replacing *)
(* the log keys k1 and k3 by k2, "f" the same manifest with a forged       *)
(* signature, "w" one replacing witness keys, "c" one changing the cadence.*)
(***************************************************************************)
EXTENDS MCWitness, GovernedWitness

Genesis ==
  [type |-> "manifest", sig |-> "p1", current |-> TRUE, readable |-> TRUE,
   pred |-> NoEntry, log |-> "log", producers |-> {[key |-> "p1", from |-> 0]},
   logKeys |-> <<[key |-> "k1", from |-> 0], [key |-> "k3", from |-> 0]>>,
   witnessKeys |-> {[holder |-> Self, from |-> 0]},
   cadence |-> 1, grace |-> 1, epoch |-> 0]

K2 == <<[key |-> "k2", from |-> 0]>>

Statements ==
  [e \in {"g", "m", "f", "w", "c", "a"} |->
    CASE e = "g" -> Genesis
      [] e = "m" -> [Genesis EXCEPT !.pred = "g", !.logKeys = K2]
      [] e = "f" -> [Genesis EXCEPT !.pred = "g", !.logKeys = K2, !.sig = "forged"]
      [] e = "w" -> [Genesis EXCEPT !.pred = "g", !.witnessKeys = {}]
      [] e = "c" -> [Genesis EXCEPT !.pred = "g", !.cadence = 2]
      [] OTHER -> [type |-> "other"]]

MCSays == [e \in Leaves |-> Statements[e]]
MCAnchorOf == [l \in Logs |-> [log |-> l, genesis |-> "g",
                               producers |-> {[key |-> "p1", from |-> 0]}]]

\* The governed operators, tabulated.
GovernedKeyTable == [l \in Logs, L \in MCPrefixes \cup {<<>>} |-> GovernedLogKeys(l, L)]
GovernedAnchorTable ==
  [l \in Logs, L \in MCPrefixes \cup {<<>>}, key \in Keys |-> GovernedRotationAnchors(l, L, key)]
GovernedTermsTable == [l \in Logs, L \in MCPrefixes \cup {<<>>} |-> GovernedTerms(l, L)]

MCGovernedLogKeys(l, entries) == GovernedKeyTable[l, entries]
MCGovernedRotationAnchors(l, entries, key) == GovernedAnchorTable[l, entries, key]
MCGovernedTerms(l, entries) == GovernedTermsTable[l, entries]

=============================================================================
