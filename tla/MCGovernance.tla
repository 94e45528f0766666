----------------------------- MODULE MCGovernance -----------------------------
(***************************************************************************)
(* Small logs for GovernanceWalk: a genesis manifest, successors that move *)
(* log keys, witness keys or producer keys, key statements, statements of  *)
(* an earlier revision, statements nobody in force signed, and data.       *)
(***************************************************************************)
EXTENDS GovernanceWalk

CONSTANT MaxLength   \* bound on the entries read

Genesis ==
  [type |-> "manifest", sig |-> "p1", current |-> TRUE, readable |-> TRUE,
   pred |-> NoEntry, log |-> "log", producers |-> {[key |-> "p1", from |-> 0]},
   logKeys |-> <<[key |-> "k1", from |-> 0]>>,
   witnessKeys |-> {[holder |-> "self", from |-> 0]},
   cadence |-> 5, grace |-> 10, epoch |-> 0]

\* k1 again, from a later index.
LaterK1 == <<[key |-> "k1", from |-> 4]>>
K2 == <<[key |-> "k2", from |-> 0]>>

KeyBy(p, action, key, from) ==
  [type |-> "key", sig |-> p, current |-> TRUE, readable |-> TRUE,
   action |-> action, key |-> key, from |-> from]

Statements ==
  [e \in {"genesis", "rotate", "postpone", "witness", "handover", "onward", "epoch",
          "add", "retire", "stale", "staleKey", "forged", "malformed",
          "data"} |->
    CASE e = "genesis" -> Genesis
      [] e = "rotate" -> [Genesis EXCEPT !.pred = "genesis", !.logKeys = K2]
      [] e = "postpone" -> [Genesis EXCEPT !.pred = "genesis", !.logKeys = LaterK1]
      [] e = "witness" -> [Genesis EXCEPT !.pred = "rotate", !.witnessKeys = {}]
      [] e = "handover" -> [Genesis EXCEPT !.pred = "genesis", !.producers = {[key |-> "p2", from |-> 3]}]
      [] e = "onward" -> [Genesis EXCEPT !.pred = "handover", !.sig = "p2", !.logKeys = K2]
      [] e = "epoch" -> [Genesis EXCEPT !.pred = "genesis", !.epoch = 1]
      [] e = "add" -> KeyBy("p1", "add", "p2", 1)
      [] e = "retire" -> KeyBy("p2", "retire", "p1", 0)
      [] e = "stale" -> [Genesis EXCEPT !.pred = "rotate", !.sig = "p2", !.current = FALSE]
      [] e = "staleKey" -> [KeyBy("p1", "retire", "p2", 0) EXCEPT !.current = FALSE]
      [] e = "forged" -> [Genesis EXCEPT !.pred = "genesis", !.sig = "forged", !.logKeys = K2]
      [] e = "malformed" -> [Genesis EXCEPT !.pred = "genesis", !.sig = "malformed"]
      [] OTHER -> [type |-> "other"]]

MCSays == [e \in Entries |-> Statements[e]]
MCAnchor == [log |-> "log", genesis |-> "genesis", producers |-> {[key |-> "p1", from |-> 0]}]

MCNext == Len(entries) < MaxLength /\ Next

MCSpec == Init /\ [][MCNext]_walkVars

=============================================================================
