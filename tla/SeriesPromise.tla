---------------------------- MODULE SeriesPromise ----------------------------
(***************************************************************************)
(* What a witness promises about each log's series, without saying how:    *)
(* it follows ONE history of leaves, the checkpoints it publishes are that *)
(* history as it stood, and once it has caught the log presenting two      *)
(* histories it follows that log no further.                               *)
(***************************************************************************)
EXTENDS Naturals, Sequences

CONSTANT Logs

VARIABLES head,       \* the leaves vouched for so far, by log
          published,  \* the histories vouched for: <<log, leaves>>
          ended       \* logs caught presenting two histories

promiseVars == <<head, published, ended>>

PromiseInit ==
  /\ head = [l \in Logs |-> <<>>]
  /\ published = {}
  /\ ended = {}

\* The history of l grows and is published as it then stands.
Extend(l) ==
  /\ l \notin ended
  /\ Len(head'[l]) > Len(head[l])
  /\ \A k \in 1..Len(head[l]) : head'[l][k] = head[l][k]
  /\ \A m \in Logs \ {l} : head'[m] = head[m]
  /\ DOMAIN head' = Logs
  /\ published' = published \cup {<<l, head'[l]>>}
  /\ UNCHANGED ended

End(l) ==
  /\ l \notin ended
  /\ ended' = ended \cup {l}
  /\ UNCHANGED <<head, published>>

PromiseNext == \E l \in Logs : Extend(l) \/ End(l)

PromiseSpec == PromiseInit /\ [][PromiseNext]_promiseVars

=============================================================================
