------------------------------ MODULE MCService ------------------------------
(***************************************************************************)
(* Small instances of WitnessService: a few submissions for one log that   *)
(* between them meet every decision, a bounded number of requests and of   *)
(* mishaps (failures, panics, departures, signals, crashes).               *)
(***************************************************************************)
EXTENDS MCWitness, WitnessService

CONSTANTS MaxRequests,  \* bound on the requests made
          MaxMishaps    \* bound on what may go wrong around them

VARIABLES requests, mishaps  \* how many so far

mcVars == <<serviceVars, requests, mishaps>>

Submitted(root, key, entries, at) ==
  [cp |-> [log |-> "log", size |-> Len(root), root |-> root, time |-> 1, key |-> key],
   entries |-> entries, named |-> {}, at |-> at]

Covered(root, key, at) == Submitted(root, key, root, at)

\* The genesis tree, an anchor that is also a series member, the outgoing side of
\* a key rotation at two instants, a cadence no column holds, and checkpoints whose
\* entries fall short or belong to another tree.
MCServiceOffers ==
  {Covered(<<"g">>, "k1", 1), Covered(<<"g", "w">>, "k1", 1),
   Covered(<<"g", "m">>, "k1", 1), Covered(<<"g", "m">>, "k1", 2),
   Covered(<<"g", "c">>, "k1", 1), Submitted(<<"g">>, "k1", <<>>, 1),
   Submitted(<<"g", "a", "b">>, "k1", <<"g", "w", "b">>, 1)}

Unlucky == mishaps < MaxMishaps /\ mishaps' = mishaps + 1 /\ UNCHANGED requests
Ordinary == UNCHANGED <<requests, mishaps>>

\* The first request is alone; those after it overlap and find what it left.
MayOpen ==
  /\ requests < MaxRequests
  /\ requests = 1 => \A h \in Handlers : task[h].phase = "idle"

MCServiceNext ==
  \/ \E h \in Handlers :
       \/ (Advance(h) \/ ClientStep(h)) /\ Ordinary
       \/ Mishap(h) /\ Unlucky
       \/ /\ MayOpen
          /\ \E o \in Offers : Open(h, o)
          /\ requests' = requests + 1 /\ UNCHANGED mishaps
  \/ Shutdown /\ Ordinary
  \/ Crash /\ Unlucky
  \/ Exit /\ Ordinary
  \/ Restart /\ Ordinary

MCServiceInit == ServiceInit /\ requests = 0 /\ mishaps = 0

MCServiceSpec == MCServiceInit /\ [][MCServiceNext]_mcVars /\ Fairness

=============================================================================
