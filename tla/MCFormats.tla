------------------------------ MODULE MCFormats ------------------------------
(***************************************************************************)
(* Small instances of the three parts of a submission's way to the store:  *)
(* the durations of its manifests, its time, and its admission.  A run     *)
(* takes one of them in each of its behaviours.                            *)
(***************************************************************************)
EXTENDS Duration, CheckpointTime, Admission

VARIABLE part

mcVars == <<part, durationVars, timeVars, admissionVars>>

-----------------------------------------------------------------------------
(* Durations: a minute of 2 seconds, an hour of 2 minutes, a day of 2 hours,  *)
(* two digits of a fraction, and a u64 that holds P1DT1H1M1S, not a hundredth *)
(* of a second more, and not the number 2000.                                 *)

MCNumerals ==
  {<<"1">>, <<"7", "1">>, <<"2", "0", "0", "0">>, <<"7", "2", "0", "0", "0">>}

MCFractions == {<<"5">>, <<"0", "5">>, <<"5", "0">>}

MCComponents ==
  {<<"T">>, <<"1", "D">>, <<"1", "H">>, <<"1", "M">>, <<"1", "S">>,
   <<"2", "0", "0", "0", "S">>, <<"1", ".", "5", "S">>, <<"1", ".", "0", "5", "S">>,
   <<"1", ".", "5", "0", "5", "S">>}

MCSlips == {<<"7">>, <<"+">>, <<".">>, <<"T">>, <<"Y">>, <<"S">>, <<"1", "H">>}

-----------------------------------------------------------------------------
(* Times: a year of ten months of one or two days, half days, instants from   *)
(* year 1 to the middle of year 2.                                            *)

MCDaysIn == <<2, 1, 2, 1, 1, 1, 1, 1, 1, 1>>

MCCharacters == {"0", "1", "2", "9", "-", "T", "Z", "+"}

-----------------------------------------------------------------------------
(* Submissions.  The manifest at 2 adds a log key and the one at 3 drops the  *)
(* first and the witness: a checkpoint of 4 entries may be in the series and  *)
(* anchor the second rotation, or anchor both and not be in the series.  One  *)
(* between them carries a key under the id of another.                        *)

Spec(id, pub, from) == [id |-> id, pub |-> pub, from |-> from]

Genesis ==
  [index |-> 0, keys |-> <<Spec("k1", "k1", 0)>>, witnesses |-> {[key |-> "w", from |-> 0]}]
Misdeclared == [Genesis EXCEPT !.index = 1, !.keys = <<Spec("k1", "k3", 0)>>]
Extended ==
  [Genesis EXCEPT !.index = 2, !.keys = <<Spec("k2", "k2", 4), Spec("k1", "k1", 0)>>]
Replaced == [index |-> 3, keys |-> <<Spec("k2", "k2", 3)>>, witnesses |-> {}]

MCDeclared ==
  [genesis \in Manifests |->
     [log \in Logs |-> IF log = "log" THEN {Genesis, Misdeclared, Extended, Replaced} ELSE {}]]

Anchor(log, producers) == [log |-> log, genesis |-> "g", producers |-> producers]
Producers == <<Spec("k1", "k1", 0)>>

MCDeployments ==
  {[seed |-> seed, logs |-> logs] :
     seed \in {"w", "k3", Garbled},
     logs \in {<<>>, <<Anchor("log", Producers)>>, <<Anchor("log", <<>>)>>,
               <<Anchor("log", <<Spec("k1", "k3", 0)>>)>>,
               <<Anchor("log", Producers), Anchor("log2", Producers), Anchor("log", Producers)>>}}

Checkpoints ==
  {[log |-> log, size |-> size, root |-> root, time |-> "t", key |-> key,
    sig |-> [by |-> by,
             over |-> [log |-> "log", size |-> size, root |-> "r", time |-> "t"]]] :
     log \in {"log", "log2", Garbled}, size \in 1..4, root \in {"r", "s", Garbled},
     key \in {"k1", "k2"}, by \in {"k1", "k2", "k3"}}

Signed4 ==
  [log |-> "log", size |-> 4, root |-> "r", time |-> "t", key |-> "k2",
   sig |-> [by |-> "k2", over |-> [log |-> "log", size |-> 4, root |-> "r", time |-> "t"]]]

Submitted(cp) ==
  [path |-> "log", extra |-> FALSE, cpExtra |-> FALSE, typed |-> TRUE, cp |-> cp, raw |-> {},
   have |-> cp.size, base64 |-> TRUE, chain |-> "walks", named |-> {}]

Named == {{}, {1}, {2}, {3}}
Framings == {{}, {Garbled}, {BlobOf(Signed4)}, {[BlobOf(Signed4) EXCEPT !.root = "s"]}}

\* Requests whose checkpoints vary, and ones with a defect of their own.
MCRequests ==
  {[Submitted(cp) EXCEPT !.named = n] : cp \in Checkpoints, n \in Named}
    \cup {[Submitted([Signed4 EXCEPT !.key = key, !.sig.by = key]) EXCEPT !.raw = raw, !.named = n] :
            key \in {"k1", "k2"}, raw \in Framings, n \in Named}
    \cup {[Submitted(Signed4) EXCEPT !.path = path, !.extra = extra, !.cpExtra = cpExtra,
                                     !.typed = typed, !.base64 = base64, !.have = have,
                                     !.chain = chain] :
            path \in Logs, extra \in BOOLEAN, cpExtra \in BOOLEAN, typed \in BOOLEAN,
            base64 \in BOOLEAN, have \in {3, 4},
            chain \in {"walks", "malformed", "earlier revision"}}
    \cup {Submitted([Signed4 EXCEPT !.time = Garbled]), Submitted([Signed4 EXCEPT !.time = "u"]),
          Submitted([Signed4 EXCEPT !.sig = Garbled])}

-----------------------------------------------------------------------------

FormatsInit ==
  /\ part \in {"duration", "time", "submission"}
  /\ DurationInit
  /\ IF part = "time" THEN TimeInit ELSE stamp = <<>> /\ typos = 0
  /\ AdmissionInit

\* A server is sent one submission: it keeps nothing of it.
FormatsNext ==
  \/ /\ part = "duration" /\ DurationNext
     /\ UNCHANGED <<part, timeVars, admissionVars>>
  \/ /\ part = "time" /\ TimeNext
     /\ UNCHANGED <<part, durationVars, admissionVars>>
  \/ /\ part = "submission" /\ exchange = {} /\ AdmissionNext
     /\ UNCHANGED <<part, durationVars, timeVars>>

FormatsSpec == FormatsInit /\ [][FormatsNext]_mcVars

=============================================================================
