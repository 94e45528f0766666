------------------------------- MODULE ReadSide -------------------------------
(***************************************************************************)
(* The handlers that publish a log's state (witness.rs,                    *)
(* published_checkpoint; http.rs, latest_checkpoint_handler and            *)
(* freshness_handler) beside the decision procedure.  A reader asks for    *)
(* the equivocation floor and for the retained checkpoint in two separate  *)
(* acquisitions of the store's mutex, so decisions fall in between.        *)
(*                                                                         *)
(* A reader remembers, as history, the states its log went through while   *)
(* the request ran, the cosignatures issued before it began, and the       *)
(* answer it had before.                                                   *)
(***************************************************************************)
EXTENDS Witness

CONSTANT Readers

\* A deployment is configured for some log.
ASSUME LogsAssumption == Logs # {}

VARIABLE reads

readVars == <<cosigned, rotations, refusals, equivocations, issued, reads>>

FloorsOf(l) == {n \in {e.size : e \in equivocations} : IsFloor(n, l)}
RetainedRows(l) == {cosigned[i] : i \in {j \in DOMAIN cosigned : IsRetained(j, l)}}

\* What a log would be answered with, were both queries one.
View(l) == [floors |-> FloorsOf(l), rows |-> RetainedRows(l)]
Views == [l \in Logs |-> View(l)]

NoAnswer == [kind |-> "none so far"]
Equivocated(n) == [kind |-> "equivocated", size |-> n]
Nothing == [kind |-> "nothing retained"]
Latest(row) == [kind |-> "checkpoint", row |-> row]

Idle(r) == reads[r].phase = "idle"
Asked(r) == reads[r].phase = "asked"
Unfloored(r) == reads[r].phase = "unfloored"
Answered(r) == reads[r].phase = "answered"

ReadInit ==
  reads = [r \in Readers |->
    [phase |-> "idle", log |-> CHOOSE l \in Logs : TRUE, answer |-> NoAnswer,
     before |-> NoAnswer, views |-> {}, known |-> {}]]

IssuedSeries(l) == {s.cp : s \in {i \in issued : i.series /\ i.cp.log = l}}

\* A request about log l; the last answer is kept if it was about l, too.
Ask(r, l) ==
  /\ Idle(r) \/ Answered(r)
  /\ reads' = [reads EXCEPT ![r] =
       [phase |-> "asked", log |-> l, answer |-> NoAnswer,
        before |-> IF reads[r].log = l THEN reads[r].answer ELSE NoAnswer,
        views |-> {View(l)}, known |-> IssuedSeries(l)]]
  /\ UNCHANGED vars

\* store.equivocation_floor: a floor is the answer.
ReadFloor(r) ==
  /\ Asked(r)
  /\ \/ \E n \in FloorsOf(reads[r].log) :
          reads' = [reads EXCEPT ![r].phase = "answered", ![r].answer = Equivocated(n)]
     \/ /\ ~Floored(reads[r].log)
        /\ reads' = [reads EXCEPT ![r].phase = "unfloored"]
  /\ UNCHANGED vars

\* store.get_retained, after the floor was found absent.
ReadRetained(r) ==
  /\ Unfloored(r)
  /\ \/ \E row \in RetainedRows(reads[r].log) :
          reads' = [reads EXCEPT ![r].phase = "answered", ![r].answer = Latest(row)]
     \/ /\ SeriesRowsOf(reads[r].log) = {}
        /\ reads' = [reads EXCEPT ![r].phase = "answered", ![r].answer = Nothing]
  /\ UNCHANGED vars

\* A decision, and what the readers under way see of it in retrospect.
Witnessed ==
  /\ Next
  /\ reads' = [r \in Readers |->
       IF Asked(r) \/ Unfloored(r)
       THEN [reads[r] EXCEPT !.views = @ \cup {Views'[reads[r].log]}]
       ELSE reads[r]]

ReadNext ==
  \/ Witnessed
  \/ \E r \in Readers : (\E l \in Logs : Ask(r, l)) \/ ReadFloor(r) \/ ReadRetained(r)

ReadSpec == Init /\ ReadInit /\ [][ReadNext]_readVars

-----------------------------------------------------------------------------
(* Freshness (freshness.rs): u64 arithmetic that saturates *)

MaxU64 == 2 * MaxI64 + 1

SaturatingSub(a, b) == IF b > a THEN 0 ELSE a - b
SaturatingAdd(a, b) == IF a + b > MaxU64 THEN MaxU64 ELSE a + b

\* evaluate, on a retained row at the instant the handler reads the clock.
Evaluate(row, now) ==
  LET age == SaturatingSub(now, row.cp.time)
      threshold == SaturatingAdd(row.terms.cadence, row.terms.grace)
  IN [stale |-> age > threshold, age |-> age, threshold |-> threshold]

-----------------------------------------------------------------------------
(* Properties *)

Gives(v, a) ==
  \/ a.kind = "equivocated" /\ v.floors = {a.size}
  \/ a = Nothing /\ v.floors = {} /\ v.rows = {}
  \/ a.kind = "checkpoint" /\ v.floors = {} /\ a.row \in v.rows

\* Every answer is the state the log really was in at some instant while the
\* request ran, although its two queries are two acquisitions of the mutex: an
\* ended log is never published as it stood beside a checkpoint it never had
\* without a floor.
AnswersExisted ==
  \A r \in Readers : Answered(r) => \E v \in reads[r].views : Gives(v, reads[r].answer)

\* A request that begins after a series cosignature was returned to its submitter
\* is answered with a checkpoint at or after it, or with the floor.
AnswersCoverIssued ==
  \A r \in Readers :
    /\ reads[r].answer = Nothing => reads[r].known = {}
    /\ reads[r].answer.kind = "checkpoint" =>
         \A c \in reads[r].known : AtOrBefore(c, reads[r].answer.row.cp)

\* One client's answers about a log never go back: what was ended stays ended at
\* the same floor, and a later checkpoint is at or after the earlier one.
AnswersMoveForward ==
  \A r \in Readers : Answered(r) =>
    /\ reads[r].before.kind = "equivocated" => reads[r].answer = reads[r].before
    /\ reads[r].before.kind = "checkpoint" =>
         \/ reads[r].answer.kind = "equivocated"
         \/ /\ reads[r].answer.kind = "checkpoint"
            /\ AtOrBefore(reads[r].before.row.cp, reads[r].answer.row.cp)

\* Freshness is exact on everything the store can hold: what i64 columns admit
\* never saturates the threshold that is published, and a checkpoint time ahead of
\* the clock is not stale.
StaleExact ==
  \A i \in DOMAIN cosigned : \A now \in 0..MaxU64 :
    LET freshness == Evaluate(cosigned[i], now)
        due == cosigned[i].terms.cadence + cosigned[i].terms.grace
    IN /\ freshness.threshold = due
       /\ freshness.stale <=> now > cosigned[i].cp.time + due

-----------------------------------------------------------------------------
(* The inductive invariant *)

Answer ==
  {NoAnswer, Nothing} \cup [kind : {"equivocated"}, size : Nat]
    \cup [kind : {"checkpoint"}, row : SeriesRow]

ReadTypeOK ==
  reads \in [Readers ->
    [phase : {"idle", "asked", "unfloored", "answered"}, log : Logs,
     answer : Answer, before : Answer,
     views : SUBSET [floors : SUBSET Nat, rows : SUBSET SeriesRow],
     known : SUBSET Checkpoint]]

\* What an answer said goes on being so.
Stands(a, l) ==
  /\ a.kind = "checkpoint" => \E i \in SeriesRowsOf(l) : cosigned[i] = a.row
  /\ a.kind = "equivocated" => FloorsOf(l) = {a.size}

\* A reader that found no floor may read the retained row whenever it likes: the
\* rows of an ended log do not change, so what it reads stood without a floor.
UnderWay(r, l) ==
  /\ Asked(r) \/ Unfloored(r) => reads[r].answer = NoAnswer
  /\ Asked(r) => View(l) \in reads[r].views
  /\ Unfloored(r) =>
       /\ \E v \in reads[r].views : v.floors = {} /\ v.rows = RetainedRows(l)
       /\ reads[r].before.kind # "equivocated"
  /\ \A c \in reads[r].known : c.log = l /\ c \in SeriesCheckpoints
  /\ \A a \in {reads[r].answer, reads[r].before} : Stands(a, l)

\* Every row on record fits its columns.
RowsStorable == \A i \in DOMAIN cosigned : Storable(cosigned[i].terms)

\* What the proofs carry from step to step, beside Inv.
ReadInv ==
  /\ ReadTypeOK
  /\ \A r \in Readers, l \in Logs : reads[r].log = l => UnderWay(r, l)
  /\ AnswersExisted
  /\ AnswersCoverIssued
  /\ AnswersMoveForward

=============================================================================
