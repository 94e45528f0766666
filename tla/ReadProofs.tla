------------------------------ MODULE ReadProofs ------------------------------
(***************************************************************************)
(* Theorems of ReadSide: what the read handlers answer, for any number of  *)
(* logs, readers and decisions between the two queries of a request.  The  *)
(* argument is that the rows of a log with a floor no longer change, so a  *)
(* retained row read after the floor was found absent is the row the log   *)
(* had when it was absent.                                                 *)
(***************************************************************************)
EXTENDS ReadSide, WitnessProofs

-----------------------------------------------------------------------------
(* Floors *)

LEMMA FloorIsMinimum ==
  ASSUME TypeOK, NEW l \in Logs
  PROVE  /\ FloorsOf(l) \subseteq Nat
         /\ \A n \in FloorsOf(l) : FloorsOf(l) = {n}
         /\ FloorsOf(l) # {} => Floored(l)
<1>1. \A e \in equivocations : e.size \in Nat
  BY DEF TypeOK, StoreTypeOK, EquivocationRow
<1>2. FloorsOf(l) \subseteq Nat
  BY <1>1 DEF FloorsOf
<1>3. \A n, m \in FloorsOf(l) : n = m
  <2> SUFFICES ASSUME NEW n \in FloorsOf(l), NEW m \in FloorsOf(l) PROVE n = m
    OBVIOUS
  <2>1. IsFloor(n, l) /\ IsFloor(m, l)
    BY DEF FloorsOf
  <2>2. n <= m /\ m <= n
    BY <2>1 DEF IsFloor
  <2> QED BY <1>2, <2>2
<1>4. FloorsOf(l) # {} => Floored(l)
  BY DEF FloorsOf, IsFloor, Floored
<1> QED BY <1>2, <1>3, <1>4

LEMMA FloorStays ==
  ASSUME TypeOK, NEW o \in Offers, Decide(o), NEW l \in Logs, Floored(l)
  PROVE  FloorsOf(l)' = FloorsOf(l)
<1>1. CASE equivocations' = equivocations
  BY <1>1 DEF FloorsOf, IsFloor
<1>2. CASE /\ ~Floored(o.cp.log)
           /\ equivocations' = equivocations \cup {[log |-> o.cp.log, size |-> o.cp.size]}
  <2> DEFINE new == [log |-> o.cp.log, size |-> o.cp.size]
  <2>1. new.log # l
    BY <1>2
  <2>2. \A n : [log |-> l, size |-> n] # new
    BY <2>1
  <2>3. \A n : IsFloor(n, l)' <=> IsFloor(n, l)
    BY <1>2, <2>1, <2>2 DEF IsFloor
  <2>4. \A n : IsFloor(n, l) => \E e \in equivocations : e.size = n
    BY DEF IsFloor
  <2> QED BY <1>2, <2>3, <2>4 DEF FloorsOf
<1> QED BY <1>1, <1>2, EquivocationsMove

-----------------------------------------------------------------------------
(* The series rows of a log *)

LEMMA RowsGrow ==
  ASSUME TypeOK, NEW o \in Offers, Decide(o)
  PROVE  /\ \A i \in DOMAIN cosigned : i \in DOMAIN cosigned' /\ cosigned'[i] = cosigned[i]
         /\ \A i \in DOMAIN cosigned' :
              i \in DOMAIN cosigned \/ (cosigned'[i].cp.log = o.cp.log /\ CosignSeries(o))
         /\ SeriesCheckpoints \subseteq SeriesCheckpoints'
<1>1. CASE CosignSeries(o)
  BY <1>1, OfferParts, InsertCosignedAdds DEF TypeOK, CosignSeries
<1>2. CASE ~CosignSeries(o)
  <2>1. cosigned' = cosigned
    BY <1>2 DEF Decide, RefuseAtFloor, RefuseEquivocation, RecordEquivocation,
       RefuseSizeRegression, RefuseExtension, CosignRotation, Reject, vars
  <2> QED BY <2>1 DEF SeriesCheckpoints
<1> QED BY <1>1, <1>2

\* A series row is filed only for a log without a floor, and no floor with it.
LEMMA CosignedUnfloored ==
  ASSUME NEW o \in Offers, CosignSeries(o)
  PROVE  ~Floored(o.cp.log) /\ equivocations' = equivocations
BY DEF CosignSeries, SeriesAdmissible, Undisputed, Bootstrap, Compares, NewSize

\* The step that records a floor and every step after it leave the rows alone.
LEMMA RowsOfEnded ==
  ASSUME TypeOK, NEW o \in Offers, Decide(o), NEW l \in Logs, Floored(l)'
  PROVE  RetainedRows(l)' = RetainedRows(l)
<1>1. \A i \in DOMAIN cosigned' : cosigned'[i].cp.log = l => i \in DOMAIN cosigned
  <2> SUFFICES ASSUME CosignSeries(o) PROVE o.cp.log # l
    BY RowsGrow
  <2>1. ~Floored(o.cp.log) /\ equivocations' = equivocations
    BY CosignedUnfloored
  <2> QED BY <2>1 DEF Floored
<1>2. SeriesRowsOf(l)' = SeriesRowsOf(l)
  BY <1>1, RowsGrow DEF SeriesRowsOf
<1>3. \A i \in SeriesRowsOf(l) : cosigned'[i] = cosigned[i]
  BY RowsGrow DEF SeriesRowsOf
<1>4. \A i : IsRetained(i, l)' <=> IsRetained(i, l)
  BY <1>2, <1>3 DEF IsRetained
<1>5. \A i : IsRetained(i, l) => i \in SeriesRowsOf(l) /\ i \in DOMAIN cosigned /\ i \in DOMAIN cosigned'
  BY <1>2 DEF IsRetained, SeriesRowsOf
<1> QED BY <1>3, <1>4, <1>5 DEF RetainedRows

LEMMA RowTypesOf ==
  ASSUME TypeOK, NEW l \in Logs
  PROVE  RetainedRows(l) \subseteq SeriesRow
BY DEF TypeOK, StoreTypeOK, RetainedRows

LEMMA ViewType ==
  ASSUME TypeOK, NEW l \in Logs
  PROVE  View(l) \in [floors : SUBSET Nat, rows : SUBSET SeriesRow]
BY FloorIsMinimum, RowTypesOf DEF View

\* What an answer said of the store outlasts every decision.
LEMMA AnswerStands ==
  ASSUME TypeOK, NEW o \in Offers, Decide(o), NEW l \in Logs, NEW a, Stands(a, l)
  PROVE  Stands(a, l)'
<1>1. a.kind = "checkpoint" => \E i \in SeriesRowsOf(l)' : cosigned'[i] = a.row
  BY RowsGrow DEF Stands, SeriesRowsOf
<1>2. a.kind = "equivocated" => FloorsOf(l)' = {a.size}
  BY FloorIsMinimum, FloorStays DEF Stands
<1> QED BY <1>1, <1>2 DEF Stands

-----------------------------------------------------------------------------
(* A decision beside the readers *)

LEMMA ViewTypeNext ==
  ASSUME TypeOK', NEW l \in Logs
  PROVE  View(l)' \in [floors : SUBSET Nat, rows : SUBSET SeriesRow]
<1>1. FloorsOf(l)' \subseteq Nat
  BY DEF FloorsOf, TypeOK, StoreTypeOK, EquivocationRow
<1>2. RetainedRows(l)' \subseteq SeriesRow
  BY DEF TypeOK, StoreTypeOK, RetainedRows
<1> QED BY <1>1, <1>2 DEF View

LEMMA UnflooredView ==
  ASSUME NEW l \in Logs, ~Floored(l)
  PROVE  View(l).floors = {} /\ View(l).rows = RetainedRows(l)
BY DEF View, FloorsOf, IsFloor, Floored

LEMMA UnflooredViewNext ==
  ASSUME NEW l \in Logs, ~Floored(l)'
  PROVE  View(l)'.floors = {} /\ View(l)'.rows = RetainedRows(l)'
BY DEF View, FloorsOf, IsFloor, Floored

\* What a decision leaves of a reader's record, and what it adds to it.
LEMMA ReadersKept ==
  ASSUME ReadTypeOK, Witnessed, NEW r \in Readers, NEW l \in Logs, reads[r].log = l
  PROVE  /\ reads'[r].phase = reads[r].phase
         /\ reads'[r].log = reads[r].log
         /\ reads'[r].answer = reads[r].answer
         /\ reads'[r].before = reads[r].before
         /\ reads'[r].known = reads[r].known
         /\ Asked(r) \/ Unfloored(r) => reads'[r].views = reads[r].views \cup {View(l)'}
         /\ ~(Asked(r) \/ Unfloored(r)) => reads'[r].views = reads[r].views
<1>1. Views'[l] = View(l)'
  BY DEF Views
<1>2. reads'[r] = IF Asked(r) \/ Unfloored(r)
                  THEN [reads[r] EXCEPT !.views = @ \cup {Views'[reads[r].log]}]
                  ELSE reads[r]
  BY DEF Witnessed
<1> QED BY <1>1, <1>2 DEF ReadTypeOK

LEMMA WitnessedTypes ==
  ASSUME ReadTypeOK, TypeOK', Witnessed
  PROVE  ReadTypeOK'
<1> DEFINE R == [phase : {"idle", "asked", "unfloored", "answered"}, log : Logs,
                 answer : Answer, before : Answer,
                 views : SUBSET [floors : SUBSET Nat, rows : SUBSET SeriesRow],
                 known : SUBSET Checkpoint]
<1>1. reads' = [r \in Readers |->
        IF Asked(r) \/ Unfloored(r)
        THEN [reads[r] EXCEPT !.views = @ \cup {Views'[reads[r].log]}]
        ELSE reads[r]]
  BY DEF Witnessed
<1>2. ASSUME NEW r \in Readers PROVE reads'[r] \in R
  <2>1. reads[r] \in R
    BY DEF ReadTypeOK
  <2>2. PICK l \in Logs : reads[r].log = l
    BY <2>1
  <2>3. Views'[reads[r].log] \in [floors : SUBSET Nat, rows : SUBSET SeriesRow]
    BY <2>2, ViewTypeNext DEF Views
  <2>4. [reads[r] EXCEPT !.views = @ \cup {Views'[reads[r].log]}] \in R
    <3> DEFINE v == Views'[reads[r].log]
    <3> HIDE DEF v
    <3> SUFFICES [reads[r] EXCEPT !.views = @ \cup {v}] \in R
      BY DEF v
    <3> QED BY <2>1, <2>3 DEF v
  <2> QED BY <1>1, <2>1, <2>4
<1> QED BY <1>1, <1>2 DEF ReadTypeOK

LEMMA WitnessedUnderWay ==
  ASSUME TypeOK, ReadInv, Witnessed, NEW r \in Readers, NEW l \in Logs, reads'[r].log = l
  PROVE  UnderWay(r, l)'
<1>1. PICK o \in Offers : Decide(o)
  BY DEF Witnessed, Next
<1>2. /\ reads'[r].phase = reads[r].phase
      /\ reads[r].log = l
      /\ reads'[r].answer = reads[r].answer
      /\ reads'[r].before = reads[r].before
      /\ reads'[r].known = reads[r].known
      /\ Asked(r) \/ Unfloored(r) => reads'[r].views = reads[r].views \cup {View(l)'}
  <2>1. PICK k \in Logs : reads[r].log = k
    BY DEF ReadInv, ReadTypeOK
  <2> QED BY <2>1, ReadersKept DEF ReadInv
<1>3. UnderWay(r, l)
  BY <1>2 DEF ReadInv
<1>4. (Asked(r)' <=> Asked(r)) /\ (Unfloored(r)' <=> Unfloored(r))
  BY <1>2 DEF Asked, Unfloored
<1>5. Unfloored(r) => \E v \in reads'[r].views : v.floors = {} /\ v.rows = RetainedRows(l)'
  <2> SUFFICES ASSUME Unfloored(r)
               PROVE  \E v \in reads'[r].views : v.floors = {} /\ v.rows = RetainedRows(l)'
    OBVIOUS
  <2>1. CASE Floored(l)'
    <3>1. PICK v \in reads[r].views : v.floors = {} /\ v.rows = RetainedRows(l)
      BY <1>3 DEF UnderWay
    <3>2. RetainedRows(l)' = RetainedRows(l)
      BY <1>1, <2>1, RowsOfEnded
    <3> QED BY <1>2, <3>1, <3>2
  <2>2. CASE ~Floored(l)'
    BY <1>2, <2>2, UnflooredViewNext
  <2> QED BY <2>1, <2>2
<1>6. \A c \in reads'[r].known : c.log = l /\ c \in SeriesCheckpoints'
  BY <1>1, <1>2, <1>3, RowsGrow DEF UnderWay
<1>7. \A a \in {reads'[r].answer, reads'[r].before} : Stands(a, l)'
  BY <1>1, <1>2, <1>3, AnswerStands DEF UnderWay
<1> QED BY <1>2, <1>3, <1>4, <1>5, <1>6, <1>7 DEF UnderWay

LEMMA WitnessedStep ==
  ASSUME TypeOK, TypeOK', ReadInv, Witnessed
  PROVE  ReadInv'
<1>1. ReadTypeOK'
  BY WitnessedTypes DEF ReadInv
<1>2. ASSUME NEW r \in Readers
      PROVE  /\ reads'[r].phase = reads[r].phase
             /\ reads'[r].answer = reads[r].answer
             /\ reads'[r].before = reads[r].before
             /\ reads'[r].known = reads[r].known
             /\ Answered(r) => reads'[r].views = reads[r].views
  <2>1. PICK l \in Logs : reads[r].log = l
    BY DEF ReadInv, ReadTypeOK
  <2>2. Answered(r) => ~(Asked(r) \/ Unfloored(r))
    BY DEF Answered, Asked, Unfloored
  <2> QED BY <2>1, <2>2, ReadersKept DEF ReadInv
<1>3. AnswersExisted'
  <2>1. \A r \in Readers : Answered(r)' <=> Answered(r)
    BY <1>2 DEF Answered
  <2> QED BY <1>2, <2>1 DEF ReadInv, AnswersExisted, Gives
<1>4. AnswersCoverIssued'
  BY <1>2 DEF ReadInv, AnswersCoverIssued, AtOrBefore
<1>5. AnswersMoveForward'
  BY <1>2 DEF ReadInv, AnswersMoveForward, AtOrBefore, Answered
<1>6. \A r \in Readers, l \in Logs : reads'[r].log = l => UnderWay(r, l)'
  BY WitnessedUnderWay
<1> QED BY <1>1, <1>3, <1>4, <1>5, <1>6 DEF ReadInv

-----------------------------------------------------------------------------
(* The steps of a reader *)

LEMMA StoreUnchanged ==
  ASSUME UNCHANGED vars, NEW l \in Logs
  PROVE  /\ View(l)' = View(l)
         /\ RetainedRows(l)' = RetainedRows(l)
         /\ SeriesCheckpoints' = SeriesCheckpoints
         /\ \A a : Stands(a, l)' <=> Stands(a, l)
<1>1. cosigned' = cosigned /\ equivocations' = equivocations
  BY DEF vars
<1>2. FloorsOf(l)' = FloorsOf(l)
  BY <1>1 DEF FloorsOf, IsFloor
<1>3. RetainedRows(l)' = RetainedRows(l)
  BY <1>1 DEF RetainedRows, IsRetained, SeriesRowsOf
<1>4. SeriesCheckpoints' = SeriesCheckpoints
  BY <1>1 DEF SeriesCheckpoints
<1>5. \A a : Stands(a, l)' <=> Stands(a, l)
  BY <1>1, <1>2 DEF Stands, SeriesRowsOf
<1> QED BY <1>2, <1>3, <1>4, <1>5 DEF View

\* A step of one reader concerns that reader's part of the invariant.
LEMMA OneReader ==
  ASSUME ReadInv, UNCHANGED vars, ReadTypeOK', NEW r \in Readers,
         \A q \in Readers : q # r => reads'[q] = reads[q],
         \A l \in Logs : reads'[r].log = l => UnderWay(r, l)',
         Answered(r)' => \E v \in reads'[r].views : Gives(v, reads'[r].answer),
         /\ reads'[r].answer = Nothing => reads'[r].known = {}
         /\ reads'[r].answer.kind = "checkpoint" =>
              \A c \in reads'[r].known : AtOrBefore(c, reads'[r].answer.row.cp),
         Answered(r)' =>
           /\ reads'[r].before.kind = "equivocated" => reads'[r].answer = reads'[r].before
           /\ reads'[r].before.kind = "checkpoint" =>
                \/ reads'[r].answer.kind = "equivocated"
                \/ /\ reads'[r].answer.kind = "checkpoint"
                   /\ AtOrBefore(reads'[r].before.row.cp, reads'[r].answer.row.cp)
  PROVE  ReadInv'
<1>1. \A q \in Readers : q # r => (Answered(q)' <=> Answered(q))
  BY DEF Answered
<1>2. \A q \in Readers, l \in Logs : q # r /\ reads'[q].log = l => UnderWay(q, l)'
  <2> SUFFICES ASSUME NEW q \in Readers, NEW l \in Logs, q # r, reads'[q].log = l
               PROVE  UnderWay(q, l)'
    OBVIOUS
  <2>1. reads'[q] = reads[q] /\ UnderWay(q, l)
    BY DEF ReadInv
  <2>2. (Asked(q)' <=> Asked(q)) /\ (Unfloored(q)' <=> Unfloored(q))
    BY <2>1 DEF Asked, Unfloored
  <2> QED BY <2>1, <2>2, StoreUnchanged DEF UnderWay
<1>3. AnswersExisted'
  <2> SUFFICES ASSUME NEW q \in Readers, Answered(q)'
               PROVE  \E v \in reads'[q].views : Gives(v, reads'[q].answer)
    BY DEF AnswersExisted, Gives
  <2> QED BY <1>1 DEF ReadInv, AnswersExisted
<1>4. AnswersCoverIssued'
  <2> SUFFICES ASSUME NEW q \in Readers
               PROVE  /\ reads'[q].answer = Nothing => reads'[q].known = {}
                      /\ reads'[q].answer.kind = "checkpoint" =>
                           \A c \in reads'[q].known : AtOrBefore(c, reads'[q].answer.row.cp)
    BY DEF AnswersCoverIssued, AtOrBefore
  <2> QED BY DEF ReadInv, AnswersCoverIssued
<1>5. AnswersMoveForward'
  <2> SUFFICES ASSUME NEW q \in Readers, Answered(q)'
               PROVE  /\ reads'[q].before.kind = "equivocated" => reads'[q].answer = reads'[q].before
                      /\ reads'[q].before.kind = "checkpoint" =>
                           \/ reads'[q].answer.kind = "equivocated"
                           \/ /\ reads'[q].answer.kind = "checkpoint"
                              /\ AtOrBefore(reads'[q].before.row.cp, reads'[q].answer.row.cp)
    BY DEF AnswersMoveForward, AtOrBefore
  <2> QED BY <1>1 DEF ReadInv, AnswersMoveForward
<1> QED BY <1>2, <1>3, <1>4, <1>5 DEF ReadInv

LEMMA AnswerParts ==
  /\ NoAnswer \in Answer /\ NoAnswer.kind = "none so far"
  /\ Nothing \in Answer /\ Nothing.kind = "nothing retained"
  /\ \A n \in Nat : Equivocated(n) \in Answer /\ Equivocated(n).kind = "equivocated"
                   /\ Equivocated(n).size = n /\ Equivocated(n) # Nothing
  /\ \A row \in SeriesRow : Latest(row) \in Answer /\ Latest(row).kind = "checkpoint"
                   /\ Latest(row).row = row /\ Latest(row) # Nothing
  /\ \A a \in Answer : a.kind = "equivocated" => \E n \in Nat : a = Equivocated(n)
<1>1. NoAnswer \in Answer /\ Nothing \in Answer
  BY DEF Answer
<1>2. NoAnswer.kind = "none so far" /\ Nothing.kind = "nothing retained"
  BY DEF NoAnswer, Nothing
<1>3. ASSUME NEW n \in Nat
      PROVE  /\ Equivocated(n) \in Answer /\ Equivocated(n).kind = "equivocated"
             /\ Equivocated(n).size = n /\ Equivocated(n) # Nothing
  <2>1. Equivocated(n).kind = "equivocated" /\ Equivocated(n).size = n
    BY DEF Equivocated
  <2>2. Equivocated(n) \in [kind : {"equivocated"}, size : Nat]
    BY DEF Equivocated
  <2> QED BY <1>2, <2>1, <2>2 DEF Answer
<1>4. ASSUME NEW row \in SeriesRow
      PROVE  /\ Latest(row) \in Answer /\ Latest(row).kind = "checkpoint"
             /\ Latest(row).row = row /\ Latest(row) # Nothing
  <2>1. Latest(row).kind = "checkpoint" /\ Latest(row).row = row
    BY DEF Latest
  <2>2. Latest(row) \in [kind : {"checkpoint"}, row : SeriesRow]
    BY DEF Latest
  <2> QED BY <1>2, <2>1, <2>2 DEF Answer
<1>5. ASSUME NEW a \in Answer, a.kind = "equivocated" PROVE \E n \in Nat : a = Equivocated(n)
  <2>1. a \in [kind : {"equivocated"}, size : Nat]
    BY <1>2, <1>5 DEF Answer
  <2> QED BY <2>1 DEF Equivocated
<1> QED BY <1>1, <1>2, <1>3, <1>4, <1>5

LEMMA AskStep ==
  ASSUME TypeOK, Inv, ReadInv, NEW r \in Readers, NEW l \in Logs, Ask(r, l)
  PROVE  ReadInv'
<1> DEFINE before == IF reads[r].log = l THEN reads[r].answer ELSE NoAnswer
           record == [phase |-> "asked", log |-> l, answer |-> NoAnswer, before |-> before,
                      views |-> {View(l)}, known |-> IssuedSeries(l)]
<1>1. UNCHANGED vars /\ reads' = [reads EXCEPT ![r] = record]
  BY DEF Ask
<1>2. /\ before \in Answer
      /\ Stands(before, l)
  <2>1. reads[r].answer \in Answer /\ (reads[r].log = l => Stands(reads[r].answer, l))
    BY DEF ReadInv, ReadTypeOK, UnderWay
  <2>2. Stands(NoAnswer, l)
    BY AnswerParts DEF Stands
  <2> QED BY <2>1, <2>2, AnswerParts
<1>3. IssuedSeries(l) \subseteq Checkpoint
  BY DEF TypeOK, Issue, IssuedSeries
<1>4. \A c \in IssuedSeries(l) : c.log = l /\ c \in SeriesCheckpoints
  BY DEF Inv, IssuedSeriesStored, IssuedSeries
<1>5. reads'[r] = record /\ \A q \in Readers : q # r => reads'[q] = reads[q]
  BY <1>1 DEF ReadInv, ReadTypeOK
<1>6. ReadTypeOK'
  <2>1. View(l) \in [floors : SUBSET Nat, rows : SUBSET SeriesRow]
    BY ViewType
  <2> HIDE DEF before
  <2> QED BY <1>1, <1>2, <1>3, <2>1, AnswerParts DEF ReadInv, ReadTypeOK
<1>7. /\ reads'[r].phase = "asked" /\ reads'[r].log = l /\ reads'[r].answer = NoAnswer
      /\ reads'[r].before = before /\ reads'[r].views = {View(l)}
      /\ reads'[r].known = IssuedSeries(l)
  BY <1>5
<1>8. UnderWay(r, l)'
  <2>1. Asked(r)' /\ ~Unfloored(r)'
    BY <1>7 DEF Asked, Unfloored
  <2>2. \A a \in {reads'[r].answer, reads'[r].before} : Stands(a, l)'
    <3>1. Stands(NoAnswer, l)
      BY AnswerParts DEF Stands
    <3> HIDE DEF before
    <3> QED BY <1>1, <1>2, <1>7, <3>1, StoreUnchanged
  <2> QED BY <1>1, <1>4, <1>7, <2>1, <2>2, StoreUnchanged DEF UnderWay
<1>9. ~Answered(r)' /\ reads'[r].answer # Nothing /\ reads'[r].answer.kind # "checkpoint"
  BY <1>7, AnswerParts DEF Answered
<1>10. \A k \in Logs : reads'[r].log = k => UnderWay(r, k)'
  BY <1>7, <1>8
<1> QED BY <1>1, <1>5, <1>6, <1>9, <1>10, OneReader

\* What a reader under way knows.
LEMMA ReaderTypes ==
  ASSUME ReadInv, NEW r \in Readers
  PROVE  /\ reads[r].log \in Logs
         /\ reads[r].before \in Answer
         /\ UnderWay(r, reads[r].log)
<1>1. reads[r].log \in Logs /\ reads[r].before \in Answer
  BY DEF ReadInv, ReadTypeOK
<1> QED BY <1>1 DEF ReadInv

\* A reader that moves on with answer a in this phase.
LEMMA ReaderRecord ==
  ASSUME ReadInv, UNCHANGED vars, NEW r \in Readers,
         NEW phase \in {"unfloored", "answered"}, NEW a \in Answer,
         reads' = [reads EXCEPT ![r].phase = phase, ![r].answer = a]
  PROVE  /\ ReadTypeOK'
         /\ \A q \in Readers : q # r => reads'[q] = reads[q]
         /\ reads'[r].phase = phase
         /\ reads'[r].log = reads[r].log
         /\ reads'[r].answer = a
         /\ reads'[r].before = reads[r].before
         /\ reads'[r].views = reads[r].views
         /\ reads'[r].known = reads[r].known
BY DEF ReadInv, ReadTypeOK

\* The part of UnderWay that does not depend on the phase.
LEMMA RecordUnderWay ==
  ASSUME ReadInv, UNCHANGED vars, NEW r \in Readers, NEW l \in Logs, NEW a,
         UnderWay(r, l), Stands(a, l),
         reads'[r].answer = a, reads'[r].before = reads[r].before,
         reads'[r].known = reads[r].known
  PROVE  /\ \A c \in reads'[r].known : c.log = l /\ c \in SeriesCheckpoints'
         /\ \A b \in {reads'[r].answer, reads'[r].before} : Stands(b, l)'
BY StoreUnchanged DEF UnderWay

LEMMA ReadFloorStep ==
  ASSUME TypeOK, ReadInv, NEW r \in Readers, ReadFloor(r)
  PROVE  ReadInv'
<1>0. PICK l \in Logs : reads[r].log = l
  BY ReaderTypes
<1>1. /\ UnderWay(r, l) /\ reads[r].before \in Answer
      /\ reads[r].answer = NoAnswer
      /\ View(l) \in reads[r].views
      /\ UNCHANGED vars
  BY <1>0, ReaderTypes DEF ReadFloor, UnderWay
<1>2. ASSUME NEW n \in FloorsOf(l),
             reads' = [reads EXCEPT ![r].phase = "answered", ![r].answer = Equivocated(n)]
      PROVE  ReadInv'
  <2>1. n \in Nat /\ FloorsOf(l) = {n}
    BY <1>2, FloorIsMinimum
  <2> DEFINE a == Equivocated(n)
  <2>2. a \in Answer /\ a.kind = "equivocated" /\ a.size = n /\ a # Nothing
    BY <2>1, AnswerParts
  <2> HIDE DEF a
  <2>3. /\ ReadTypeOK'
        /\ \A q \in Readers : q # r => reads'[q] = reads[q]
        /\ reads'[r].phase = "answered" /\ reads'[r].log = l /\ reads'[r].answer = a
        /\ reads'[r].before = reads[r].before /\ reads'[r].views = reads[r].views
        /\ reads'[r].known = reads[r].known
    BY <1>0, <1>1, <1>2, <2>2, ReaderRecord DEF a
  <2>4. Stands(a, l)
    BY <2>1, <2>2 DEF Stands
  <2>5. \A k \in Logs : reads'[r].log = k => UnderWay(r, k)'
    <3>1. ~Asked(r)' /\ ~Unfloored(r)'
      BY <2>3 DEF Asked, Unfloored
    <3>2. UnderWay(r, l)'
      BY <1>1, <2>3, <2>4, <3>1, RecordUnderWay DEF UnderWay
    <3> QED BY <2>3, <3>2
  <2>6. \E v \in reads'[r].views : Gives(v, reads'[r].answer)
    <3>1. View(l).floors = {n}
      BY <2>1 DEF View
    <3> QED BY <1>1, <2>2, <2>3, <3>1 DEF Gives
  <2>7. reads'[r].before.kind = "equivocated" => reads'[r].answer = reads'[r].before
    <3> SUFFICES ASSUME reads[r].before.kind = "equivocated" PROVE a = reads[r].before
      BY <2>3
    <3>1. PICK m \in Nat : reads[r].before = Equivocated(m)
      BY <1>1, AnswerParts
    <3>2. FloorsOf(l) = {reads[r].before.size} /\ reads[r].before.size = m
      BY <1>1, <3>1, AnswerParts DEF UnderWay, Stands
    <3> QED BY <2>1, <3>1, <3>2 DEF a
  <2> QED BY <1>1, <2>2, <2>3, <2>5, <2>6, <2>7, OneReader
<1>3. ASSUME ~Floored(l), reads' = [reads EXCEPT ![r].phase = "unfloored"]
      PROVE  ReadInv'
  <2>0. reads' = [reads EXCEPT ![r].phase = "unfloored", ![r].answer = NoAnswer]
    BY <1>1, <1>3 DEF ReadInv, ReadTypeOK
  <2>1. /\ ReadTypeOK'
        /\ \A q \in Readers : q # r => reads'[q] = reads[q]
        /\ reads'[r].phase = "unfloored" /\ reads'[r].log = l /\ reads'[r].answer = NoAnswer
        /\ reads'[r].before = reads[r].before /\ reads'[r].views = reads[r].views
        /\ reads'[r].known = reads[r].known
    <3>1. NoAnswer \in Answer
      BY AnswerParts
    <3> QED BY <1>0, <1>1, <2>0, <3>1, ReaderRecord
  <2>2. ~Asked(r)' /\ Unfloored(r)' /\ ~Answered(r)'
    BY <2>1 DEF Asked, Unfloored, Answered
  <2>3. \E v \in reads'[r].views : v.floors = {} /\ v.rows = RetainedRows(l)'
    BY <1>1, <1>3, <2>1, UnflooredView, StoreUnchanged
  <2>4. reads'[r].before.kind # "equivocated"
    <3> SUFFICES ASSUME reads[r].before.kind = "equivocated" PROVE FALSE
      BY <2>1
    <3>1. FloorsOf(l) # {}
      BY <1>1 DEF UnderWay, Stands
    <3> QED BY <1>3, <3>1, FloorIsMinimum
  <2>5. Stands(NoAnswer, l)
    BY AnswerParts DEF Stands
  <2>6. \A k \in Logs : reads'[r].log = k => UnderWay(r, k)'
    <3>1. UnderWay(r, l)'
      BY <1>1, <2>1, <2>2, <2>3, <2>4, <2>5, RecordUnderWay DEF UnderWay
    <3> QED BY <2>1, <3>1
  <2>7. reads'[r].answer # Nothing /\ reads'[r].answer.kind # "checkpoint"
    BY <2>1, AnswerParts
  <2> QED BY <1>1, <2>1, <2>2, <2>6, <2>7, OneReader
<1> QED BY <1>0, <1>2, <1>3 DEF ReadFloor

LEMMA ReadRetainedStep ==
  ASSUME TypeOK, ReadInv, NEW r \in Readers, ReadRetained(r)
  PROVE  ReadInv'
<1>0. PICK l \in Logs : reads[r].log = l
  BY ReaderTypes
<1>1. /\ UnderWay(r, l) /\ reads[r].before \in Answer
      /\ reads[r].before.kind # "equivocated"
      /\ UNCHANGED vars
  BY <1>0, ReaderTypes DEF ReadRetained, UnderWay
<1>2. PICK v \in reads[r].views : v.floors = {} /\ v.rows = RetainedRows(l)
  BY <1>0, <1>1 DEF ReadRetained, UnderWay
<1>3. \A c \in reads[r].known : \E j \in SeriesRowsOf(l) : cosigned[j].cp = c
  BY <1>1 DEF UnderWay, SeriesCheckpoints, SeriesRowsOf
<1>4. reads[r].before.kind = "checkpoint" =>
        \E j \in SeriesRowsOf(l) : cosigned[j] = reads[r].before.row
  BY <1>1 DEF UnderWay, Stands
<1>5. ASSUME NEW a \in Answer,
             reads' = [reads EXCEPT ![r].phase = "answered", ![r].answer = a],
             Stands(a, l), Gives(v, a),
             a = Nothing => reads[r].known = {},
             a.kind = "checkpoint" => \A c \in reads[r].known : AtOrBefore(c, a.row.cp),
             reads[r].before.kind = "checkpoint" =>
               a.kind = "checkpoint" /\ AtOrBefore(reads[r].before.row.cp, a.row.cp)
      PROVE  ReadInv'
  <2>1. /\ ReadTypeOK'
        /\ \A q \in Readers : q # r => reads'[q] = reads[q]
        /\ reads'[r].phase = "answered" /\ reads'[r].log = l /\ reads'[r].answer = a
        /\ reads'[r].before = reads[r].before /\ reads'[r].views = reads[r].views
        /\ reads'[r].known = reads[r].known
    BY <1>0, <1>1, <1>5, ReaderRecord
  <2>2. \A k \in Logs : reads'[r].log = k => UnderWay(r, k)'
    <3>1. ~Asked(r)' /\ ~Unfloored(r)'
      BY <2>1 DEF Asked, Unfloored
    <3>2. UnderWay(r, l)'
      BY <1>1, <1>5, <2>1, <3>1, RecordUnderWay DEF UnderWay
    <3> QED BY <2>1, <3>2
  <2> QED BY <1>1, <1>2, <1>5, <2>1, <2>2, OneReader
<1>6. ASSUME NEW row \in RetainedRows(l),
             reads' = [reads EXCEPT ![r].phase = "answered", ![r].answer = Latest(row)]
      PROVE  ReadInv'
  <2> DEFINE a == Latest(row)
  <2>1. row \in SeriesRow
    BY RowTypesOf
  <2>2. a \in Answer /\ a.kind = "checkpoint" /\ a.row = row /\ a # Nothing
    BY <2>1, AnswerParts
  <2>3. PICK i \in DOMAIN cosigned : IsRetained(i, l) /\ cosigned[i] = row
    BY <1>6 DEF RetainedRows
  <2>4. \A j \in SeriesRowsOf(l) : AtOrBefore(cosigned[j].cp, row.cp)
    BY <2>3 DEF IsRetained
  <2>5. i \in SeriesRowsOf(l)
    BY <2>3 DEF IsRetained
  <2> HIDE DEF a
  <2>6. Stands(a, l) /\ Gives(v, a)
    BY <1>2, <1>6, <2>2, <2>3, <2>5 DEF Stands, Gives
  <2>7. \A c \in reads[r].known : AtOrBefore(c, a.row.cp)
    BY <1>3, <2>2, <2>4
  <2>8. reads[r].before.kind = "checkpoint" => AtOrBefore(reads[r].before.row.cp, a.row.cp)
    BY <1>4, <2>2, <2>4
  <2>9. reads' = [reads EXCEPT ![r].phase = "answered", ![r].answer = a]
    BY <1>6 DEF a
  <2> QED BY <1>5, <2>2, <2>6, <2>7, <2>8, <2>9
<1>7. ASSUME SeriesRowsOf(l) = {},
             reads' = [reads EXCEPT ![r].phase = "answered", ![r].answer = Nothing]
      PROVE  ReadInv'
  <2>1. RetainedRows(l) = {}
    BY <1>7 DEF RetainedRows, IsRetained
  <2>2. Stands(Nothing, l) /\ Gives(v, Nothing)
    BY <1>2, <2>1, AnswerParts DEF Stands, Gives
  <2>3. reads[r].known = {} /\ reads[r].before.kind # "checkpoint"
    BY <1>3, <1>4, <1>7
  <2> QED BY <1>5, <1>7, <2>2, <2>3, AnswerParts
<1> QED BY <1>0, <1>6, <1>7 DEF ReadRetained

-----------------------------------------------------------------------------
(* The theorems *)

\* Beside the readers, the decision procedure runs as it does alone.
LEMMA ReadStepIsStep == [ReadNext]_readVars => [Next]_vars
BY DEF ReadNext, Witnessed, Ask, ReadFloor, ReadRetained, readVars, vars

LEMMA ReadInvInit == Init /\ ReadInit => ReadInv
<1> SUFFICES ASSUME Init, ReadInit PROVE ReadInv
  OBVIOUS
<1> DEFINE l0 == CHOOSE l \in Logs : TRUE
<1>1. l0 \in Logs
  BY LogsAssumption
<1>2. reads = [r \in Readers |->
        [phase |-> "idle", log |-> l0, answer |-> NoAnswer, before |-> NoAnswer,
         views |-> {}, known |-> {}]]
  BY DEF ReadInit
<1> HIDE DEF l0
<1>3. \A r \in Readers :
        /\ reads[r].phase = "idle" /\ reads[r].answer = NoAnswer
        /\ reads[r].before = NoAnswer /\ reads[r].known = {}
  BY <1>2
<1>4. ReadTypeOK
  BY <1>1, <1>2, AnswerParts DEF ReadTypeOK
<1>5. \A r \in Readers : ~Asked(r) /\ ~Unfloored(r) /\ ~Answered(r)
  BY <1>3 DEF Asked, Unfloored, Answered
<1>6. \A l \in Logs : Stands(NoAnswer, l)
  BY AnswerParts DEF Stands
<1>7. \A r \in Readers, l \in Logs : UnderWay(r, l)
  BY <1>3, <1>5, <1>6 DEF UnderWay
<1>8. AnswersExisted /\ AnswersMoveForward
  BY <1>5 DEF AnswersExisted, AnswersMoveForward
<1>9. AnswersCoverIssued
  BY <1>3, AnswerParts DEF AnswersCoverIssued
<1> QED BY <1>4, <1>7, <1>8, <1>9 DEF ReadInv

LEMMA ReadInvUnchanged == ReadInv /\ UNCHANGED readVars => ReadInv'
<1> SUFFICES ASSUME ReadInv, UNCHANGED readVars PROVE ReadInv'
  OBVIOUS
<1>1. UNCHANGED vars /\ reads' = reads
  BY DEF readVars, vars
<1>2. ReadTypeOK' /\ AnswersExisted' /\ AnswersCoverIssued' /\ AnswersMoveForward'
  BY <1>1 DEF ReadInv, ReadTypeOK, AnswersExisted, AnswersCoverIssued, AnswersMoveForward, Answered,
     Gives, AtOrBefore
<1>3. \A r \in Readers, l \in Logs : reads'[r].log = l => UnderWay(r, l)'
  <2> SUFFICES ASSUME NEW r \in Readers, NEW l \in Logs, reads[r].log = l PROVE UnderWay(r, l)'
    BY <1>1
  <2>1. (Asked(r)' <=> Asked(r)) /\ (Unfloored(r)' <=> Unfloored(r))
    BY <1>1 DEF Asked, Unfloored
  <2> QED BY <1>1, <2>1, StoreUnchanged DEF ReadInv, UnderWay
<1> QED BY <1>2, <1>3 DEF ReadInv

LEMMA ReadInvStep == Inv /\ Inv' /\ ReadInv /\ [ReadNext]_readVars => ReadInv'
<1> SUFFICES ASSUME Inv, Inv', ReadInv, [ReadNext]_readVars PROVE ReadInv'
  OBVIOUS
<1>1. TypeOK /\ TypeOK'
  BY DEF Inv
<1>2. CASE Witnessed
  BY <1>1, <1>2, WitnessedStep
<1>3. ASSUME NEW r \in Readers, NEW l \in Logs, Ask(r, l) PROVE ReadInv'
  BY <1>1, <1>3, AskStep
<1>4. ASSUME NEW r \in Readers, ReadFloor(r) PROVE ReadInv'
  BY <1>1, <1>4, ReadFloorStep
<1>5. ASSUME NEW r \in Readers, ReadRetained(r) PROVE ReadInv'
  BY <1>1, <1>5, ReadRetainedStep
<1>6. CASE UNCHANGED readVars
  BY <1>6, ReadInvUnchanged
<1> QED BY <1>2, <1>3, <1>4, <1>5, <1>6 DEF ReadNext

\* The decision procedure's invariant and the readers' hold side by side, whatever
\* is decided between the two queries of a request.
THEOREM ReadsCorrect == ReadSpec => [](Inv /\ ReadInv)
<1>1. Init /\ ReadInit => Inv /\ ReadInv
  BY InitInv, ReadInvInit
<1>2. Inv /\ ReadInv /\ [ReadNext]_readVars => (Inv /\ ReadInv)'
  BY ReadStepIsStep, InvStep, ReadInvStep
<1> QED BY <1>1, <1>2, PTL DEF ReadSpec

\* published_checkpoint and freshness_handler answer with a state the log was in
\* while the request ran, although they take the store's mutex twice.
THEOREM ReadsExisted == ReadSpec => []AnswersExisted
<1>1. Inv /\ ReadInv => AnswersExisted
  BY DEF ReadInv
<1> QED BY <1>1, ReadsCorrect, PTL

\* A request that begins after a series cosignature was returned is answered with a
\* checkpoint at or after it, or with the floor.
THEOREM ReadsCoverIssued == ReadSpec => []AnswersCoverIssued
<1>1. Inv /\ ReadInv => AnswersCoverIssued
  BY DEF ReadInv
<1> QED BY <1>1, ReadsCorrect, PTL

\* One client's answers about a log never go back, and a floor is the last word.
THEOREM ReadsMoveForward == ReadSpec => []AnswersMoveForward
<1>1. Inv /\ ReadInv => AnswersMoveForward
  BY DEF ReadInv
<1> QED BY <1>1, ReadsCorrect, PTL

LEMMA StorableStep == TypeOK /\ RowsStorable /\ [Next]_vars => RowsStorable'
<1> SUFFICES ASSUME TypeOK, RowsStorable, [Next]_vars PROVE RowsStorable'
  OBVIOUS
<1>1. CASE UNCHANGED vars
  BY <1>1 DEF vars, RowsStorable
<1>2. ASSUME NEW o \in Offers, Decide(o) PROVE RowsStorable'
  <2>1. CASE cosigned' = cosigned
    BY <2>1 DEF RowsStorable
  <2>2. CASE cosigned' # cosigned
    <3>1. CosignSeries(o)
      BY <1>2, <2>2 DEF Decide, RefuseAtFloor, RefuseEquivocation, RecordEquivocation,
         RefuseSizeRegression, RefuseExtension, CosignRotation, Reject, vars
    <3> DEFINE terms == TermsOf(o.cp.log, o.entries)
               row == [cp |-> o.cp, terms |-> terms, at |-> o.at]
    <3>2. Storable(terms) /\ cosigned' = Append(cosigned, row)
      BY <2>2, <3>1 DEF CosignSeries, CanCosignSeries, CanInsertCosigned, InsertCosigned
    <3>3. cosigned \in Seq(SeriesRow)
      BY DEF TypeOK, StoreTypeOK
    <3>4. \A i \in DOMAIN cosigned' : (i \in DOMAIN cosigned /\ cosigned'[i] = cosigned[i]) \/ cosigned'[i] = row
      <4> HIDE DEF row
      <4> QED BY <3>2, <3>3
    <3> QED BY <3>2, <3>4 DEF RowsStorable
  <2> QED BY <2>1, <2>2
<1> QED BY <1>1, <1>2 DEF Next

\* Freshness is exact: what the columns of the store admit never saturates the u64
\* threshold of freshness.rs.
THEOREM StalenessExact == ReadSpec => []StaleExact
<1>1. Init => RowsStorable
  BY DEF Init, StoreInit, RowsStorable
<1>2. Inv /\ RowsStorable /\ [ReadNext]_readVars => RowsStorable'
  BY ReadStepIsStep, StorableStep DEF Inv
<1>3. ASSUME TypeOK, RowsStorable PROVE StaleExact
  <2> SUFFICES ASSUME NEW i \in DOMAIN cosigned, NEW now \in 0..MaxU64
               PROVE  /\ Evaluate(cosigned[i], now).threshold
                           = cosigned[i].terms.cadence + cosigned[i].terms.grace
                      /\ Evaluate(cosigned[i], now).stale <=>
                           now > cosigned[i].cp.time
                                   + (cosigned[i].terms.cadence + cosigned[i].terms.grace)
    BY DEF StaleExact
  <2>1. cosigned[i] \in SeriesRow
    BY <1>3 DEF TypeOK, StoreTypeOK
  <2>2. PICK t \in Nat, c \in Nat, g \in Nat :
          cosigned[i].cp.time = t /\ cosigned[i].terms.cadence = c /\ cosigned[i].terms.grace = g
    BY <2>1 DEF SeriesRow, Checkpoint, FreshnessTerms
  <2>3. c <= MaxI64 /\ g <= MaxI64
    BY <1>3, <2>2 DEF RowsStorable, Storable
  <2>4. SaturatingAdd(c, g) = c + g
    BY <2>3, MaxI64Assumption DEF SaturatingAdd, MaxU64
  <2>5. SaturatingSub(now, t) > c + g <=> now > t + (c + g)
    BY MaxI64Assumption DEF SaturatingSub, MaxU64
  <2> QED BY <2>2, <2>4, <2>5 DEF Evaluate
<1>4. Inv /\ ReadInv /\ RowsStorable => StaleExact
  BY <1>3 DEF Inv
<1> QED BY <1>1, <1>2, <1>4, ReadsCorrect, PTL DEF ReadSpec

=============================================================================
