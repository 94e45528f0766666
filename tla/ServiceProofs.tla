---------------------------- MODULE ServiceProofs ----------------------------
(***************************************************************************)
(* The running service implements the decision procedure: whatever the     *)
(* handlers, the failures and the crashes, each step of WitnessService is  *)
(* one decision of Witness on the committed tables, or leaves them alone.  *)
(***************************************************************************)
EXTENDS WitnessService, WitnessProofs

-----------------------------------------------------------------------------
(* What a commit does *)

\* Appending the pending series row to the table is insert_cosigned.
LEMMA SeriesCommits ==
  ASSUME TypeOK, NEW o \in Offers,
         cosigned' = cosigned \o
           (IF SeriesPresent(o.cp) THEN <<>>
            ELSE <<[cp |-> o.cp, terms |-> TermsOf(o.cp.log, o.entries), at |-> o.at]>>)
  PROVE  InsertCosigned(o.cp, TermsOf(o.cp.log, o.entries), o.at)
<1> DEFINE row == [cp |-> o.cp, terms |-> TermsOf(o.cp.log, o.entries), at |-> o.at]
<1>1. cosigned \in Seq(SeriesRow) /\ row \in SeriesRow
  BY OfferParts DEF TypeOK, StoreTypeOK, SeriesRow
<1>2. cosigned \o <<>> = cosigned /\ Append(cosigned, row) = cosigned \o <<row>>
  BY <1>1, ConcatEmptySeq, AppendIsConcat
<1> QED
  BY <1>2 DEF InsertCosigned

\* A table is left alone by a transaction that inserted nothing in it.
LEMMA NothingCommits ==
  ASSUME TypeOK
  PROVE  cosigned \o <<>> = cosigned /\ refusals \o <<>> = refusals
BY ConcatEmptySeq DEF TypeOK, StoreTypeOK

\* The pending anchors of a finished task are what insert_rotation_cosigned files.
LEMMA AnchorsCommit ==
  ASSUME NEW o \in Offers,
         \A x \in Anchors(o) \ {} : ~RotationClash(x, o.cp, o.at),
         rotations' = rotations \cup RowsFiled(o, Anchors(o) \ {})
  PROVE  /\ CanInsertRotation(Anchors(o), o.cp, o.at)
         /\ InsertRotation(Anchors(o), o.cp, o.at)
<1>1. Anchors(o) \ {} = Anchors(o)
  OBVIOUS
<1> QED
  BY <1>1 DEF CanInsertRotation, InsertRotation, RowsFiled

\* The evidence a task was to publish is a refusal, appended to the table.
LEMMA RefusalCommits ==
  ASSUME TypeOK, NEW o \in Offers, NEW answer, NEW floor, CallsForRefusal(o, answer, floor)
  PROVE  /\ answer.status = "refused" /\ answer.evidence \in Refusal
         /\ answer \in Answers
         /\ Append(refusals, answer.evidence) = refusals \o <<answer.evidence>>
         /\ floor \subseteq EquivocationRow
<1>1. /\ \A i \in DOMAIN cosigned : cosigned[i].cp \in Checkpoint
      /\ \A i \in DOMAIN refusals : refusals[i] \in Refusal
      /\ \A held \in Held : held \in Checkpoint
  BY RowTypes, HeldTypes DEF TypeOK
<1>2. o.cp \in Checkpoint /\ o.entries \in Root /\ NoProof \in Proof
  BY OfferParts DEF NoProof, Proof, Root
<1>3. \A r \in Reasons, c \in Checkpoint, d \in Checkpoint, p \in Proof :
        /\ Refused(r, c, d, p).status = "refused"
        /\ Refused(r, c, d, p).evidence \in Refusal
        /\ Refused(r, c, d, p) \in Answers
  BY DEF Refused, Refusal, Answers
<1>4. answer.status = "refused" /\ answer.evidence \in Refusal /\ answer \in Answers
  <2>1. CASE \E i \in DOMAIN refusals :
               answer = Refused("equivocation", refusals[i].retained, refusals[i].offered, NoProof)
    BY <1>1, <1>2, <1>3, <2>1 DEF Refusal, Reasons
  <2>2. CASE \E held \in Held : answer = Refused("equivocation", held, o.cp, NoProof)
    BY <1>1, <1>2, <1>3, <2>2 DEF Reasons
  <2>3. CASE \E i \in DOMAIN cosigned :
               answer = Refused("size-regression", cosigned[i].cp, o.cp, NoProof)
    BY <1>1, <1>2, <1>3, <2>3 DEF Reasons
  <2>4. CASE \E i \in DOMAIN cosigned :
               answer = Refused("extension-failed", cosigned[i].cp, o.cp,
                  [from |-> cosigned[i].cp.size, to |-> o.cp.size, leaves |-> o.entries])
    <3>1. PICK i \in DOMAIN cosigned :
               answer = Refused("extension-failed", cosigned[i].cp, o.cp,
                  [from |-> cosigned[i].cp.size, to |-> o.cp.size, leaves |-> o.entries])
      BY <2>4
    <3>2. [from |-> cosigned[i].cp.size, to |-> o.cp.size, leaves |-> o.entries] \in Proof
      BY <1>1, <1>2 DEF Proof, Checkpoint
    <3> QED
      BY <1>1, <1>2, <1>3, <3>1, <3>2 DEF Reasons
  <2> QED
    BY <2>1, <2>2, <2>3, <2>4 DEF CallsForRefusal
<1>5. Append(refusals, answer.evidence) = refusals \o <<answer.evidence>>
  BY <1>4, AppendIsConcat DEF TypeOK, StoreTypeOK
<1>6. floor \subseteq EquivocationRow
  BY <1>2 DEF CallsForRefusal, EquivocationRow, Checkpoint
<1> QED
  BY <1>4, <1>5, <1>6

\* A finished transaction commits exactly one decision of Witness.
LEMMA CommitDecides ==
  ASSUME ServiceInv, NEW h \in Handlers, Commit(h)
  PROVE  task[h].offer \in Offers /\ Decide(task[h].offer)
<1> DEFINE t == task[h]
           o == t.offer
<1>1. TypeOK /\ o \in Offers /\ Authentic(o)
  BY DEF ServiceInv, ServiceTypeOK, Staged, Spawned, Commit, Transaction
<1>2. \/ CosigningStaged(t, o) /\ t.todo = {}
      \/ RefusingStaged(t, o) /\ t.writes.refusal = <<t.answer.evidence>>
  BY DEF ServiceInv, Staged, Spawned, Commit
<1>3. /\ cosigned' = cosigned \o t.writes.series
      /\ rotations' = rotations \cup t.writes.anchors
      /\ refusals' = refusals \o t.writes.refusal
      /\ equivocations' = equivocations \cup t.writes.floor
      /\ issued' = issued \cup IssuedBy(t.answer)
  BY DEF Commit
<1>4. CASE CosigningStaged(t, o) /\ t.todo = {}
  <2>1. refusals' = refusals /\ equivocations' = equivocations
    BY <1>1, <1>3, <1>4, NothingCommits DEF CosigningStaged
  <2>2. CanInsertRotation(Anchors(o), o.cp, o.at) /\ InsertRotation(Anchors(o), o.cp, o.at)
    BY <1>1, <1>3, <1>4, AnchorsCommit DEF CosigningStaged
  <2>3. CASE /\ SeriesAdmissible(o)
             /\ CanInsertCosigned(o.cp, TermsOf(o.cp.log, o.entries))
             /\ t.answer = Cosigned(o.cp, TRUE, Anchors(o))
             /\ t.writes.series = IF SeriesPresent(o.cp) THEN <<>>
                 ELSE <<[cp |-> o.cp, terms |-> TermsOf(o.cp.log, o.entries), at |-> o.at]>>
    <3>1. InsertCosigned(o.cp, TermsOf(o.cp.log, o.entries), o.at)
      BY <1>1, <1>3, <2>3, SeriesCommits
    <3>2. issued' = issued \cup {[cp |-> o.cp, series |-> TRUE, anchors |-> Anchors(o)]}
      BY <1>3, <2>3 DEF IssuedBy, Cosigned
    <3>3. CosignSeries(o)
      BY <2>1, <2>2, <2>3, <3>1, <3>2 DEF CosignSeries, CanCosignSeries
    <3> QED
      BY <1>1, <3>3 DEF Decide
  <2>4. CASE /\ RotationAdmissible(o)
             /\ t.answer = Cosigned(o.cp, FALSE, Anchors(o))
             /\ t.writes.series = <<>>
    <3>1. cosigned' = cosigned
      BY <1>1, <1>3, <2>4, NothingCommits
    <3>2. issued' = issued \cup {[cp |-> o.cp, series |-> FALSE, anchors |-> Anchors(o)]}
      BY <1>3, <2>4 DEF IssuedBy, Cosigned
    <3>3. CosignRotation(o)
      BY <2>1, <2>2, <2>4, <3>1, <3>2 DEF CosignRotation
    <3> QED
      BY <1>1, <3>3 DEF Decide
  <2> QED
    BY <1>4, <2>3, <2>4 DEF CosigningStaged
<1>5. CASE RefusingStaged(t, o) /\ t.writes.refusal = <<t.answer.evidence>>
  <2>1. CallsForRefusal(o, t.answer, t.writes.floor)
    BY <1>5 DEF RefusingStaged
  <2>2. /\ t.answer.status = "refused"
        /\ refusals' = Append(refusals, t.answer.evidence)
    BY <1>1, <1>3, <1>5, <2>1, RefusalCommits
  <2>3. cosigned' = cosigned /\ rotations' = rotations /\ issued' = issued
    BY <1>1, <1>3, <1>5, <2>2, NothingCommits DEF RefusingStaged, IssuedBy
  <2>4. \A r, c, d, p : t.answer = Refused(r, c, d, p) => InsertRefusal(r, c, d, p)
    BY <2>2 DEF Refused, InsertRefusal
  <2>5. CASE /\ Floored(o.cp.log)
             /\ \E i \in DOMAIN refusals :
                  /\ IsOriginalPair(i, o.cp.log)
                  /\ t.answer = Refused("equivocation", refusals[i].retained, refusals[i].offered, NoProof)
             /\ t.writes.floor = {}
    <3>1. RefuseAtFloor(o)
      BY <1>1, <1>3, <2>3, <2>4, <2>5 DEF RefuseAtFloor
    <3> QED
      BY <1>1, <3>1 DEF Decide
  <2>6. CASE /\ \E held \in Held : /\ EquivocatesWith(o, held)
                                  /\ t.answer = Refused("equivocation", held, o.cp, NoProof)
             /\ t.writes.floor = {[log |-> o.cp.log, size |-> o.cp.size]}
    <3>1. RefuseEquivocation(o)
      BY <1>3, <2>3, <2>4, <2>6 DEF RefuseEquivocation, RecordEquivocation, InsertEquivocation
    <3> QED
      BY <1>1, <3>1 DEF Decide
  <2>7. CASE /\ \E i \in DOMAIN cosigned :
                  /\ Compares(o, i, "size-regression")
                  /\ t.answer = Refused("size-regression", cosigned[i].cp, o.cp, NoProof)
             /\ t.writes.floor = {}
    <3>1. RefuseSizeRegression(o)
      BY <1>3, <2>3, <2>4, <2>7 DEF RefuseSizeRegression
    <3> QED
      BY <1>1, <3>1 DEF Decide
  <2>8. CASE /\ \E i \in DOMAIN cosigned :
                  /\ Compares(o, i, "extension-failed")
                  /\ t.answer = Refused("extension-failed", cosigned[i].cp, o.cp,
                       [from |-> cosigned[i].cp.size, to |-> o.cp.size, leaves |-> o.entries])
             /\ t.writes.floor = {}
    <3>1. RefuseExtension(o)
      BY <1>3, <2>3, <2>4, <2>8 DEF RefuseExtension
    <3> QED
      BY <1>1, <3>1 DEF Decide
  <2> QED
    BY <2>1, <2>5, <2>6, <2>7, <2>8 DEF CallsForRefusal
<1> QED
  BY <1>2, <1>4, <1>5

-----------------------------------------------------------------------------
(* Only a commit moves the tables *)

LEMMA DecisionsReadOnly ==
  ASSUME NEW h \in Handlers, NEW o \in Offers, Decision(h, o)
  PROVE  UNCHANGED vars
BY DEF Decision, DecideFloor, DecideEquivocation, DecideSizeRegression, DecideExtension,
   DecideSeries, DecideRotation, DecideBadRoot, Resolve, Abort

LEMMA InsertionsPending ==
  ASSUME NEW h \in Handlers, NEW o \in Offers, Insertion(h, o)
  PROVE  UNCHANGED vars
BY DEF Insertion, InsertSeriesRow, SeriesRowFails, InsertAnchorRow, AnchorRowFails,
   InsertFloorRow, InsertRefusalRow, Abort

LEMMA OthersReadOnly ==
  ASSUME NEW h \in Handlers,
         \/ Authenticate(h) \/ Acquire(h) \/ Discard(h) \/ DropQueued(h)
         \/ StoreError(h) \/ Panic(h) \/ Leave(h)
         \/ ClientStep(h) \/ \E o \in Offers : Open(h, o)
         \/ Shutdown \/ Exit \/ Crash \/ Restart
  PROVE  UNCHANGED vars
<1>1. CASE Authenticate(h) \/ Acquire(h) \/ Discard(h) \/ DropQueued(h)
  BY <1>1 DEF Authenticate, Acquire, Discard, DropQueued
<1>2. CASE StoreError(h) \/ Panic(h) \/ Leave(h)
  BY <1>2 DEF StoreError, Panic, Leave, Abort
<1>3. CASE ClientStep(h) \/ \E o \in Offers : Open(h, o)
  BY <1>3 DEF ClientStep, Receive, TurnAway, Deliver, Open
<1>4. CASE Shutdown \/ Exit \/ Crash \/ Restart
  BY <1>4 DEF Shutdown, Exit, Crash, Restart
<1> QED
  BY <1>1, <1>2, <1>3, <1>4

LEMMA TablesMove ==
  ASSUME ServiceNext
  PROVE  UNCHANGED vars \/ \E h \in Handlers : Commit(h)
<1>1. CASE Shutdown \/ Exit \/ Crash \/ Restart
  BY <1>1 DEF Shutdown, Exit, Crash, Restart
<1>2. CASE \E h \in Handlers :
        Advance(h) \/ ClientStep(h) \/ Mishap(h) \/ \E o \in Offers : Open(h, o)
  BY <1>2, DecisionsReadOnly, InsertionsPending, OthersReadOnly DEF Advance, Mishap
<1> QED
  BY <1>1, <1>2 DEF ServiceNext

LEMMA StepRefines == ServiceInv /\ [ServiceNext]_serviceVars => [Next]_vars
BY TablesMove, CommitDecides DEF Next, serviceVars

\* What a transaction has staged is read off the committed tables alone.
LEMMA DecisionsFramed ==
  ASSUME UNCHANGED vars, NEW o
  PROVE  /\ SeriesAdmissible(o)' <=> SeriesAdmissible(o)
         /\ RotationAdmissible(o)' <=> RotationAdmissible(o)
BY DEF vars, SeriesAdmissible, RotationAdmissible, Undisputed, Floored, RotationConflicts,
   NoSeriesConflict, SeriesRowsAtSize, SeriesRowsOf, IsFirstAtSize, Bootstrap, NewSize, Compares,
   IsRetained

LEMMA InsertsFramed ==
  ASSUME UNCHANGED vars, NEW o, NEW xs, NEW x
  PROVE  /\ SeriesPresent(o.cp)' <=> SeriesPresent(o.cp)
         /\ CanInsertCosigned(o.cp, TermsOf(o.cp.log, o.entries))' <=>
              CanInsertCosigned(o.cp, TermsOf(o.cp.log, o.entries))
         /\ RotationClash(x, o.cp, o.at)' <=> RotationClash(x, o.cp, o.at)
         /\ RowsFiled(o, xs)' = RowsFiled(o, xs)
BY DEF vars, SeriesPresent, CanInsertCosigned, SeriesClash, SeriesRowsAtSize, SeriesRowsOf,
   RotationClash, RotationRowsOf, RowsFiled, Superseded

LEMMA RefusalsFramed ==
  ASSUME UNCHANGED vars, NEW o, NEW answer, NEW floor, CallsForRefusal(o, answer, floor)
  PROVE  CallsForRefusal(o, answer, floor)'
BY DEF vars, CallsForRefusal, Floored, IsOriginalPair, EquivocationRefusals, Held,
   SeriesCheckpoints, RotationCheckpoints, EquivocatesWith, NoSeriesConflict, RotationConflicts,
   IsRotationConflict, SeriesConflict, SeriesRowsAtSize, SeriesRowsOf, IsFirstAtSize, Compares,
   NewSize, Undisputed, IsRetained

LEMMA StagedFramed ==
  ASSUME UNCHANGED vars, NEW t, Staged(t)
  PROVE  Staged(t)'
<1> DEFINE o == t.offer
<1>1. CosigningStaged(t, o) => CosigningStaged(t, o)'
  BY DecisionsFramed, InsertsFramed DEF CosigningStaged
<1>2. RefusingStaged(t, o) => RefusingStaged(t, o)'
  BY RefusalsFramed DEF RefusingStaged
<1> QED
  BY <1>1, <1>2, DecisionsFramed, RefusalsFramed DEF Staged

-----------------------------------------------------------------------------
(* The invariant, step by step *)

\* A step that moves one task and no table.
LEMMA OneTaskMoves ==
  ASSUME ServiceInv, UNCHANGED <<vars, received>>, NEW h \in Handlers,
         NEW t \in Task, task' = [task EXCEPT ![h] = t],
         server' \in {"up", "draining", "down"}, clients' \subseteq Handlers,
         poisoned' \in BOOLEAN, owner' \in Handlers \cup {Nobody},
         t.phase \in Transaction <=> owner' = h,
         \A g \in Handlers \ {h} : owner' = g <=> owner = g,
         Staged(t), t.phase = "answered" => OnRecord(t.answer)
  PROVE  ServiceInv'
<1>1. task \in [Handlers -> Task] /\ TypeOK /\ received \subseteq Answers
  BY DEF ServiceInv, ServiceTypeOK
<1>2. task' \in [Handlers -> Task] /\ task'[h] = t /\ \A g \in Handlers \ {h} : task'[g] = task[g]
  BY <1>1
<1>3. TypeOK'
  BY <1>1 DEF TypeOK, StoreTypeOK, vars
<1>4. ServiceTypeOK'
  BY <1>1, <1>2, <1>3 DEF ServiceTypeOK
<1>5. Excludes'
  BY <1>2 DEF ServiceInv, Excludes
<1>6. \A g \in Handlers : Staged(task'[g])
  BY <1>2 DEF ServiceInv
<1>7. (\A g \in Handlers : Staged(task[g]))'
  BY <1>6, StagedFramed
<1>8. \A a : OnRecord(a) => OnRecord(a)'
  BY DEF OnRecord, vars
<1>9. AnswersOnRecord'
  BY <1>2, <1>8 DEF ServiceInv, AnswersOnRecord
<1> QED
  BY <1>4, <1>5, <1>7, <1>9 DEF ServiceInv

LEMMA BlankParts == NoWrites \in Writes /\ Failed \in Answers /\ Idle \in Task
<1>1. <<>> \in Seq(SeriesRow) /\ <<>> \in Seq(Refusal)
  OBVIOUS
<1>2. NoWrites \in Writes
  BY <1>1 DEF NoWrites, Writes
<1>3. Failed \in Answers
  BY DEF Answers
<1>4. Idle \in Task
  BY <1>2, <1>3 DEF Idle, Task, Phases, Spawned
<1> QED
  BY <1>2, <1>3, <1>4

LEMMA AbortStep ==
  ASSUME ServiceInv, NEW h \in Handlers, task[h].phase \in Transaction, Abort(h), poisoned' \in BOOLEAN
  PROVE  ServiceInv'
<1> DEFINE t == [Idle EXCEPT !.phase = "answered", !.offer = task[h].offer]
<1>1. task[h] \in Task /\ owner = h
  BY DEF ServiceInv, ServiceTypeOK, Excludes
<1>2. t \in Task
  BY <1>1, BlankParts DEF Task, Idle, Phases, Spawned
<1>3. t.phase = "answered" /\ t.answer = Failed
  BY DEF Idle
<1>4. Staged(t) /\ OnRecord(t.answer)
  BY <1>3 DEF Staged, Spawned, OnRecord, Failed, Transaction
<1> QED
  BY <1>1, <1>2, <1>3, <1>4, OneTaskMoves, ServiceAssumption DEF Abort, ServiceInv, ServiceTypeOK, Transaction

\* The parts of the invariant a step of handler h starts from.
LEMMA Parts ==
  ASSUME ServiceInv, NEW h \in Handlers
  PROVE  /\ task[h] \in Task /\ Staged(task[h])
         /\ task[h].phase \in Transaction <=> owner = h
         /\ task[h].phase = "answered" => OnRecord(task[h].answer)
         /\ task \in [Handlers -> Task]
         /\ TypeOK
         /\ server \in {"up", "draining", "down"} /\ clients \subseteq Handlers
         /\ poisoned \in BOOLEAN /\ owner \in Handlers \cup {Nobody}
BY DEF ServiceInv, ServiceTypeOK, Excludes, AnswersOnRecord

\* A request before its blocking task: the connection, and the end of the body.
LEMMA ArrivalStep ==
  ASSUME ServiceInv, NEW h \in Handlers,
         (\E o \in Offers : Open(h, o)) \/ Receive(h) \/ TurnAway(h)
  PROVE  ServiceInv'
<1>0. Nobody \notin Handlers /\ owner # h
  BY Parts, ServiceAssumption DEF Open, Receive, TurnAway, Transaction
<1>1. ASSUME NEW o \in Offers, Open(h, o) PROVE ServiceInv'
  <2> DEFINE t == [Idle EXCEPT !.phase = "reading", !.offer = o]
  <2>1. /\ t \in Task /\ t.phase = "reading" /\ t.offer = o
        /\ t.writes = NoWrites /\ t.answer = Failed
    BY BlankParts DEF Task, Idle, Phases, Spawned
  <2>2. Staged(t)
    BY <2>1 DEF Staged, Spawned, Transaction
  <2>3. task' = [task EXCEPT ![h] = t]
    BY <1>1 DEF Open
  <2> QED
    BY <1>0, <1>1, <2>1, <2>2, <2>3, Parts, OneTaskMoves DEF Open, Transaction
<1>2. ASSUME Receive(h) \/ TurnAway(h) PROVE ServiceInv'
  <2>1. /\ task[h] \in Task /\ task[h].offer \in Offers
        /\ task[h].writes = NoWrites /\ task[h].answer = Failed
    BY <1>2, Parts DEF Receive, TurnAway, Staged, Spawned
  <2>2. PICK p \in {"queued", "answered"} :
          /\ task' = [task EXCEPT ![h].phase = p]
          /\ UNCHANGED <<vars, server, clients, owner, poisoned, received>>
    BY <1>2 DEF Receive, TurnAway
  <2> DEFINE t == [task[h] EXCEPT !.phase = p]
  <2>3. /\ t \in Task /\ t.phase = p /\ t.offer = task[h].offer
        /\ t.writes = NoWrites /\ t.answer = Failed
    BY <2>1 DEF Task, Phases, Spawned
  <2>4. Staged(t)
    BY <2>1, <2>3 DEF Staged, Spawned, Transaction
  <2>5. OnRecord(Failed) /\ t.phase \notin Transaction
    BY <2>3 DEF OnRecord, Failed, Transaction
  <2> QED
    BY <1>0, <2>2, <2>3, <2>4, <2>5, Parts, OneTaskMoves
<1> QED
  BY <1>1, <1>2

\* A request whose task is dropped, or whose client has left.
LEMMA DepartureStep ==
  ASSUME ServiceInv, NEW h \in Handlers, DropQueued(h) \/ Discard(h) \/ Leave(h)
  PROVE  ServiceInv'
<1>1. Idle.phase = "idle" /\ Staged(Idle)
  BY DEF Staged, Idle, Spawned, Transaction
<1>2. CASE task[h].phase \in {"reading", "queued", "answered"} /\ task' = [task EXCEPT ![h] = Idle]
  <2>1. owner # h /\ clients' \subseteq Handlers /\ UNCHANGED <<vars, server, owner, poisoned, received>>
    BY <1>2, Parts DEF DropQueued, Discard, Leave, Transaction
  <2> QED
    BY <1>1, <1>2, <2>1, Parts, BlankParts, OneTaskMoves DEF Transaction
<1>3. CASE Leave(h) /\ ~AwaitsClient(h)
  <2>1. task' = [task EXCEPT ![h] = task[h]] /\ clients' \subseteq Handlers
    BY <1>3, Parts DEF Leave
  <2> QED
    BY <1>3, <2>1, Parts, OneTaskMoves DEF Leave
<1> QED
  BY <1>2, <1>3 DEF DropQueued, Discard, Leave, AwaitsClient

LEMMA EntryStep ==
  ASSUME ServiceInv, NEW h \in Handlers, Authenticate(h) \/ Acquire(h)
  PROVE  ServiceInv'
<1>0. /\ task[h] \in Task /\ Staged(task[h]) /\ owner # h
      /\ task[h].offer \in Offers /\ task[h].answer = Failed /\ task[h].writes = NoWrites
  BY Parts DEF Authenticate, Acquire, Transaction, Staged, Spawned
<1>1. OnRecord(Failed)
  BY DEF OnRecord, Failed
<1>2. CASE Authenticate(h)
  <2> DEFINE p == IF Authentic(task[h].offer) THEN "waiting" ELSE "answered"
             t == [task[h] EXCEPT !.phase = p]
  <2>1. t \in Task /\ t.phase = p /\ t.offer = task[h].offer /\ t.answer = Failed /\ t.writes = NoWrites
    BY <1>0 DEF Task, Phases, Spawned
  <2>2. Staged(t)
    BY <1>0, <2>1 DEF Staged, Spawned, Transaction
  <2>3. task' = [task EXCEPT ![h] = t]
    BY <1>2 DEF Authenticate
  <2>4. t.phase \notin Transaction
    BY <2>1 DEF Transaction
  <2>5. UNCHANGED <<vars, server, clients, owner, poisoned, received>>
    BY <1>2 DEF Authenticate
  <2> HIDE DEF t
  <2> QED
    BY <1>0, <1>1, <2>1, <2>2, <2>3, <2>4, <2>5, Parts, OneTaskMoves
<1>3. CASE Acquire(h) /\ poisoned
  <2> DEFINE t == [task[h] EXCEPT !.phase = "answered"]
  <2>1. t \in Task /\ t.phase = "answered" /\ t.answer = Failed
    BY <1>0 DEF Task, Phases, Spawned
  <2>2. Staged(t)
    BY <2>1 DEF Staged, Spawned, Transaction
  <2>3. task' = [task EXCEPT ![h] = t] /\ owner' = owner
    BY <1>3 DEF Acquire
  <2> QED
    BY <1>0, <1>1, <1>3, <2>1, <2>2, <2>3, Parts, OneTaskMoves DEF Acquire, Transaction
<1>4. CASE Acquire(h) /\ ~poisoned
  <2> DEFINE t == [task[h] EXCEPT !.phase = "deciding"]
  <2>1. t \in Task /\ t.phase = "deciding" /\ t.offer = task[h].offer /\ t.answer = Failed /\ t.writes = NoWrites
    BY <1>0 DEF Task, Phases, Spawned, Transaction
  <2>2. Staged(t)
    BY <1>0, <1>4, <2>1 DEF Staged, Spawned, Transaction, Acquire
  <2>3. task' = [task EXCEPT ![h] = t] /\ owner' = h /\ owner = Nobody
    BY <1>4 DEF Acquire
  <2> QED
    BY <1>0, <1>4, <2>1, <2>2, <2>3, Parts, OneTaskMoves, ServiceAssumption DEF Acquire, Transaction
<1> QED
  BY <1>2, <1>3, <1>4

\* A decision leaves a task that stays inside its transaction.
LEMMA ResolveStep ==
  ASSUME ServiceInv, NEW h \in Handlers, NEW o \in Offers, Deciding(h, o),
         NEW phase \in {"cosigning", "anchoring", "flooring", "refusing"},
         NEW todo \in SUBSET Nat, NEW answer \in Answers, Resolve(h, phase, todo, answer),
         Staged([task[h] EXCEPT !.phase = phase, !.todo = todo, !.answer = answer])
  PROVE  ServiceInv'
<1> DEFINE t == [task[h] EXCEPT !.phase = phase, !.todo = todo, !.answer = answer]
<1>1. task[h] \in Task /\ owner = h
  BY Parts DEF Deciding, Transaction
<1>2. t \in Task /\ t.phase = phase
  BY <1>1 DEF Task, Phases, Spawned, Transaction
<1>3. task' = [task EXCEPT ![h] = t]
  BY <1>1, Parts DEF Resolve
<1>4. t.phase \in Transaction /\ t.phase # "answered"
  BY <1>2 DEF Transaction
<1>5. Staged(t)
  OBVIOUS
<1>6. UNCHANGED <<vars, server, clients, owner, poisoned, received>>
  BY DEF Resolve
<1> HIDE DEF t
<1> QED
  BY <1>1, <1>2, <1>3, <1>4, <1>5, <1>6, Parts, OneTaskMoves

\* What a task must hold to be staged in each phase a decision leads to.
LEMMA StagedRefusing ==
  ASSUME NEW t, NEW o \in Offers, t.offer = o, Authentic(o), t.phase = "refusing",
         t.writes.series = <<>>, t.writes.anchors = {}, t.writes.refusal = <<>>,
         CallsForRefusal(o, t.answer, t.writes.floor)
  PROVE  Staged(t)
<1>1. RefusingStaged(t, o)
  BY DEF RefusingStaged
<1>2. t.phase \notin {"idle", "answered", "queued", "waiting", "deciding", "cosigning",
                      "anchoring", "flooring", "written"}
  OBVIOUS
<1> QED
  BY <1>1, <1>2 DEF Staged, Spawned

LEMMA StagedFlooring ==
  ASSUME NEW t, NEW o \in Offers, t.offer = o, Authentic(o), t.phase = "flooring",
         t.writes = NoWrites,
         CallsForRefusal(o, t.answer, {[log |-> o.cp.log, size |-> o.cp.size]})
  PROVE  Staged(t)
<1>1. t.phase \notin {"idle", "answered", "queued", "waiting", "deciding", "cosigning",
                      "anchoring", "refusing", "written"}
  OBVIOUS
<1> QED
  BY <1>1 DEF Staged, Spawned

LEMMA StagedCosigning ==
  ASSUME NEW t, NEW o \in Offers, t.offer = o, Authentic(o), t.phase = "cosigning",
         t.writes = NoWrites, t.todo = Anchors(o), SeriesAdmissible(o),
         t.answer = Cosigned(o.cp, TRUE, Anchors(o))
  PROVE  Staged(t)
<1>1. t.phase \notin {"idle", "answered", "queued", "waiting", "deciding",
                      "anchoring", "flooring", "refusing", "written"}
  OBVIOUS
<1> QED
  BY <1>1 DEF Staged, Spawned

LEMMA StagedAnchoring ==
  ASSUME NEW t, NEW o \in Offers, t.offer = o, Authentic(o),
         t.phase = "anchoring" \/ (t.phase = "written" /\ t.todo = {}), CosigningStaged(t, o)
  PROVE  Staged(t)
<1>1. t.phase \notin {"idle", "answered", "queued", "waiting", "deciding", "cosigning",
                      "flooring", "refusing"}
  OBVIOUS
<1> QED
  BY <1>1 DEF Staged, Spawned

LEMMA DecisionStep ==
  ASSUME ServiceInv, NEW h \in Handlers, NEW o \in Offers, Decision(h, o)
  PROVE  ServiceInv'
<1>0. /\ Deciding(h, o) /\ task[h] \in Task /\ Staged(task[h])
      /\ task[h].phase = "deciding" /\ task[h].offer = o
      /\ Authentic(o) /\ task[h].writes = NoWrites /\ TypeOK
  BY Parts DEF Decision, DecideFloor, DecideEquivocation, DecideSizeRegression, DecideExtension,
     DecideSeries, DecideRotation, DecideBadRoot, Deciding, Staged, Transaction
<1>r. ASSUME NEW phase \in {"cosigning", "anchoring", "flooring", "refusing"},
             NEW todo \in SUBSET Nat, NEW answer \in Answers, Resolve(h, phase, todo, answer),
             NEW t, t = [task[h] EXCEPT !.phase = phase, !.todo = todo, !.answer = answer], Staged(t)
      PROVE  ServiceInv'
  BY <1>0, <1>r, ResolveStep
<1>b. NoWrites.series = <<>> /\ NoWrites.anchors = {} /\ NoWrites.refusal = <<>> /\ NoWrites.floor = {}
  BY DEF NoWrites
<1>2. ASSUME NEW answer, CallsForRefusal(o, answer, {}), Resolve(h, "refusing", {}, answer)
      PROVE  ServiceInv'
  <2>1. answer \in Answers
    BY <1>0, <1>2, RefusalCommits
  <2> DEFINE t == [task[h] EXCEPT !.phase = "refusing", !.todo = {}, !.answer = answer]
  <2>2. t.phase = "refusing" /\ t.answer = answer /\ t.offer = o /\ t.writes = NoWrites
    BY <1>0 DEF Task
  <2> HIDE DEF t
  <2>3. Staged(t)
    BY <1>0, <1>b, <1>2, <2>2, StagedRefusing
  <2> QED
    BY <1>r, <1>2, <2>1, <2>3 DEF t
<1>a. ASSUME NEW answer, CallsForRefusal(o, answer, {[log |-> o.cp.log, size |-> o.cp.size]}),
             Resolve(h, "flooring", {}, answer)
      PROVE  ServiceInv'
  <2>1. answer \in Answers
    BY <1>0, <1>a, RefusalCommits
  <2> DEFINE t == [task[h] EXCEPT !.phase = "flooring", !.todo = {}, !.answer = answer]
  <2>2. t.phase = "flooring" /\ t.answer = answer /\ t.offer = o /\ t.writes = NoWrites
    BY <1>0 DEF Task
  <2> HIDE DEF t
  <2>3. Staged(t)
    BY <1>0, <1>a, <2>2, StagedFlooring
  <2> QED
    BY <1>r, <1>a, <2>1, <2>3 DEF t
<1>3. CASE DecideFloor(h, o)
  <2>1. PICK i \in DOMAIN refusals :
          /\ IsOriginalPair(i, o.cp.log)
          /\ Resolve(h, "refusing", {},
               Refused("equivocation", refusals[i].retained, refusals[i].offered, NoProof))
    BY <1>3 DEF DecideFloor
  <2>2. CallsForRefusal(o, Refused("equivocation", refusals[i].retained, refusals[i].offered, NoProof), {})
    BY <1>0, <1>3, <2>1 DEF CallsForRefusal, DecideFloor
  <2> QED
    BY <1>2, <2>1, <2>2
<1>4. CASE DecideEquivocation(h, o)
  BY <1>a, <1>4 DEF DecideEquivocation, CallsForRefusal
<1>5. CASE DecideSizeRegression(h, o)
  BY <1>2, <1>5 DEF DecideSizeRegression, CallsForRefusal
<1>6. CASE DecideExtension(h, o)
  BY <1>2, <1>6 DEF DecideExtension, CallsForRefusal
<1>7. /\ Anchors(o) \in SUBSET Nat
      /\ \A b \in BOOLEAN : Cosigned(o.cp, b, Anchors(o)) \in Answers
  BY OfferParts DEF Cosigned, Answers, Issue
<1>8. CASE DecideSeries(h, o)
  <2>1. SeriesAdmissible(o) /\ Resolve(h, "cosigning", Anchors(o), Cosigned(o.cp, TRUE, Anchors(o)))
    BY <1>8 DEF DecideSeries
  <2> DEFINE t == [task[h] EXCEPT !.phase = "cosigning", !.todo = Anchors(o),
                                  !.answer = Cosigned(o.cp, TRUE, Anchors(o))]
  <2>2. /\ t.phase = "cosigning" /\ t.todo = Anchors(o) /\ t.offer = o /\ t.writes = NoWrites
        /\ t.answer = Cosigned(o.cp, TRUE, Anchors(o))
    BY <1>0 DEF Task
  <2> HIDE DEF t
  <2>3. Staged(t)
    BY <1>0, <2>1, <2>2, StagedCosigning
  <2> QED
    BY <1>r, <1>7, <2>1, <2>3 DEF t
<1>9. CASE DecideRotation(h, o)
  <2> DEFINE t == [task[h] EXCEPT !.phase = "anchoring", !.todo = Anchors(o),
                                  !.answer = Cosigned(o.cp, FALSE, Anchors(o))]
  <2>1. RotationAdmissible(o) /\ Resolve(h, "anchoring", Anchors(o), Cosigned(o.cp, FALSE, Anchors(o)))
    BY <1>9 DEF DecideRotation
  <2>2. /\ t.phase = "anchoring" /\ t.todo = Anchors(o) /\ t.offer = o /\ t.writes = NoWrites
        /\ t.answer = Cosigned(o.cp, FALSE, Anchors(o))
    BY <1>0 DEF Task
  <2> HIDE DEF t
  <2>3. CosigningStaged(t, o)
    BY <1>b, <2>1, <2>2 DEF CosigningStaged, RowsFiled
  <2>4. Staged(t)
    BY <1>0, <2>2, <2>3, StagedAnchoring
  <2> QED
    BY <1>r, <1>7, <2>1, <2>4 DEF t
<1>10. CASE DecideBadRoot(h, o)
  BY <1>0, <1>10, Parts, AbortStep DEF DecideBadRoot, Transaction
<1> QED
  BY <1>3, <1>4, <1>5, <1>6, <1>8, <1>9, <1>10 DEF Decision

\* A row inserted: the task moves on inside its transaction.
LEMMA InsertStep ==
  ASSUME ServiceInv, NEW h \in Handlers, task[h].phase \in Transaction,
         NEW t \in Task, t.phase \in Transaction, task' = [task EXCEPT ![h] = t],
         UNCHANGED <<vars, server, clients, owner, poisoned, received>>, Staged(t)
  PROVE  ServiceInv'
BY Parts, OneTaskMoves DEF Transaction

\* One row is a sequence of rows.
LEMMA OneRow ==
  ASSUME NEW S, NEW x \in S
  PROVE  <<x>> \in Seq(S)
OBVIOUS

\* Replacing one field of the pending rows.
LEMMA WritesReplaced ==
  ASSUME NEW A, NEW B, NEW C, NEW D,
         NEW w \in [series : A, anchors : B, floor : C, refusal : D]
  PROVE  /\ \A a \in A : [w EXCEPT !.series = a] \in [series : A, anchors : B, floor : C, refusal : D]
         /\ \A c \in C : [w EXCEPT !.floor = c] \in [series : A, anchors : B, floor : C, refusal : D]
         /\ \A d \in D : [w EXCEPT !.refusal = d] \in [series : A, anchors : B, floor : C, refusal : D]
         /\ \A a : /\ [w EXCEPT !.series = a].series = a
                   /\ [w EXCEPT !.series = a].anchors = w.anchors
                   /\ [w EXCEPT !.series = a].floor = w.floor
                   /\ [w EXCEPT !.series = a].refusal = w.refusal
         /\ \A c : /\ [w EXCEPT !.floor = c].series = w.series
                   /\ [w EXCEPT !.floor = c].anchors = w.anchors
                   /\ [w EXCEPT !.floor = c].floor = c
                   /\ [w EXCEPT !.floor = c].refusal = w.refusal
         /\ \A d : /\ [w EXCEPT !.refusal = d].series = w.series
                   /\ [w EXCEPT !.refusal = d].anchors = w.anchors
                   /\ [w EXCEPT !.refusal = d].floor = w.floor
                   /\ [w EXCEPT !.refusal = d].refusal = d
OBVIOUS

\* The series row of a cosigned checkpoint is filed.
LEMMA SeriesInsertStep ==
  ASSUME ServiceInv, NEW h \in Handlers, NEW o \in Offers, InsertSeriesRow(h, o)
  PROVE  ServiceInv'
<1> DEFINE row == [cp |-> o.cp, terms |-> TermsOf(o.cp.log, o.entries), at |-> o.at]
           rows == IF SeriesPresent(o.cp) THEN <<>> ELSE <<row>>
           w == [task[h].writes EXCEPT !.series = rows]
           t == [task[h] EXCEPT !.phase = AfterInsert(task[h].todo), !.writes = w]
<1>1. /\ task[h] \in Task /\ Staged(task[h]) /\ task[h].phase = "cosigning" /\ task[h].offer = o
      /\ task[h].phase \in Transaction
  BY Parts DEF InsertSeriesRow, Inserting, Transaction
<1>2. /\ Authentic(o) /\ SeriesAdmissible(o) /\ task[h].writes = NoWrites
      /\ task[h].todo = Anchors(o) /\ task[h].answer = Cosigned(o.cp, TRUE, Anchors(o))
  BY <1>1 DEF Staged, Spawned, Transaction
<1>3. CanInsertCosigned(o.cp, TermsOf(o.cp.log, o.entries))
  BY DEF InsertSeriesRow
<1>4. task' = [task EXCEPT ![h] = t]
  BY <1>1, Parts DEF InsertSeriesRow
<1>5. UNCHANGED <<vars, server, clients, owner, poisoned, received>>
  BY DEF InsertSeriesRow
<1>6. rows \in Seq(SeriesRow)
  <2>1. row \in SeriesRow
    BY OfferParts DEF SeriesRow
  <2> HIDE DEF row
  <2> QED
    BY <2>1, OneRow
<1> HIDE DEF row, rows
<1>7. w \in Writes /\ w.series = rows /\ w.anchors = {} /\ w.floor = {} /\ w.refusal = <<>>
  <2>1. /\ NoWrites \in Writes /\ NoWrites.anchors = {} /\ NoWrites.floor = {}
        /\ NoWrites.refusal = <<>> /\ w = [NoWrites EXCEPT !.series = rows]
    BY <1>2, BlankParts DEF NoWrites
  <2> HIDE DEF w
  <2> QED
    BY <1>6, <2>1, WritesReplaced DEF Writes
<1>8. AfterInsert(task[h].todo) \in {"anchoring", "written"} /\ (AfterInsert(task[h].todo) = "written" => task[h].todo = {})
  BY DEF AfterInsert
<1> HIDE DEF w
<1>9. /\ t \in Task /\ t.phase \in {"anchoring", "written"} /\ t.todo = Anchors(o) /\ t.offer = o
      /\ t.writes = w /\ t.answer = Cosigned(o.cp, TRUE, Anchors(o)) /\ (t.phase = "written" => t.todo = {})
  BY <1>1, <1>2, <1>7, <1>8 DEF Task, Phases, Spawned, Transaction
<1> HIDE DEF t
<1>10. t.phase \in Transaction
  BY <1>9 DEF Transaction
<1>11. CosigningStaged(t, o)
  BY <1>2, <1>3, <1>7, <1>9 DEF CosigningStaged, RowsFiled, row, rows
<1>12. Staged(t)
  BY <1>2, <1>9, <1>11, StagedAnchoring
<1> QED
  BY <1>1, <1>4, <1>5, <1>9, <1>10, <1>12, InsertStep

\* The cosignature is filed under its next rotation.
LEMMA AnchorInsertStep ==
  ASSUME ServiceInv, NEW h \in Handlers, NEW o \in Offers, InsertAnchorRow(h, o)
  PROVE  ServiceInv'
<1>1. /\ task[h] \in Task /\ Staged(task[h]) /\ task[h].phase = "anchoring" /\ task[h].offer = o
      /\ task[h].phase \in Transaction
  BY Parts DEF InsertAnchorRow, Inserting, Transaction
<1>2. Authentic(o) /\ CosigningStaged(task[h], o)
  BY <1>1 DEF Staged, Spawned, Transaction
<1>3. PICK x \in task[h].todo :
        /\ IsNextAnchor(x, task[h].todo)
        /\ ~RotationClash(x, o.cp, o.at)
        /\ task' = [task EXCEPT
             ![h].phase = AfterInsert(task[h].todo \ {x}),
             ![h].todo = @ \ {x},
             ![h].writes.anchors = @ \cup
                (IF Superseded(x, o.cp) THEN {} ELSE {[index |-> x, cp |-> o.cp, at |-> o.at]})]
  BY DEF InsertAnchorRow
<1> DEFINE new == IF Superseded(x, o.cp) THEN {} ELSE {[index |-> x, cp |-> o.cp, at |-> o.at]}
           rest == task[h].todo \ {x}
           w == [task[h].writes EXCEPT !.anchors = task[h].writes.anchors \cup new]
           t == [task[h] EXCEPT !.phase = AfterInsert(rest), !.todo = rest, !.writes = w]
<1>4. task' = [task EXCEPT ![h] = t]
  BY <1>1, <1>3, Parts
<1>5. UNCHANGED <<vars, server, clients, owner, poisoned, received>>
  BY DEF InsertAnchorRow
<1>6. task[h].writes \in Writes /\ task[h].todo \in SUBSET Nat /\ x \in Nat /\ rest \in SUBSET Nat
  BY <1>1 DEF Task
<1>7. new \subseteq RotationRow
  BY <1>6, OfferParts DEF RotationRow
<1>8. /\ w \in Writes /\ w.anchors = task[h].writes.anchors \cup new
      /\ w.series = task[h].writes.series /\ w.floor = task[h].writes.floor
      /\ w.refusal = task[h].writes.refusal
  BY <1>6, <1>7 DEF Writes
<1>9. AfterInsert(rest) \in {"anchoring", "written"} /\ (AfterInsert(rest) = "written" => rest = {})
  BY DEF AfterInsert
<1> HIDE DEF w
<1>10. /\ t \in Task /\ t.phase \in {"anchoring", "written"} /\ t.todo = rest /\ t.offer = o
       /\ t.writes = w /\ t.answer = task[h].answer /\ (t.phase = "written" => t.todo = {})
  BY <1>1, <1>6, <1>8, <1>9 DEF Task, Phases, Spawned, Transaction
<1> HIDE DEF t
<1>11. t.phase \in Transaction
  BY <1>10 DEF Transaction
<1>12. Anchors(o) \ rest = (Anchors(o) \ task[h].todo) \cup {x} /\ rest \subseteq Anchors(o)
  BY <1>2 DEF CosigningStaged
<1>13. RowsFiled(o, Anchors(o) \ rest) = RowsFiled(o, Anchors(o) \ task[h].todo) \cup new
  <2>1. \A xs : RowsFiled(o, xs \cup {x}) = RowsFiled(o, xs) \cup new
    BY DEF RowsFiled
  <2> QED
    BY <1>12, <2>1
<1> HIDE DEF new, rest
<1>14. CosigningStaged(t, o)
  <2>1. \A y \in Anchors(o) \ rest : ~RotationClash(y, o.cp, o.at)
    BY <1>2, <1>3, <1>12 DEF CosigningStaged
  <2>2. t.writes.anchors = RowsFiled(o, Anchors(o) \ rest)
    BY <1>2, <1>8, <1>10, <1>13 DEF CosigningStaged
  <2> QED
    BY <1>2, <1>8, <1>10, <1>12, <2>1, <2>2 DEF CosigningStaged
<1>15. Staged(t)
  BY <1>2, <1>10, <1>14, StagedAnchoring
<1> QED
  BY <1>1, <1>4, <1>5, <1>10, <1>11, <1>15, InsertStep

\* The floor and the refusal are filed.
LEMMA EvidenceInsertStep ==
  ASSUME ServiceInv, NEW h \in Handlers, NEW o \in Offers, InsertFloorRow(h, o) \/ InsertRefusalRow(h)
  PROVE  ServiceInv'
<1>1. CASE InsertFloorRow(h, o)
  <2> DEFINE floor == {[log |-> o.cp.log, size |-> o.cp.size]}
             w == [task[h].writes EXCEPT !.floor = floor]
             t == [task[h] EXCEPT !.phase = "refusing", !.writes = w]
  <2>1. /\ task[h] \in Task /\ Staged(task[h]) /\ task[h].phase = "flooring" /\ task[h].offer = o
        /\ task[h].phase \in Transaction
    BY <1>1, Parts DEF InsertFloorRow, Inserting, Transaction
  <2>2. /\ Authentic(o) /\ task[h].writes = NoWrites
        /\ CallsForRefusal(o, task[h].answer, floor)
    BY <2>1 DEF Staged, Spawned, Transaction
  <2>3. floor \subseteq EquivocationRow
    BY OfferParts DEF EquivocationRow, Checkpoint
  <2>4. w \in Writes /\ w.floor = floor /\ w.series = <<>> /\ w.anchors = {} /\ w.refusal = <<>>
    <3>1. /\ NoWrites \in Writes /\ NoWrites.anchors = {} /\ NoWrites.series = <<>>
          /\ NoWrites.refusal = <<>> /\ w = [NoWrites EXCEPT !.floor = floor]
      BY <2>2, BlankParts DEF NoWrites
    <3> HIDE DEF w, floor
    <3> QED
      BY <2>3, <3>1, WritesReplaced DEF Writes
  <2>5. task' = [task EXCEPT ![h] = t]
    BY <1>1, <2>1, Parts DEF InsertFloorRow
  <2>6. UNCHANGED <<vars, server, clients, owner, poisoned, received>>
    BY <1>1 DEF InsertFloorRow
  <2> HIDE DEF w
  <2>7. /\ t \in Task /\ t.phase = "refusing" /\ t.offer = o /\ t.writes = w
        /\ t.answer = task[h].answer
    BY <2>1, <2>4 DEF Task, Phases, Spawned, Transaction
  <2> HIDE DEF t, floor
  <2>8. t.phase \in Transaction
    BY <2>7 DEF Transaction
  <2>9. Staged(t)
    BY <2>2, <2>4, <2>7, StagedRefusing
  <2> QED
    BY <2>1, <2>5, <2>6, <2>7, <2>8, <2>9, InsertStep
<1>2. CASE InsertRefusalRow(h)
  <2> DEFINE q == task[h].offer
             w == [task[h].writes EXCEPT !.refusal = <<task[h].answer.evidence>>]
             t == [task[h] EXCEPT !.phase = "written", !.writes = w]
  <2>1. /\ task[h] \in Task /\ Staged(task[h]) /\ task[h].phase = "refusing"
        /\ task[h].phase \in Transaction /\ TypeOK
    BY <1>2, Parts DEF InsertRefusalRow, Transaction
  <2>2. q \in Offers /\ Authentic(q) /\ RefusingStaged(task[h], q)
    BY <2>1 DEF Staged, Spawned, Transaction
  <2>3. task[h].answer.evidence \in Refusal
    BY <2>1, <2>2, RefusalCommits DEF RefusingStaged
  <2>4. /\ w \in Writes /\ w.floor = task[h].writes.floor /\ w.series = task[h].writes.series
        /\ w.anchors = task[h].writes.anchors /\ w.refusal = <<task[h].answer.evidence>>
    <3>1. task[h].writes \in Writes /\ <<task[h].answer.evidence>> \in Seq(Refusal)
      BY <2>1, <2>3, OneRow DEF Task
    <3> QED
      BY <3>1, WritesReplaced DEF Writes
  <2>5. task' = [task EXCEPT ![h] = t]
    BY <1>2, <2>1, Parts DEF InsertRefusalRow
  <2>6. UNCHANGED <<vars, server, clients, owner, poisoned, received>>
    BY <1>2 DEF InsertRefusalRow
  <2> HIDE DEF w
  <2>7. /\ t \in Task /\ t.phase = "written" /\ t.offer = q /\ t.writes = w
        /\ t.answer = task[h].answer
    BY <2>1, <2>4 DEF Task, Phases, Spawned, Transaction
  <2> HIDE DEF t
  <2>8. t.phase \in Transaction
    BY <2>7 DEF Transaction
  <2>9. RefusingStaged(t, q)
    BY <2>2, <2>4, <2>7 DEF RefusingStaged
  <2>10. Staged(t)
    BY <2>2, <2>4, <2>7, <2>9 DEF Staged, Spawned
  <2> QED
    BY <2>1, <2>5, <2>6, <2>7, <2>8, <2>10, InsertStep
<1> QED
  BY <1>1, <1>2

LEMMA InsertionStep ==
  ASSUME ServiceInv, NEW h \in Handlers, NEW o \in Offers, Insertion(h, o)
  PROVE  ServiceInv'
<1>1. CASE SeriesRowFails(h, o) \/ AnchorRowFails(h, o)
  BY <1>1, Parts, AbortStep DEF SeriesRowFails, AnchorRowFails, Inserting, Transaction
<1> QED
  BY <1>1, SeriesInsertStep, AnchorInsertStep, EvidenceInsertStep DEF Insertion

\* A task outside a transaction stages nothing that depends on the tables.
LEMMA QuietStaged ==
  ASSUME NEW t, t.phase \notin Transaction, Staged(t)
  PROVE  Staged(t)'
BY DEF Staged, Spawned, Transaction

LEMMA AnsweredStaged == \A t : t.phase = "answered" => Staged(t)
BY DEF Staged, Spawned, Transaction

\* Nothing that was on record leaves it.
LEMMA RecordGrows ==
  ASSUME TypeOK, NEW a, OnRecord(a), issued \subseteq issued',
         NEW rows \in Seq(Refusal), refusals' = refusals \o rows
  PROVE  OnRecord(a)'
<1>1. ASSUME NEW i \in DOMAIN refusals
      PROVE  i \in DOMAIN refusals' /\ refusals'[i] = refusals[i]
  BY DEF TypeOK, StoreTypeOK
<1> QED
  BY <1>1 DEF OnRecord

LEMMA CommitStep ==
  ASSUME ServiceInv, NEW h \in Handlers, Commit(h)
  PROVE  ServiceInv'
<1> DEFINE t == task[h]
           o == t.offer
           u == [t EXCEPT !.phase = "answered", !.writes = NoWrites]
<1>1. /\ t \in Task /\ Staged(t) /\ owner = h /\ TypeOK /\ task \in [Handlers -> Task]
      /\ t.phase = "written" /\ o \in Offers /\ t.writes \in Writes
  BY Parts DEF Commit, Transaction, Staged, Spawned, Task
<1>2. TypeOK'
  BY <1>1, CommitDecides, TypeStep DEF Next
<1>3. task' = [task EXCEPT ![h] = u] /\ owner' = Nobody /\ UNCHANGED <<server, clients, poisoned, received>>
  BY <1>1 DEF Commit
<1>4. u \in Task /\ u.phase = "answered" /\ u.answer = t.answer
  BY <1>1, BlankParts DEF Task, Phases, Spawned
<1> HIDE DEF u
<1>5. task' \in [Handlers -> Task] /\ task'[h] = u /\ \A g \in Handlers \ {h} : task'[g] = task[g]
  BY <1>1, <1>3, <1>4
<1>6. ServiceTypeOK'
  BY <1>2, <1>3, <1>5 DEF ServiceInv, ServiceTypeOK
<1>7. \A g \in Handlers \ {h} : task[g].phase \notin Transaction
  BY <1>1 DEF ServiceInv, Excludes
<1>8. Excludes'
  BY <1>3, <1>4, <1>5, <1>7, ServiceAssumption DEF Excludes, Transaction
<1>9. \A g \in Handlers : Staged(task'[g]) /\ task'[g].phase \notin Transaction
  BY <1>4, <1>5, <1>7, AnsweredStaged DEF ServiceInv, Transaction
<1>10. (\A g \in Handlers : Staged(task[g]))'
  BY <1>9, QuietStaged
<1>11. t.writes.refusal \in Seq(Refusal) /\ refusals' = refusals \o t.writes.refusal
       /\ issued' = issued \cup IssuedBy(t.answer)
  BY <1>1 DEF Commit, Writes
<1>12. \A a : OnRecord(a) => OnRecord(a)'
  BY <1>1, <1>11, RecordGrows
<1>13. \A a : a = t.answer => OnRecord(a)'
  <2>1. CASE CosigningStaged(t, o)
    <3>1. t.answer.status = "cosigned"
      BY <2>1 DEF CosigningStaged, Cosigned
    <3> QED
      BY <1>11, <3>1 DEF OnRecord, IssuedBy
  <2>2. CASE RefusingStaged(t, o) /\ t.writes.refusal = <<t.answer.evidence>>
    <3>1. t.answer.status = "refused" /\ t.answer.evidence \in Refusal
      BY <1>1, <2>2, RefusalCommits DEF RefusingStaged
    <3>2. /\ Len(refusals) + 1 \in DOMAIN refusals'
          /\ refusals'[Len(refusals) + 1] = t.answer.evidence
      BY <1>1, <1>11, <2>2, <3>1 DEF TypeOK, StoreTypeOK
    <3> QED
      BY <3>1, <3>2 DEF OnRecord
  <2> QED
    BY <1>1, <2>1, <2>2 DEF Staged, Spawned
<1>14. AnswersOnRecord'
  BY <1>3, <1>4, <1>5, <1>12, <1>13 DEF ServiceInv, AnswersOnRecord
<1> QED
  BY <1>6, <1>8, <1>10, <1>14 DEF ServiceInv

LEMMA DeliverStep ==
  ASSUME ServiceInv, NEW h \in Handlers, Deliver(h)
  PROVE  ServiceInv'
<1>1. /\ task[h] \in Task /\ owner # h /\ OnRecord(task[h].answer) /\ task \in [Handlers -> Task]
      /\ task[h].answer \in Answers /\ task[h].phase = "answered"
  BY Parts DEF Deliver, Transaction, Task
<1>2. /\ task' = [task EXCEPT ![h] = Idle] /\ UNCHANGED <<vars, server, owner, poisoned>>
      /\ clients' = clients \ {h} /\ received' \subseteq received \cup {task[h].answer}
  BY DEF Deliver
<1>3. /\ task' \in [Handlers -> Task] /\ task'[h] = Idle
      /\ \A g \in Handlers \ {h} : task'[g] = task[g]
  BY <1>1, <1>2, BlankParts
<1>4. Idle.phase = "idle" /\ Staged(Idle)
  BY DEF Staged, Spawned, Idle, Transaction
<1>5. ServiceTypeOK'
  <2>1. TypeOK'
    BY <1>2 DEF ServiceInv, ServiceTypeOK, TypeOK, StoreTypeOK, vars
  <2> QED
    BY <1>1, <1>2, <1>3, <2>1 DEF ServiceInv, ServiceTypeOK
<1>6. Excludes'
  BY <1>1, <1>2, <1>3, <1>4 DEF ServiceInv, Excludes, Transaction
<1>7. \A g \in Handlers : Staged(task'[g])
  BY <1>3, <1>4 DEF ServiceInv
<1>8. (\A g \in Handlers : Staged(task[g]))'
  BY <1>2, <1>7, StagedFramed
<1>9. \A a : OnRecord(a) => OnRecord(a)'
  BY <1>2 DEF OnRecord, vars
<1>10. AnswersOnRecord'
  BY <1>1, <1>2, <1>3, <1>4, <1>9 DEF ServiceInv, AnswersOnRecord
<1> QED
  BY <1>5, <1>6, <1>8, <1>10 DEF ServiceInv

\* Steps of the process as a whole.
LEMMA ProcessStep ==
  ASSUME ServiceInv, Shutdown \/ Exit \/ Crash \/ Restart
  PROVE  ServiceInv'
<1>1. /\ UNCHANGED <<vars, received>> /\ server' \in {"up", "draining", "down"}
      /\ clients' \subseteq Handlers /\ poisoned' \in BOOLEAN
      /\ \/ UNCHANGED <<task, owner>>
         \/ task' = [h \in Handlers |-> Idle] /\ owner' = Nobody
  BY DEF Shutdown, Exit, Crash, Restart, ServiceInv, ServiceTypeOK
<1>2. TypeOK'
  BY <1>1 DEF ServiceInv, ServiceTypeOK, TypeOK, StoreTypeOK, vars
<1>3. ServiceTypeOK'
  BY <1>1, <1>2, BlankParts DEF ServiceInv, ServiceTypeOK
<1>4. Idle.phase = "idle" /\ Staged(Idle)
  BY DEF Staged, Spawned, Idle, Transaction
<1>5. Excludes'
  BY <1>1, <1>4, ServiceAssumption DEF ServiceInv, Excludes, Transaction
<1>6. \A g \in Handlers : Staged(task'[g])
  BY <1>1, <1>4 DEF ServiceInv
<1>7. (\A g \in Handlers : Staged(task[g]))'
  BY <1>1, <1>6, StagedFramed
<1>8. \A a : OnRecord(a) => OnRecord(a)'
  BY <1>1 DEF OnRecord, vars
<1>9. AnswersOnRecord'
  BY <1>1, <1>4, <1>8 DEF ServiceInv, AnswersOnRecord
<1> QED
  BY <1>3, <1>5, <1>7, <1>9 DEF ServiceInv

LEMMA InitServiceInv == ServiceInit => ServiceInv
<1> SUFFICES ASSUME ServiceInit PROVE ServiceInv
  OBVIOUS
<1>1. TypeOK
  BY InitInv DEF ServiceInit, Inv
<1>2. ServiceTypeOK
  BY <1>1, BlankParts DEF ServiceInit, ServiceTypeOK
<1>3. Idle.phase = "idle" /\ Staged(Idle)
  BY DEF Staged, Spawned, Idle, Transaction
<1>4. Excludes
  BY <1>3, ServiceAssumption DEF ServiceInit, Excludes, Transaction
<1> QED
  BY <1>2, <1>3, <1>4 DEF ServiceInit, ServiceInv, AnswersOnRecord

LEMMA ServiceInvStep == ServiceInv /\ [ServiceNext]_serviceVars => ServiceInv'
<1> SUFFICES ASSUME ServiceInv, [ServiceNext]_serviceVars PROVE ServiceInv'
  OBVIOUS
<1>1. CASE UNCHANGED serviceVars
  <2>1. /\ UNCHANGED <<vars, received>> /\ UNCHANGED <<task, owner, server, clients, poisoned>>
    BY <1>1 DEF serviceVars, taskVars
  <2>2. TypeOK'
    BY <2>1 DEF ServiceInv, ServiceTypeOK, TypeOK, StoreTypeOK, vars
  <2>3. ServiceTypeOK' /\ Excludes'
    BY <2>1, <2>2 DEF ServiceInv, ServiceTypeOK, Excludes
  <2>4. (\A g \in Handlers : Staged(task[g]))'
    BY <2>1, StagedFramed DEF ServiceInv
  <2>5. AnswersOnRecord'
    BY <2>1 DEF ServiceInv, AnswersOnRecord, OnRecord, vars
  <2> QED
    BY <2>3, <2>4, <2>5 DEF ServiceInv
<1>2. ASSUME NEW h \in Handlers, Advance(h) PROVE ServiceInv'
  BY <1>2, DepartureStep, EntryStep, DecisionStep, InsertionStep, CommitStep DEF Advance
<1>3. ASSUME NEW h \in Handlers, Mishap(h) PROVE ServiceInv'
  BY <1>3, AbortStep, DepartureStep, Parts DEF Mishap, StoreError, Panic
<1>4. ASSUME NEW h \in Handlers, ClientStep(h) \/ \E o \in Offers : Open(h, o) PROVE ServiceInv'
  BY <1>4, ArrivalStep, DeliverStep DEF ClientStep
<1> QED
  BY <1>1, <1>2, <1>3, <1>4, ProcessStep DEF ServiceNext

-----------------------------------------------------------------------------
(* What the service promises *)

\* Mutual exclusion, the progress of every open transaction and the record behind
\* every answer hold in every state of the running server.
THEOREM ServiceCorrect == ServiceSpec => []ServiceInv
<1> QED
  BY InitServiceInv, ServiceInvStep, PTL DEF ServiceSpec

\* The refinement: overlapping requests, failed statements, panics and crashes
\* included, the committed tables behave as Witness says.
THEOREM ServiceImplements == ServiceSpec => ImplementsWitness
<1>1. ServiceInit => Init
  BY DEF ServiceInit
<1> QED
  BY <1>1, InitServiceInv, ServiceInvStep, StepRefines, PTL DEF ServiceSpec, ImplementsWitness, Spec

\* An answer that is on record, over tables that satisfy Witness's invariant, is
\* backed by the rows a later reader finds.
LEMMA RecordBacks ==
  ASSUME ServiceInv, Inv
  PROVE  AnswersDurable
<1> SUFFICES ASSUME NEW a \in received
             PROVE  /\ a.status = "cosigned" =>
                         /\ a.issue.series => a.issue.cp \in SeriesCheckpoints
                         /\ \A x \in a.issue.anchors :
                              \E r \in RotationRowsOf(a.issue.cp.log, x) :
                                IsServed(r, a.issue.cp.log, x) /\ AtOrBefore(r.cp, a.issue.cp)
                    /\ a.status = "refused" => a.evidence \in RefusalsOf(a.evidence.offered.log)
  BY DEF AnswersDurable
<1>1. OnRecord(a)
  BY DEF ServiceInv, AnswersOnRecord
<1> QED
  BY <1>1 DEF OnRecord, Inv, IssuedSeriesStored, ServedAnchorIsEarliest, RefusalsOf

\* What a submitter was told stays on record, whatever happens later.
THEOREM AnswersStay == ServiceSpec => []AnswersDurable
<1>1. Spec => []Inv
  BY InvCorrect
<1>2. ServiceInv /\ Inv => AnswersDurable
  BY RecordBacks
<1> QED
  BY <1>1, <1>2, ServiceCorrect, ServiceImplements, PTL DEF ImplementsWitness

\* Whatever overlaps, fails or is cut off, the running server keeps what the decision
\* procedure promises: one history per log, which only grows until the log ends, and
\* tables whose every fact of Inv holds in each committed state.
THEOREM ServerKeepsPromise == ServiceSpec => KeepsPromise /\ []Inv /\ FloorPermanent
<1>1. Spec => KeepsPromise
  BY WitnessKeepsPromise
<1>2. Spec => []Inv
  BY InvCorrect
<1>3. Spec => FloorPermanent
  BY FloorsArePermanent
<1> QED
  BY <1>1, <1>2, <1>3, ServiceImplements, PTL DEF ImplementsWitness

=============================================================================
