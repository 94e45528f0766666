---------------------------- MODULE WitnessService ----------------------------
(***************************************************************************)
(* The running server around the decision procedure: http.rs               *)
(* (witness_handler, blocking), store.rs (with_transaction) and the binary.*)
(*                                                                         *)
(* A request whose body has arrived becomes a blocking task that takes the *)
(* store's one mutex, opens a transaction, decides, inserts row by row and *)
(* commits; its outcome waits for the client to take it.  The variables of *)
(* Witness are the committed tables; the rows of an open transaction are   *)
(* its task's own until the commit.  A statement may fail, a thread may    *)
(* panic, a client may stall or leave, the process may be told to stop or  *)
(* die.                                                                    *)
(***************************************************************************)
EXTENDS Witness

CONSTANTS Handlers,  \* the requests the server may work on at once
          Nobody,    \* owner of the mutex when it is free
          NoOffer    \* what an idle handler serves

ASSUME ServiceAssumption == Nobody \notin Handlers /\ NoOffer \notin Offers

VARIABLES
  server,    \* "up", "draining" once the shutdown signal came, "down"
  clients,   \* handlers whose connection is still open
  task,      \* what each handler is doing
  owner,     \* who holds the mutex around the connection
  poisoned,  \* a thread panicked while it held the mutex
  received   \* the answers that reached their submitters

taskVars == <<server, clients, task, owner, poisoned, received>>
serviceVars == <<vars, taskVars>>

\* Rows inserted and not yet committed.
Writes == [series : Seq(SeriesRow), anchors : SUBSET RotationRow,
           floor : SUBSET EquivocationRow, refusal : Seq(Refusal)]
NoWrites == [series |-> <<>>, anchors |-> {}, floor |-> {}, refusal |-> <<>>]

\* The answer: 201 with the cosignature, 409 with the evidence, or an error.
Cosigned(c, series, anchors) ==
  [status |-> "cosigned", issue |-> [cp |-> c, series |-> series, anchors |-> anchors]]
Refused(reason, retained, offered, proof) ==
  [status |-> "refused", evidence |->
     [reason |-> reason, retained |-> retained, offered |-> offered, proof |-> proof]]
Failed == [status |-> "error"]

Answers == [status : {"cosigned"}, issue : Issue]
             \cup [status : {"refused"}, evidence : Refusal] \cup {Failed}

Transaction == {"deciding", "cosigning", "anchoring", "flooring", "refusing", "written"}
\* From spawn_blocking to the end of the blocking task.
Spawned == {"queued", "waiting"} \cup Transaction
Phases == {"idle", "reading", "answered"} \cup Spawned

\* answer is the outcome a transaction is heading for; Failed until it is decided.
Task == [phase : Phases, offer : Offers \cup {NoOffer}, todo : SUBSET Nat,
         writes : Writes, answer : Answers]
Idle == [phase |-> "idle", offer |-> NoOffer, todo |-> {}, writes |-> NoWrites, answer |-> Failed]

ServiceTypeOK ==
  /\ TypeOK
  /\ server \in {"up", "draining", "down"}
  /\ clients \subseteq Handlers
  /\ task \in [Handlers -> Task]
  /\ owner \in Handlers \cup {Nobody}
  /\ poisoned \in BOOLEAN
  /\ received \subseteq Answers

ServiceInit ==
  /\ Init
  /\ server = "up"
  /\ clients = {}
  /\ task = [h \in Handlers |-> Idle]
  /\ owner = Nobody
  /\ poisoned = FALSE
  /\ received = {}

-----------------------------------------------------------------------------
(* A request arrives and its task starts *)

\* A connection is accepted and its request matched to witness_handler; the Json
\* extractor awaits the body, for as long as the client takes.
Open(h, o) ==
  /\ server = "up"
  /\ task[h].phase = "idle"
  /\ task' = [task EXCEPT ![h] = [Idle EXCEPT !.phase = "reading", !.offer = o]]
  /\ clients' = clients \cup {h}
  /\ UNCHANGED <<vars, server, owner, poisoned, received>>

\* The last of the body arrives: witness_handler, up to and including
\* spawn_blocking, which reads the clock.  An open connection is served during
\* a shutdown as well.
Receive(h) ==
  /\ task[h].phase = "reading"
  /\ task' = [task EXCEPT ![h].phase = "queued"]
  /\ UNCHANGED <<vars, server, clients, owner, poisoned, received>>

\* The extractor or the handler rejects the request before spawn_blocking.
TurnAway(h) ==
  /\ task[h].phase = "reading"
  /\ task' = [task EXCEPT ![h].phase = "answered"]
  /\ UNCHANGED <<vars, server, clients, owner, poisoned, received>>

\* witness_checkpoint before the store is touched: authentication.
Authenticate(h) ==
  /\ task[h].phase = "queued"
  /\ task' = [task EXCEPT ![h].phase = IF Authentic(task[h].offer) THEN "waiting" ELSE "answered"]
  /\ UNCHANGED <<vars, server, clients, owner, poisoned, received>>

-----------------------------------------------------------------------------
(* with_transaction: the mutex, then BEGIN *)

\* Fault: each thread has a connection of its own.
FaultSharesStore(h) ==
  /\ task[h].phase = "waiting"
  /\ task' = [task EXCEPT ![h].phase = "deciding"]
  /\ owner' = h
  /\ UNCHANGED <<vars, server, clients, poisoned, received>>

\* Fault: a poisoned mutex is tried again and again.
FaultRetriesPoisoned(h) ==
  /\ task[h].phase = "waiting"
  /\ owner = Nobody
  /\ ~poisoned
  /\ task' = [task EXCEPT ![h].phase = "deciding"]
  /\ owner' = h
  /\ UNCHANGED <<vars, server, clients, poisoned, received>>

\* A poisoned mutex is an error, and the guard inside it is dropped.
Acquire(h) ==
  /\ task[h].phase = "waiting"
  /\ owner = Nobody
  /\ IF poisoned
       THEN task' = [task EXCEPT ![h].phase = "answered"] /\ UNCHANGED owner
       ELSE task' = [task EXCEPT ![h].phase = "deciding"] /\ owner' = h
  /\ UNCHANGED <<vars, server, clients, poisoned, received>>

\* Rollback and the release of the mutex: the transaction's rows are gone.
Abort(h) ==
  /\ task' = [task EXCEPT ![h] = [Idle EXCEPT !.phase = "answered", !.offer = task[h].offer]]
  /\ owner' = Nobody
  /\ UNCHANGED <<vars, server, clients, received>>

-----------------------------------------------------------------------------
(* The decision, read inside the transaction *)

Deciding(h, o) == task[h].phase = "deciding" /\ task[h].offer = o

Resolve(h, phase, todo, answer) ==
  /\ task' = [task EXCEPT ![h].phase = phase, ![h].todo = todo, ![h].answer = answer]
  /\ UNCHANGED <<vars, server, clients, owner, poisoned, received>>

DecideFloor(h, o) ==
  /\ Deciding(h, o)
  /\ Floored(o.cp.log)
  /\ \E i \in DOMAIN refusals :
       /\ IsOriginalPair(i, o.cp.log)
       /\ Resolve(h, "refusing", {},
            Refused("equivocation", refusals[i].retained, refusals[i].offered, NoProof))

DecideEquivocation(h, o) ==
  /\ Deciding(h, o)
  /\ \E held \in Held :
       /\ EquivocatesWith(o, held)
       /\ Resolve(h, "flooring", {}, Refused("equivocation", held, o.cp, NoProof))

DecideSizeRegression(h, o) ==
  /\ Deciding(h, o)
  /\ \E i \in DOMAIN cosigned :
       /\ Compares(o, i, "size-regression")
       /\ Resolve(h, "refusing", {}, Refused("size-regression", cosigned[i].cp, o.cp, NoProof))

DecideExtension(h, o) ==
  /\ Deciding(h, o)
  /\ \E i \in DOMAIN cosigned :
       /\ Compares(o, i, "extension-failed")
       /\ Resolve(h, "refusing", {}, Refused("extension-failed", cosigned[i].cp, o.cp,
            [from |-> cosigned[i].cp.size, to |-> o.cp.size, leaves |-> o.entries]))

DecideSeries(h, o) ==
  /\ Deciding(h, o)
  /\ SeriesAdmissible(o)
  /\ Resolve(h, "cosigning", Anchors(o), Cosigned(o.cp, TRUE, Anchors(o)))

DecideRotation(h, o) ==
  /\ Deciding(h, o)
  /\ RotationAdmissible(o)
  /\ Resolve(h, "anchoring", Anchors(o), Cosigned(o.cp, FALSE, Anchors(o)))

DecideBadRoot(h, o) == Deciding(h, o) /\ BadRoot(o) /\ Abort(h) /\ UNCHANGED poisoned

-----------------------------------------------------------------------------
(* The inserts, one statement at a time *)

Inserting(h, o, phase) == task[h].phase = phase /\ task[h].offer = o

\* The rotations a cosignature has still to be filed under.
AfterInsert(todo) == IF todo = {} THEN "written" ELSE "anchoring"

\* insert_cosigned.
InsertSeriesRow(h, o) ==
  /\ Inserting(h, o, "cosigning")
  /\ CanInsertCosigned(o.cp, TermsOf(o.cp.log, o.entries))
  /\ task' = [task EXCEPT
       ![h].phase = AfterInsert(task[h].todo),
       ![h].writes.series =
          IF SeriesPresent(o.cp) THEN <<>>
          ELSE <<[cp |-> o.cp, terms |-> TermsOf(o.cp.log, o.entries), at |-> o.at]>>]
  /\ UNCHANGED <<vars, server, clients, owner, poisoned, received>>

SeriesRowFails(h, o) ==
  /\ Inserting(h, o, "cosigning")
  /\ ~CanInsertCosigned(o.cp, TermsOf(o.cp.log, o.entries))
  /\ Abort(h) /\ UNCHANGED poisoned

\* The next rotation in ascending order of manifest index.
IsNextAnchor(x, todo) == x \in todo /\ \A y \in todo : x <= y

\* insert_rotation_cosigned.  The rows this transaction has filed already stand
\* under other rotations, so its own writes do not change what it reads.
InsertAnchorRow(h, o) ==
  /\ Inserting(h, o, "anchoring")
  /\ \E x \in task[h].todo :
       /\ IsNextAnchor(x, task[h].todo)
       /\ ~RotationClash(x, o.cp, o.at)
       /\ task' = [task EXCEPT
            ![h].phase = AfterInsert(task[h].todo \ {x}),
            ![h].todo = @ \ {x},
            ![h].writes.anchors = @ \cup
               (IF Superseded(x, o.cp) THEN {} ELSE {[index |-> x, cp |-> o.cp, at |-> o.at]})]
  /\ UNCHANGED <<vars, server, clients, owner, poisoned, received>>

AnchorRowFails(h, o) ==
  /\ Inserting(h, o, "anchoring")
  /\ \E x \in task[h].todo : IsNextAnchor(x, task[h].todo) /\ RotationClash(x, o.cp, o.at)
  /\ Abort(h) /\ UNCHANGED poisoned

\* insert_equivocation_and_refusal: the floor first.
InsertFloorRow(h, o) ==
  /\ Inserting(h, o, "flooring")
  /\ task' = [task EXCEPT ![h].phase = "refusing",
                          ![h].writes.floor = {[log |-> o.cp.log, size |-> o.cp.size]}]
  /\ UNCHANGED <<vars, server, clients, owner, poisoned, received>>

InsertRefusalRow(h) ==
  /\ task[h].phase = "refusing"
  /\ task' = [task EXCEPT ![h].phase = "written",
                          ![h].writes.refusal = <<task[h].answer.evidence>>]
  /\ UNCHANGED <<vars, server, clients, owner, poisoned, received>>

-----------------------------------------------------------------------------
(* The end of the transaction *)

IssuedBy(answer) == IF answer.status = "cosigned" THEN {answer.issue} ELSE {}

Commit(h) ==
  /\ task[h].phase = "written"
  /\ cosigned' = cosigned \o task[h].writes.series
  /\ rotations' = rotations \cup task[h].writes.anchors
  /\ refusals' = refusals \o task[h].writes.refusal
  /\ equivocations' = equivocations \cup task[h].writes.floor
  /\ issued' = issued \cup IssuedBy(task[h].answer)
  /\ task' = [task EXCEPT ![h].phase = "answered", ![h].writes = NoWrites]
  /\ owner' = Nobody
  /\ UNCHANGED <<server, clients, poisoned, received>>

\* Fault: the outcome is returned although COMMIT failed.
FaultIgnoresCommitError(h) ==
  /\ task[h].phase \in Transaction
  /\ task' = [task EXCEPT ![h].phase = "answered", ![h].todo = {}, ![h].writes = NoWrites]
  /\ owner' = Nobody
  /\ UNCHANGED <<vars, server, clients, poisoned, received>>

\* BEGIN, a statement or COMMIT fails.
StoreError(h) == task[h].phase \in Transaction /\ Abort(h) /\ UNCHANGED poisoned

\* Unwinding drops the transaction, then the guard; the task ends in a JoinError.
Panic(h) == task[h].phase \in Transaction /\ Abort(h) /\ poisoned' = TRUE

-----------------------------------------------------------------------------
(* The connection *)

\* The server has done its part: the rest of the body, or the reading of the
\* answer, is the client's.  There is no timeout on either.
AwaitsClient(h) == h \in clients /\ task[h].phase \in {"reading", "answered"}

\* The client takes its answer.
Deliver(h) ==
  /\ task[h].phase = "answered" /\ h \in clients
  /\ received' = received \cup (IF task[h].answer = Failed THEN {} ELSE {task[h].answer})
  /\ clients' = clients \ {h}
  /\ task' = [task EXCEPT ![h] = Idle]
  /\ UNCHANGED <<vars, server, owner, poisoned>>

\* The client gives up and the handler's future is dropped; a blocking task runs on.
Leave(h) ==
  /\ h \in clients
  /\ clients' = clients \ {h}
  /\ task' = IF AwaitsClient(h) THEN [task EXCEPT ![h] = Idle] ELSE task
  /\ UNCHANGED <<vars, server, owner, poisoned, received>>

\* The outcome of a task whose client has left goes nowhere.
Discard(h) ==
  /\ task[h].phase = "answered" /\ h \notin clients
  /\ task' = [task EXCEPT ![h] = Idle]
  /\ UNCHANGED <<vars, server, clients, owner, poisoned, received>>

-----------------------------------------------------------------------------
(* The process *)

\* shutdown_signal: no connection is accepted any more, those open are served
\* and idle ones closed.
Shutdown ==
  /\ server = "up"
  /\ server' = "draining"
  /\ UNCHANGED <<vars, clients, task, owner, poisoned, received>>

\* serve has returned: a blocking task that has not started is dropped.
DropQueued(h) ==
  /\ server = "draining" /\ clients = {}
  /\ task[h].phase = "queued"
  /\ task' = [task EXCEPT ![h] = Idle]
  /\ UNCHANGED <<vars, server, clients, owner, poisoned, received>>

\* main returns once the blocking tasks that have started are done.
Exit ==
  /\ server = "draining" /\ clients = {}
  /\ \A h \in Handlers : task[h].phase = "idle"
  /\ server' = "down"
  /\ poisoned' = FALSE
  /\ UNCHANGED <<vars, clients, task, owner, received>>

Crash ==
  /\ server # "down"
  /\ server' = "down"
  /\ clients' = {}
  /\ task' = [h \in Handlers |-> Idle]
  /\ owner' = Nobody
  /\ poisoned' = FALSE
  /\ UNCHANGED <<vars, received>>

\* Store::open on the same file: CREATE TABLE IF NOT EXISTS leaves the rows alone.
Restart ==
  /\ server = "down"
  /\ server' = "up"
  /\ UNCHANGED <<vars, clients, task, owner, poisoned, received>>

-----------------------------------------------------------------------------
Decision(h, o) ==
  \/ DecideFloor(h, o)
  \/ DecideEquivocation(h, o)
  \/ DecideSizeRegression(h, o)
  \/ DecideExtension(h, o)
  \/ DecideSeries(h, o)
  \/ DecideRotation(h, o)
  \/ DecideBadRoot(h, o)

Insertion(h, o) ==
  \/ InsertSeriesRow(h, o)
  \/ SeriesRowFails(h, o)
  \/ InsertAnchorRow(h, o)
  \/ AnchorRowFails(h, o)
  \/ InsertFloorRow(h, o)
  \/ InsertRefusalRow(h)

\* What a blocking task does when nothing goes wrong around it.
Advance(h) ==
  \/ Authenticate(h)
  \/ Acquire(h)
  \/ \E o \in Offers : Decision(h, o) \/ Insertion(h, o)
  \/ Commit(h)
  \/ Discard(h)
  \/ DropQueued(h)

\* What takes a client to do its part.
ClientStep(h) == Receive(h) \/ TurnAway(h) \/ Deliver(h)

Mishap(h) == StoreError(h) \/ Panic(h) \/ Leave(h)

ServiceNext ==
  \/ \E h \in Handlers : Advance(h) \/ ClientStep(h) \/ Mishap(h) \/ \E o \in Offers : Open(h, o)
  \/ Shutdown
  \/ Exit
  \/ Crash
  \/ Restart

\* The pool runs every task it was handed, and the process ends once drained.
\* Nothing is assumed of clients, which may stall in a body or before an answer
\* for ever, nor of requests, faults, signals or restarts.
Fairness ==
  /\ \A h \in Handlers : WF_serviceVars(Advance(h))
  /\ WF_serviceVars(Exit)

ServiceSpec == ServiceInit /\ [][ServiceNext]_serviceVars /\ Fairness

-----------------------------------------------------------------------------
(* What the service promises *)

\* with_transaction's "serialize and make atomic": whatever requests overlap, and
\* wherever a statement fails, a thread panics or the process dies, the committed
\* tables only ever move by one whole decision of Witness or not at all.
ImplementsWitness == Spec

\* What a submitter was told stands on record for good, through crashes, restarts
\* and failures that follow: a cosignature in the series and at or after each
\* anchor served, a refusal among those published about its log.
AnswersDurable ==
  \A a \in received :
    /\ a.status = "cosigned" =>
         /\ a.issue.series => a.issue.cp \in SeriesCheckpoints
         /\ \A x \in a.issue.anchors :
              \E r \in RotationRowsOf(a.issue.cp.log, x) :
                IsServed(r, a.issue.cp.log, x) /\ AtOrBefore(r.cp, a.issue.cp)
    /\ a.status = "refused" => a.evidence \in RefusalsOf(a.evidence.offered.log)

\* Every request handed to a blocking task gets an outcome, although it shares one
\* mutex with the others, whatever their clients do, and after a panic too: a
\* poisoned store still answers, with an error.
RequestsEnd == \A h \in Handlers : task[h].phase \in Spawned ~> task[h].phase \notin Spawned

\* After the shutdown signal the process ends, whatever its tasks are doing, failed
\* at or lost their client over, unless one of the clients stalls for good: serve
\* waits for every open connection, and only a client can keep it waiting.
DrainCompletes ==
  (\A h \in Handlers : []<>~AwaitsClient(h)) => (server = "draining" ~> server = "down")

-----------------------------------------------------------------------------
(* What the transactions rely on *)

\* A thread is inside a transaction exactly while it owns the mutex.
Excludes == \A h \in Handlers : task[h].phase \in Transaction <=> owner = h

RowsFiled(o, xs) == {[index |-> x, cp |-> o.cp, at |-> o.at] : x \in {y \in xs : ~Superseded(y, o.cp)}}

\* What an anchoring or finished cosigning task has inserted, with the rotations in
\* todo still to come, is what the committed tables call for.
CosigningStaged(t, o) ==
  /\ t.todo \subseteq Anchors(o)
  /\ \A x \in Anchors(o) \ t.todo : ~RotationClash(x, o.cp, o.at)
  /\ t.writes.anchors = RowsFiled(o, Anchors(o) \ t.todo)
  /\ t.writes.floor = {} /\ t.writes.refusal = <<>>
  /\ \/ /\ SeriesAdmissible(o)
        /\ CanInsertCosigned(o.cp, TermsOf(o.cp.log, o.entries))
        /\ t.answer = Cosigned(o.cp, TRUE, Anchors(o))
        /\ t.writes.series = IF SeriesPresent(o.cp) THEN <<>>
             ELSE <<[cp |-> o.cp, terms |-> TermsOf(o.cp.log, o.entries), at |-> o.at]>>
     \/ /\ RotationAdmissible(o)
        /\ t.answer = Cosigned(o.cp, FALSE, Anchors(o))
        /\ t.writes.series = <<>>

\* The refusals the committed tables call for, with the floor each comes with.
CallsForRefusal(o, answer, floor) ==
  \/ /\ Authentic(o) /\ Floored(o.cp.log)
     /\ \E i \in DOMAIN refusals :
          /\ IsOriginalPair(i, o.cp.log)
          /\ answer = Refused("equivocation", refusals[i].retained, refusals[i].offered, NoProof)
     /\ floor = {}
  \/ /\ \E held \in Held :
          EquivocatesWith(o, held) /\ answer = Refused("equivocation", held, o.cp, NoProof)
     /\ floor = {[log |-> o.cp.log, size |-> o.cp.size]}
  \/ /\ \E i \in DOMAIN cosigned :
          \/ /\ Compares(o, i, "size-regression")
             /\ answer = Refused("size-regression", cosigned[i].cp, o.cp, NoProof)
          \/ /\ Compares(o, i, "extension-failed")
             /\ answer = Refused("extension-failed", cosigned[i].cp, o.cp,
                  [from |-> cosigned[i].cp.size, to |-> o.cp.size, leaves |-> o.entries])
     /\ floor = {}

RefusingStaged(t, o) ==
  /\ t.writes.series = <<>> /\ t.writes.anchors = {}
  /\ CallsForRefusal(o, t.answer, t.writes.floor)

\* How far the open transaction of a task has come with its offer.
Staged(t) ==
  LET o == t.offer
  IN /\ t.phase \in Spawned \cup {"reading"} => o \in Offers
     /\ t.phase \in Transaction \cup {"waiting"} => Authentic(o)
     /\ t.phase \in {"reading", "queued", "waiting", "deciding"} => t.writes = NoWrites /\ t.answer = Failed
     /\ t.phase = "cosigning" =>
          /\ SeriesAdmissible(o)
          /\ t.writes = NoWrites /\ t.todo = Anchors(o)
          /\ t.answer = Cosigned(o.cp, TRUE, Anchors(o))
     /\ t.phase = "anchoring" => CosigningStaged(t, o)
     /\ t.phase = "flooring" =>
          /\ t.writes = NoWrites
          /\ CallsForRefusal(o, t.answer, {[log |-> o.cp.log, size |-> o.cp.size]})
     /\ t.phase = "refusing" => RefusingStaged(t, o) /\ t.writes.refusal = <<>>
     /\ t.phase = "written" =>
          \/ CosigningStaged(t, o) /\ t.todo = {}
          \/ RefusingStaged(t, o) /\ t.writes.refusal = <<t.answer.evidence>>

\* An answer is on record by the time its task holds it.
OnRecord(answer) ==
  /\ answer.status = "cosigned" => answer.issue \in issued
  /\ answer.status = "refused" => \E i \in DOMAIN refusals : refusals[i] = answer.evidence

AnswersOnRecord ==
  /\ \A h \in Handlers : task[h].phase = "answered" => OnRecord(task[h].answer)
  /\ \A a \in received : OnRecord(a)

\* What the proofs carry from step to step.
ServiceInv ==
  /\ ServiceTypeOK
  /\ Excludes
  /\ \A h \in Handlers : Staged(task[h])
  /\ AnswersOnRecord

=============================================================================
