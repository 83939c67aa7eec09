------------------------------ MODULE Producer ------------------------------
(***************************************************************************)
(* The life of a record in Producer (producer.py): put_record's            *)
(* backpressure, the pipeline aggregator -> limiter -> collector -> send   *)
(* -> retrier, retries, flush, the exit sequence, and cancellation of a    *)
(* put_record call.                                                        *)
(*                                                                         *)
(* A record is moved by whichever task closed the batch it is in: the      *)
(* caller of some put_record, a timer of the aggregator, the limiter's     *)
(* drain loop, flush, or a send task.  Between two stages the batch exists *)
(* only in local variables of that task, at an await: that is a hand-off.  *)
(* When the task is cancelled or raises, its hand-offs are gone.           *)
(*                                                                         *)
(* The aggregator's and the collector's reducers are used by what Reducer  *)
(* is shown to guarantee: an add or a timer closes some non-empty part of  *)
(* what is buffered, and nothing is lost before aclose.  Shards, sizes and *)
(* deadlines are abstracted to that choice, time to "may be expired", and  *)
(* record_ttl_ms to a bound on the attempts of a record.                   *)
(***************************************************************************)
EXTENDS Integers, FiniteSets

CONSTANTS
    Record,          \* one put_record call each
    MaxOutstanding,  \* config.max_outstanding_records
    MaxAttempts,     \* how many attempts fit in record_ttl_ms
    MayCancel,       \* the calls whose task may be cancelled
    MayExit,         \* whether __aexit__ may run
    NoRecord         \* the pipeline lock is free

ASSUME ProducerAssumption ==
    /\ IsFiniteSet(Record)
    /\ MaxOutstanding \in Nat \ {0}
    /\ MaxAttempts \in Nat
    /\ MayCancel \in SUBSET Record
    /\ MayExit \in BOOLEAN
    /\ NoRecord \notin Record
    /\ Record \cap {"timer", "drain", "flush", "send"} = {}

VARIABLES
    pc,           \* pc[r]: where the put_record call is
    permits,      \* the semaphore's value
    outstanding,  \* self._outstanding
    pipeline,     \* whether the stream's pipeline exists
    builder,      \* the call that holds _pipeline_lock to build it
    pending,      \* records with an entry in pipeline.pending
    outcome,      \* outcome[r]: what the Outcome of r was set to
    finished,     \* how many times on_retrier_finish ran for r
    attempts,     \* failed attempts of r
    stored,       \* records Kinesis has at least one copy of
    agg, lim, col,\* contents of the aggregator, limiter queues, collector
    flight,       \* the hand-offs
    flushing,     \* the stage flush is at
    phase,        \* the stage of __aexit__
    crashed,      \* a task group of the producer saw an exception
    sent          \* history: the records being sent when the final flush was over

call  == <<pc, permits, outstanding>>
setup == <<pipeline, builder>>
fate  == <<pending, outcome, finished>>
stage == <<agg, lim, col>>
exit  == <<flushing, phase, crashed, sent>>
vars  == <<call, setup, fate, attempts, stored, stage, flight, exit>>

Task == Record \cup {"timer", "drain", "flush", "send"}

\* What a task is about to do with the records it holds: give the batch to the
\* limiter, give it to the collector, wait for Kinesis, classify the result,
\* or put a record back into the aggregator.  ok: those reported successful.
HandOff == [task : Task, to : {"limiter", "collector", "kinesis", "retrier", "aggregator"},
            recs : (SUBSET Record) \ {{}}, ok : SUBSET Record]

Hand(t, to, recs) == [task |-> t, to |-> to, recs |-> recs, ok |-> {}]

Held(t) == {h \in flight : h.task = t}

\* The task is suspended between two stages.  (Classification itself does not
\* await; a retry waits for the aggregator.)
Awaits(t) == \E h \in Held(t) : h.to # "retrier"

\* _closed and _task_group = None, which __aexit__ sets together.
Closed == phase \notin {"open", "flushing"}

\* The stage has been closed by the exit stack.
CollectorClosed  == phase \in {"collector", "limiter", "aggregator", "client", "exited"}
LimiterClosed    == phase \in {"limiter", "aggregator", "client", "exited"}
AggregatorClosed == phase \in {"aggregator", "client", "exited"}

Init ==
    /\ pc = [r \in Record |-> "idle"]
    /\ permits = MaxOutstanding
    /\ outstanding = 0
    /\ pipeline = FALSE
    /\ builder = NoRecord
    /\ pending = {}
    /\ outcome = [r \in Record |-> "unset"]
    /\ finished = [r \in Record |-> 0]
    /\ attempts = [r \in Record |-> 0]
    /\ stored = {}
    /\ agg = {} /\ lim = {} /\ col = {}
    /\ flight = {}
    /\ flushing = "no"
    /\ phase = "open"
    /\ crashed = FALSE
    /\ sent = {}

-----------------------------------------------------------------------------
(* put_record                                                              *)

\* The check of _closed is made once, before the wait for the semaphore.
PutRecord(r) ==
    /\ pc[r] = "idle"
    /\ pc' = [pc EXCEPT ![r] = IF Closed THEN "raised" ELSE "acquiring"]
    /\ UNCHANGED <<permits, outstanding, setup, fate, attempts, stored, stage, flight, exit>>

\* Mutant: the call does not wait for the semaphore.
AcquireNoWait(r) ==
    /\ pc[r] = "acquiring"
    /\ permits' = permits - 1
    /\ outstanding' = outstanding + 1
    /\ pc' = [pc EXCEPT ![r] = "building"]
    /\ UNCHANGED <<setup, fate, attempts, stored, stage, flight, exit>>

Acquire(r) ==
    /\ pc[r] = "acquiring"
    /\ permits > 0
    /\ permits' = permits - 1
    /\ outstanding' = outstanding + 1
    /\ pc' = [pc EXCEPT ![r] = "building"]
    /\ UNCHANGED <<setup, fate, attempts, stored, stage, flight, exit>>

\* _get_or_create_pipeline without a pipeline: the lock is kept while
\* _build_pipeline awaits shard_map.start().
StartPipeline(r) ==
    /\ pc[r] = "building"
    /\ ~pipeline /\ builder = NoRecord
    /\ builder' = r
    /\ UNCHANGED <<call, pipeline, fate, attempts, stored, stage, flight, exit>>

\* ListShards succeeded, so start() returns and the pipeline is installed.
ShardMapStarted ==
    /\ builder # NoRecord
    /\ pipeline' = TRUE
    /\ builder' = NoRecord
    /\ UNCHANGED <<call, fate, attempts, stored, stage, flight, exit>>

\* The pipeline is known; build_buffered, and the Outcome is registered before
\* the record is routed.
Register(r) ==
    /\ pc[r] = "building"
    /\ pipeline /\ builder = NoRecord
    /\ pc' = [pc EXCEPT ![r] = "routing"]
    /\ pending' = pending \cup {r}
    /\ UNCHANGED <<permits, outstanding, setup, outcome, finished, attempts, stored, stage,
                   flight, exit>>

\* put_record's `except BaseException`: whatever the task held is gone, the
\* slot is given back, the entry in pending stays.
Raise(r) ==
    /\ pc' = [pc EXCEPT ![r] = "raised"]
    /\ permits' = permits + 1
    /\ outstanding' = outstanding - 1
    /\ flight' = flight \ Held(r)

\* put_buffered: reducer.add, which may close a batch that this task then has
\* to dispatch.  After the aggregator's exit there is no reducer to be had.
Route(r) ==
    /\ pc[r] = "routing"
    /\ \/ /\ AggregatorClosed
          /\ Raise(r)
          /\ UNCHANGED stage
       \/ /\ ~AggregatorClosed
          /\ agg' = agg \cup {r}
          /\ pc' = [pc EXCEPT ![r] = "returned"]
          /\ UNCHANGED <<permits, outstanding, lim, col, flight>>
       \/ /\ ~AggregatorClosed
          /\ \E C \in (SUBSET (agg \cup {r})) \ {{}} :
                 /\ agg' = (agg \cup {r}) \ C
                 /\ flight' = flight \cup {Hand(r, "limiter", C)}
          /\ pc' = [pc EXCEPT ![r] = "dispatching"]
          /\ UNCHANGED <<permits, outstanding, lim, col>>
    /\ UNCHANGED <<setup, fate, attempts, stored, exit>>

\* Everything the call had to dispatch is dispatched: it returns the Outcome.
Return(r) ==
    /\ pc[r] = "dispatching"
    /\ Held(r) = {}
    /\ pc' = [pc EXCEPT ![r] = "returned"]
    /\ UNCHANGED <<permits, outstanding, setup, fate, attempts, stored, stage, flight, exit>>

\* The task of the call is cancelled at one of its awaits.  Before the
\* semaphore is acquired there is nothing to give back.
Cancel(r) ==
    /\ r \in MayCancel
    /\ \/ /\ pc[r] = "acquiring"
          /\ pc' = [pc EXCEPT ![r] = "raised"]
          /\ UNCHANGED <<permits, outstanding, flight, builder>>
       \/ /\ pc[r] \in {"building", "routing"} \/ Awaits(r)
          /\ Raise(r)
          /\ builder' = IF builder = r THEN NoRecord ELSE builder
    /\ UNCHANGED <<pipeline, fate, attempts, stored, stage, exit>>

-----------------------------------------------------------------------------
(* The stages                                                              *)

\* A task raises out of a stage.  A put_record call gives its slot back; a
\* background task takes its whole task group down.
Fail(t) ==
    IF t \in Record
    THEN Raise(t) /\ UNCHANGED crashed
    ELSE /\ flight' = flight \ Held(t)
         /\ crashed' = TRUE
         /\ UNCHANGED call

\* Batches that the limiter lets through go to the collector, expired ones to
\* the retrier, both in the task that drained the queue.
Dispatched(t, admitted, expired) ==
    {Hand(t, "collector", b) : b \in admitted} \cup {Hand(t, "retrier", b) : b \in expired}

\* Limiter.put: enqueue, then drain what tokens and expiry allow; the batch
\* just enqueued expires later than now.
EnterLimiter(h) ==
    /\ h.to = "limiter"
    /\ LET queue == lim \cup {h.recs}
       IN  \E admitted \in SUBSET queue : \E expired \in SUBSET (lim \ admitted) :
               /\ lim' = queue \ (admitted \cup expired)
               /\ flight' = (flight \ {h}) \cup Dispatched(h.task, admitted, expired)
    /\ UNCHANGED <<call, setup, fate, attempts, stored, agg, col, exit>>

\* Collector.put, and on_collector_batch for the batch it may close, which
\* asserts that the producer still has its task group.  Without one to close
\* the reducer arms a timer.  The task group of a closed collector still takes
\* it while it waits for earlier timers, and raises once it has ended, which is
\* before the limiter is closed; the records stay in a buffer nobody will empty.
EnterCollector(h) ==
    /\ h.to = "collector"
    /\ \E C \in SUBSET (col \cup h.recs) :
           /\ col' = (col \cup h.recs) \ C
           /\ \/ /\ C = {} /\ ~LimiterClosed
                 /\ flight' = flight \ {h}
                 /\ UNCHANGED <<call, crashed>>
              \/ /\ C # {} /\ ~Closed
                 /\ flight' = (flight \ {h}) \cup {Hand("send", "kinesis", C)}
                 /\ UNCHANGED <<call, crashed>>
              \/ /\ IF C = {} THEN CollectorClosed ELSE Closed
                 /\ Fail(h.task)
    /\ UNCHANGED <<setup, fate, attempts, stored, agg, lim, flushing, phase, sent>>

\* Sender.send: each record is stored or not; a request error may report
\* records as failed that were stored.
Reply(h) ==
    /\ h.to = "kinesis"
    /\ \E accepted \in SUBSET h.recs : \E ok \in SUBSET accepted :
           /\ stored' = stored \cup accepted
           /\ flight' = (flight \ {h}) \cup
                            {[task |-> h.task, to |-> "retrier", recs |-> h.recs, ok |-> ok]}
    /\ UNCHANGED <<call, setup, fate, attempts, stage, exit>>

\* The rest of hand-off h once r has been dealt with.
Without(h, r) ==
    IF h.recs = {r} THEN {}
    ELSE {[task |-> h.task, to |-> h.to, recs |-> h.recs \ {r}, ok |-> h.ok \ {r}]}

\* Mutant: the terminal callback does not release the semaphore.
FinishNoRelease(r, result) ==
    /\ finished' = [finished EXCEPT ![r] = @ + 1]
    /\ outcome' = IF r \in pending /\ outcome[r] = "unset"
                  THEN [outcome EXCEPT ![r] = result] ELSE outcome
    /\ pending' = pending \ {r}
    /\ outstanding' = outstanding - 1
    /\ UNCHANGED permits

\* on_retrier_finish.
Finish(r, result) ==
    /\ finished' = [finished EXCEPT ![r] = @ + 1]
    /\ outcome' = IF r \in pending /\ outcome[r] = "unset"
                  THEN [outcome EXCEPT ![r] = result] ELSE outcome
    /\ pending' = pending \ {r}
    /\ outstanding' = outstanding - 1
    /\ permits' = permits + 1

\* Mutant: a failed slot is finished as a success.
ClassifyBlind(h, r) ==
    /\ h.to = "retrier"
    /\ r \in h.recs
    /\ Finish(r, "success")
    /\ flight' = (flight \ {h}) \cup Without(h, r)
    /\ UNCHANGED <<attempts, pc, setup, stored, stage, exit>>

\* Retrier.handle for one record: success, final failure, or retry while the
\* TTL allows.  (A success on the wrong shard is retried too.)
Classify(h, r) ==
    /\ h.to = "retrier"
    /\ r \in h.recs
    /\ \/ /\ r \in h.ok
          /\ Finish(r, "success")
          /\ flight' = (flight \ {h}) \cup Without(h, r)
          /\ UNCHANGED attempts
       \/ /\ r \notin h.ok
          /\ Finish(r, "failure")
          /\ flight' = (flight \ {h}) \cup Without(h, r)
          /\ attempts' = [attempts EXCEPT ![r] = @ + 1]
       \/ /\ attempts[r] < MaxAttempts
          /\ attempts' = [attempts EXCEPT ![r] = @ + 1]
          /\ flight' = (flight \ {h}) \cup Without(h, r)
                           \cup {Hand(h.task, "aggregator", {r})}
          /\ UNCHANGED <<fate, permits, outstanding>>
    /\ UNCHANGED <<pc, setup, stored, stage, exit>>

\* Mutant: the batch that re-adding the record closes is not dispatched.
ReenterIgnoresClosed(h) ==
    /\ h.to = "aggregator"
    /\ \E C \in SUBSET (agg \cup h.recs) : agg' = (agg \cup h.recs) \ C
    /\ flight' = flight \ {h}
    /\ UNCHANGED <<call, setup, fate, attempts, stored, lim, col, exit>>

\* on_retrier_retry: put_buffered in the task that classified the record.
Reenter(h) ==
    /\ h.to = "aggregator"
    /\ \/ /\ AggregatorClosed
          /\ Fail(h.task)
          /\ UNCHANGED agg
       \/ /\ ~AggregatorClosed
          /\ \E C \in SUBSET (agg \cup h.recs) :
                 /\ agg' = (agg \cup h.recs) \ C
                 /\ flight' = (flight \ {h}) \cup
                        (IF C = {} THEN {} ELSE {Hand(h.task, "limiter", C)})
          /\ UNCHANGED <<call, crashed>>
    /\ UNCHANGED <<setup, fate, attempts, stored, lim, col, flushing, phase, sent>>

-----------------------------------------------------------------------------
(* Timers, flush, exit                                                     *)

\* Mutant: a timer does not close a batch of one.
AggregatorTimerSpares ==
    /\ ~AggregatorClosed
    /\ \E C \in (SUBSET agg) \ {{}} :
           /\ Cardinality(C) > 1
           /\ agg' = agg \ C
           /\ flight' = flight \cup {Hand("timer", "limiter", C)}
    /\ UNCHANGED <<call, setup, fate, attempts, stored, lim, col, exit>>

\* A deadline timer of an aggregator reducer.
AggregatorTimer ==
    /\ ~AggregatorClosed
    /\ \E C \in (SUBSET agg) \ {{}} :
           /\ agg' = agg \ C
           /\ flight' = flight \cup {Hand("timer", "limiter", C)}
    /\ UNCHANGED <<call, setup, fate, attempts, stored, lim, col, exit>>

\* Mutant: admitted batches are dispatched but stay queued.
DrainLoopKeeps ==
    /\ ~LimiterClosed
    /\ Held("drain") = {}
    /\ \E admitted \in SUBSET lim : \E expired \in SUBSET (lim \ admitted) :
           /\ admitted \cup expired # {}
           /\ lim' = lim \ expired
           /\ flight' = flight \cup Dispatched("drain", admitted, expired)
    /\ UNCHANGED <<call, setup, fate, attempts, stored, agg, col, exit>>

\* One round of the limiter's drain loop, which dispatches before the next.
DrainLoop ==
    /\ ~LimiterClosed
    /\ Held("drain") = {}
    /\ \E admitted \in SUBSET lim : \E expired \in SUBSET (lim \ admitted) :
           /\ admitted \cup expired # {}
           /\ lim' = lim \ (admitted \cup expired)
           /\ flight' = flight \cup Dispatched("drain", admitted, expired)
    /\ UNCHANGED <<call, setup, fate, attempts, stored, agg, col, exit>>

\* The collector's deadline timer.
CollectorTimer ==
    /\ ~CollectorClosed
    /\ \E C \in (SUBSET col) \ {{}} :
           /\ col' = col \ C
           /\ flight' = IF Closed THEN flight
                        ELSE flight \cup {Hand("send", "kinesis", C)}
    /\ crashed' = (crashed \/ Closed)
    /\ UNCHANGED <<call, setup, fate, attempts, stored, agg, lim, flushing, phase, sent>>

\* flush() starts when a caller, or __aexit__, calls it.
FlushBegin ==
    /\ flushing = "no"
    /\ phase = "open"
    /\ flushing' = "lock"
    /\ UNCHANGED <<call, setup, fate, attempts, stored, stage, flight, phase, crashed, sent>>

ExitBegin ==
    /\ MayExit
    /\ flushing = "no"
    /\ phase = "open"
    /\ flushing' = "lock"
    /\ phase' = "flushing"
    /\ UNCHANGED <<call, setup, fate, attempts, stored, stage, flight, crashed, sent>>

\* The pipelines are listed under _pipeline_lock.
FlushLock ==
    /\ flushing = "lock"
    /\ builder = NoRecord
    /\ flushing' = IF pipeline THEN "aggregator" ELSE "done"
    /\ UNCHANGED <<call, setup, fate, attempts, stored, stage, flight, phase, crashed, sent>>

\* aggregator.flush: the batch each reducer returns.  What does not fit in it
\* stays buffered.
FlushAggregator ==
    /\ flushing = "aggregator"
    /\ flushing' = "limiter"
    /\ \E C \in SUBSET agg :
           /\ C = {} => agg = {}
           /\ agg' = agg \ C
           /\ flight' = flight \cup (IF C = {} THEN {} ELSE {Hand("flush", "limiter", C)})
    /\ UNCHANGED <<call, setup, fate, attempts, stored, lim, col, phase, crashed, sent>>

\* limiter.flush: drain_force of every queue, once the previous stage's
\* batches have been dispatched.
FlushLimiter ==
    /\ flushing = "limiter"
    /\ Held("flush") = {}
    /\ flushing' = "collector"
    /\ \E expired \in SUBSET lim :
           flight' = flight \cup Dispatched("flush", lim \ expired, expired)
    /\ lim' = {}
    /\ UNCHANGED <<call, setup, fate, attempts, stored, agg, col, phase, crashed, sent>>

\* collector.flush: likewise one batch, given to a send task.
FlushCollector ==
    /\ flushing = "collector"
    /\ Held("flush") = {}
    /\ flushing' = "done"
    /\ \E C \in SUBSET col :
           /\ C = {} => col = {}
           /\ col' = col \ C
           /\ flight' = flight \cup (IF C = {} THEN {} ELSE {Hand("send", "kinesis", C)})
    /\ UNCHANGED <<call, setup, fate, attempts, stored, agg, lim, phase, crashed, sent>>

\* flush returns; in __aexit__ _closed is set and the task group forgotten.
FlushEnd ==
    /\ flushing = "done"
    /\ flushing' = "no"
    /\ IF phase = "flushing"
       THEN /\ phase' = "closing"
            /\ sent' = UNION {h.recs : h \in {k \in flight : k.to = "kinesis"}}
       ELSE UNCHANGED <<phase, sent>>
    /\ UNCHANGED <<call, setup, fate, attempts, stored, stage, flight, crashed>>

\* The exit stack, last entered first: the collector's buffer is dropped,
ExitCollector ==
    /\ phase = "closing"
    /\ phase' = "collector"
    /\ col' = {}
    /\ UNCHANGED <<call, setup, fate, attempts, stored, agg, lim, flight, flushing, crashed, sent>>

\* the limiter's drain loop is cancelled wherever it is,
ExitLimiter ==
    /\ phase = "collector"
    /\ Held("drain") = {} \/ Awaits("drain")
    /\ phase' = "limiter"
    /\ flight' = flight \ Held("drain")
    /\ UNCHANGED <<call, setup, fate, attempts, stored, stage, flushing, crashed, sent>>

\* the aggregator's buffers are dropped and its task group forgotten,
ExitAggregator ==
    /\ phase = "limiter"
    /\ phase' = "aggregator"
    /\ agg' = {}
    /\ UNCHANGED <<call, setup, fate, attempts, stored, lim, col, flight, flushing, crashed, sent>>

\* Mutant: the exit waits until the limiter's queues are empty.
ExitClientWaits ==
    /\ phase = "aggregator"
    /\ Held("timer") = {} /\ lim = {}
    /\ phase' = "client"
    /\ UNCHANGED <<call, setup, fate, attempts, stored, stage, flight, flushing, crashed, sent>>

\* which then waits for its timers; the client is closed,
ExitClient ==
    /\ phase = "aggregator"
    /\ Held("timer") = {}
    /\ phase' = "client"
    /\ UNCHANGED <<call, setup, fate, attempts, stored, stage, flight, flushing, crashed, sent>>

\* and last the task group of the send tasks ends.
ExitDone ==
    /\ phase = "client"
    /\ Held("send") = {}
    /\ phase' = "exited"
    /\ UNCHANGED <<call, setup, fate, attempts, stored, stage, flight, flushing, crashed, sent>>

-----------------------------------------------------------------------------
Caller(r) ==
    PutRecord(r) \/ Acquire(r) \/ StartPipeline(r) \/ Register(r) \/ Route(r) \/ Return(r)

Move(h) ==
    \/ EnterLimiter(h) \/ EnterCollector(h) \/ Reply(h) \/ Reenter(h)
    \/ \E r \in Record : Classify(h, r)

FlushStep == FlushLock \/ FlushAggregator \/ FlushLimiter \/ FlushCollector \/ FlushEnd

ExitStep ==
    ExitCollector \/ ExitLimiter \/ ExitAggregator \/ ExitClient \/ ExitDone

Next ==
    \/ \E r \in Record : Caller(r) \/ Cancel(r)
    \/ ShardMapStarted
    \/ \E h \in flight : Move(h)
    \/ AggregatorTimer \/ DrainLoop \/ CollectorTimer
    \/ FlushBegin \/ ExitBegin \/ FlushStep \/ ExitStep

Spec == Init /\ [][Next]_vars

\* The event loop resumes every task that can run, timers and the drain loop
\* fire, a request to Kinesis gets an answer or an error, and ListShards
\* succeeds in the end.  No fairness for the users: calls, cancellation, flush
\* and exit are theirs.
Fairness ==
    /\ \A r \in Record :
           /\ WF_vars(StartPipeline(r)) /\ WF_vars(Register(r))
           /\ WF_vars(Route(r)) /\ WF_vars(Return(r))
           /\ SF_vars(Acquire(r))
    /\ WF_vars(\E h \in flight : Move(h))
    /\ WF_vars(AggregatorTimer) /\ WF_vars(DrainLoop) /\ WF_vars(CollectorTimer)
    /\ WF_vars(FlushStep) /\ WF_vars(ExitStep)
    /\ WF_vars(ShardMapStarted)

FairSpec == Spec /\ Fairness

-----------------------------------------------------------------------------
(* Properties                                                              *)

\* Types of the state; the semaphore is never below zero, and no task holds an
\* empty batch.
TypeOK ==
    /\ pc \in [Record -> {"idle", "acquiring", "building", "routing", "dispatching",
                          "returned", "raised"}]
    /\ permits \in Nat
    /\ outstanding \in Int
    /\ pipeline \in BOOLEAN
    /\ builder \in Record \cup {NoRecord}
    /\ pending \in SUBSET Record
    /\ outcome \in [Record -> {"unset", "success", "failure"}]
    /\ finished \in [Record -> Nat]
    /\ attempts \in [Record -> Nat]
    /\ stored \in SUBSET Record
    /\ agg \in SUBSET Record
    /\ lim \in SUBSET ((SUBSET Record) \ {{}})
    /\ col \in SUBSET Record
    /\ flight \in SUBSET HandOff
    /\ flushing \in {"no", "lock", "aggregator", "limiter", "collector", "done"}
    /\ phase \in {"open", "flushing", "closing", "collector", "limiter", "aggregator",
                  "client", "exited"}
    /\ crashed \in BOOLEAN
    /\ sent \in SUBSET Record

\* Records that hold a slot: past the semaphore, not raised, not resolved.
InPipeline ==
    {r \in Record : /\ pc[r] \in {"building", "routing", "dispatching", "returned"}
                    /\ finished[r] = 0}

Everywhere ==
    {agg, col} \cup lim \cup {h.recs : h \in flight}

\* No call has raised while its record was on its way.
CleanlyRaised ==
    \A r \in Record : pc[r] = "raised" => finished[r] = 0 /\ r \notin UNION Everywhere

\* outstanding_records counts exactly the records that hold a slot, and the
\* semaphore has the rest: no path through retries, failures, expiry, a
\* rejected put or a cancellation before the record is buffered leaks a slot
\* or returns one twice.  (A call cancelled later does return one twice.)
SlotsAccounted ==
    CleanlyRaised => /\ outstanding = Cardinality(InPipeline)
                     /\ permits + outstanding = MaxOutstanding

\* A record is never in two places at once, so no two tasks classify it, and
\* once resolved it is nowhere.
NeverDuplicated ==
    /\ agg \cap col = {}
    /\ \A b \in lim : b \cap (agg \cup col) = {}
    /\ \A b, d \in lim : b # d => b \cap d = {}
    /\ \A h \in flight : h.recs \cap (agg \cup col \cup UNION lim) = {}
    /\ \A h, k \in flight : h # k => h.recs \cap k.recs = {}
    /\ \A r \in Record : finished[r] > 0 => r \notin UNION Everywhere

\* While no call has been cancelled and until the flush on exit is over, a
\* record that was routed and is not resolved is somewhere in the pipeline.
NeverLost ==
    ~Closed /\ (\A r \in Record : pc[r] # "raised") =>
        \A r \in Record :
            pc[r] \in {"dispatching", "returned"} /\ finished[r] = 0
                => r \in UNION Everywhere

\* The terminal callback of a record that was routed always finds its
\* Outcome, runs once, and a success it reports is in the stream.
OutcomesTruthful ==
    \A r \in Record :
        /\ finished[r] = (IF outcome[r] = "unset" THEN 0 ELSE 1)
        /\ pc[r] \in {"routing", "dispatching", "returned"} /\ finished[r] = 0 => r \in pending
        /\ outcome[r] = "success" => r \in stored

\* put_record: "The returned Outcome resolves once the Retrier classifies the
\* record as terminal": every returned Outcome is resolved, or the final flush
\* of the exit has come to its end.
ReturnedResolves ==
    \A r \in Record : (pc[r] = "returned") ~> (outcome[r] # "unset" \/ Closed)

\* A put_record call that started comes back, backpressure included, unless the
\* exit has closed the pipeline under it.  (Then it may wait for ever for the
\* slot of a record that the exit dropped.)
PutReturns ==
    \A r \in Record : (pc[r] = "acquiring") ~> (pc[r] \in {"returned", "raised"} \/ Closed)

\* __aexit__ comes to its end, whatever the send tasks do.
ExitCompletes == (phase = "flushing") ~> (phase = "exited")

\* examples/fastapi.md: exit drains in-flight records, "not a record dropped".
ExitDrains ==
    phase = "exited" => \A r \in sent : outcome[r] # "unset"
=============================================================================
