---------------------------- MODULE SyncProducer ----------------------------
(***************************************************************************)
(* The synchronous facade (sync.py): OS threads that call put_record,      *)
(* flush, SyncOutcome's methods and __exit__, and the one dispatcher task  *)
(* that executes their commands on the event loop.                         *)
(*                                                                         *)
(* A call is a check of _entered, a read of the command stream and the     *)
(* portal, and a send on a stream without buffer: the senders wait in line *)
(* until the dispatcher receives.  Threads are preempted between any two   *)
(* of these steps.                                                         *)
(*                                                                         *)
(* Of the async producer there is what module Producer shows of it: a      *)
(* put_record that waits for one of MaxOutstanding slots, records that are *)
(* resolved some time later and then give their slot back, a flush that    *)
(* loses what it holds when it is cancelled, and an exit that may drop     *)
(* what is not resolved.                                                   *)
(***************************************************************************)
EXTENDS Integers, Sequences, FiniteSets

CONSTANTS
    Record,         \* one put_record call, and thread, each
    MaxOutstanding  \* config.max_outstanding_records

ASSUME SyncAssumption ==
    /\ IsFiniteSet(Record)
    /\ MaxOutstanding \in Nat \ {0}
    /\ Record \cap {"userflush", "exitflush", "shutdown", "receiving", "stopping",
                    "stopped"} = {}

VARIABLES
    thread,     \* thread[c]: where the call with command c is
    line,       \* the commands whose send waits, first come first served
    running,    \* what the dispatcher does: a command, or one of Between
    polling,    \* the flush it executes is past Producer.flush
    entered,    \* self._entered
    portal,     \* none; running, with self._portal and self._command_send set;
                \* closing, in portal_cm.__exit__
    rec,        \* rec[r]: where the record is in the async producer
    outcome     \* outcome[r]: what its Outcome is set to

facade == <<thread, line, running, polling, entered, portal>>
vars == <<facade, rec, outcome>>

\* A thread per record, one that calls flush, and the one that leaves the
\* with block, whose two commands are exitflush and shutdown.
Command == Record \cup {"userflush", "exitflush", "shutdown"}
Flushes == {"userflush", "exitflush"}
Between == {"receiving", "stopping", "stopped"}

\* waiting: in send or in cmd.done.wait(); answered: done is set, the thread
\* has not run yet; awaiting: in SyncOutcome.wait.
Init ==
    /\ thread = [c \in Command |-> "idle"]
    /\ line = <<>>
    /\ running = "stopped"
    /\ polling = FALSE
    /\ entered = FALSE
    /\ portal = "none"
    /\ rec = [r \in Record |-> "new"]
    /\ outcome = [r \in Record |-> "unset"]

In(q, c) == \E i \in 1..Len(q) : q[i] = c

\* producer.outstanding_records: a record that was lost keeps its slot.
Outstanding == Cardinality({r \in Record : rec[r] \in {"inside", "lost"}})

-----------------------------------------------------------------------------
(* The threads                                                             *)

\* __enter__: the portal runs and the dispatcher has entered the producer.
\* When that fails, __enter__ takes the portal down and raises: nothing has
\* changed.
Enter ==
    /\ thread["exitflush"] = "idle"
    /\ ~entered
    /\ entered' = TRUE
    /\ portal' = "running"
    /\ running' = "receiving"
    /\ UNCHANGED <<thread, line, polling, rec, outcome>>

\* put_record and flush look at _entered first.
Call(c) ==
    /\ c \in Record \cup {"userflush"}
    /\ thread[c] = "idle"
    /\ thread' = [thread EXCEPT ![c] = IF entered THEN "entered" ELSE "raised"]
    /\ UNCHANGED <<line, running, polling, entered, portal, rec, outcome>>

\* _dispatch: without command stream an AssertionError, on one that the
\* dispatcher has closed a ClosedResourceError, else the send waits in line.
Dispatch(c) ==
    /\ thread[c] = "entered"
    /\ IF portal = "running" /\ running \notin {"stopping", "stopped"}
       THEN thread' = [thread EXCEPT ![c] = "waiting"] /\ line' = Append(line, c)
       ELSE thread' = [thread EXCEPT ![c] = "raised"] /\ UNCHANGED line
    /\ UNCHANGED <<running, polling, entered, portal, rec, outcome>>

\* The thread of put_record goes on and builds the SyncOutcome, for which it
\* reads the portal once more.
Resume(r) ==
    /\ r \in Record
    /\ thread[r] = "answered"
    /\ thread' = [thread EXCEPT ![r] = IF portal # "none" THEN "returned" ELSE "raised"]
    /\ UNCHANGED <<line, running, polling, entered, portal, rec, outcome>>

\* SyncOutcome.cancel, on the event loop.  A portal that is closing or gone
\* takes no calls: cancel and wait raise a RuntimeError and change nothing.
CancelOutcome(r) ==
    /\ thread[r] \in {"returned", "over"}
    /\ portal = "running"
    /\ outcome[r] = "unset"
    /\ outcome' = [outcome EXCEPT ![r] = "cancelled"]
    /\ UNCHANGED <<facade, rec>>

\* SyncOutcome.wait: a task of the portal
WaitOutcome(r) ==
    /\ thread[r] = "returned"
    /\ portal = "running"
    /\ thread' = [thread EXCEPT ![r] = "awaiting"]
    /\ UNCHANGED <<line, running, polling, entered, portal, rec, outcome>>

\* that returns once the outcome is set,
WaitEnds(r) ==
    /\ thread[r] = "awaiting"
    /\ outcome[r] # "unset"
    /\ thread' = [thread EXCEPT ![r] = "over"]
    /\ UNCHANGED <<line, running, polling, entered, portal, rec, outcome>>

\* and ends before that only if the user gave it a timeout.
WaitTimeout(r) ==
    /\ thread[r] = "awaiting"
    /\ thread' = [thread EXCEPT ![r] = "over"]
    /\ UNCHANGED <<line, running, polling, entered, portal, rec, outcome>>

\* __exit__: no new calls, then the flush with its own timeout,
Exit ==
    /\ entered
    /\ entered' = FALSE
    /\ thread' = [thread EXCEPT !["exitflush"] = "entered"]
    /\ UNCHANGED <<line, running, polling, portal, rec, outcome>>

\* Mutant: the TimeoutError of the flush is not suppressed.
ExitShutdownInTime ==
    /\ thread["exitflush"] = "answered"
    /\ thread["shutdown"] = "idle"
    /\ thread' = [thread EXCEPT !["shutdown"] = "entered"]
    /\ UNCHANGED <<line, running, polling, entered, portal, rec, outcome>>

\* whose TimeoutError is suppressed, then the shutdown command.
ExitShutdown ==
    /\ thread["exitflush"] \in {"answered", "timedout"}
    /\ thread["shutdown"] = "idle"
    /\ thread' = [thread EXCEPT !["shutdown"] = "entered"]
    /\ UNCHANGED <<line, running, polling, entered, portal, rec, outcome>>

\* finally, behind the shutdown command and at most 60 s for the dispatcher,
\* or at once when the flush raised another error: the portal is stopped,
ExitFinally ==
    /\ portal = "running"
    /\ thread["shutdown"] = "answered" \/ thread["exitflush"] = "raised"
    /\ portal' = "closing"
    /\ UNCHANGED <<thread, line, running, polling, entered, rec, outcome>>

\* which waits for its remaining tasks, the dispatcher and the waiters.
ExitPortal ==
    /\ portal = "closing"
    /\ running = "stopped"
    /\ \A r \in Record : thread[r] # "awaiting"
    /\ portal' = "none"
    /\ thread' = [thread EXCEPT !["shutdown"] = "over"]
    /\ UNCHANGED <<line, running, polling, entered, rec, outcome>>

-----------------------------------------------------------------------------
(* The dispatcher                                                          *)

\* Mutant: the sends in line when the stream is closed are left there.
CloseStreamSilently(q) ==
    /\ thread' = [thread EXCEPT !["shutdown"] = "answered"]
    /\ line' = q

\* The stream is closed behind the shutdown command: the sends in line raise
\* BrokenResourceError.
CloseStream(q) ==
    /\ thread' = [c \in Command |-> IF c = "shutdown" THEN "answered"
                                    ELSE IF In(q, c) THEN "raised" ELSE thread[c]]
    /\ line' = <<>>

\* receive(): a command is executed; shutdown ends the loop.
Receive ==
    /\ running = "receiving"
    /\ line # <<>>
    /\ IF Head(line) = "shutdown"
       THEN running' = "stopping" /\ CloseStream(Tail(line))
       ELSE running' = Head(line) /\ line' = Tail(line) /\ UNCHANGED thread
    /\ UNCHANGED <<polling, entered, portal, rec, outcome>>

\* producer.put_record: the dispatcher waits with it for a slot.
PutDone ==
    /\ running \in Record
    /\ Outstanding < MaxOutstanding
    /\ rec' = [rec EXCEPT ![running] = "inside"]
    /\ thread' = [thread EXCEPT ![running] = "answered"]
    /\ running' = "receiving"
    /\ UNCHANGED <<line, polling, entered, portal, outcome>>

\* producer.put_record refuses the record (its partition key or explicit hash
\* key): the error is the caller's, and a slot it had taken is given back.
PutRaises ==
    /\ running \in Record
    /\ thread' = [thread EXCEPT ![running] = "raised"]
    /\ running' = "receiving"
    /\ UNCHANGED <<line, polling, entered, portal, rec, outcome>>

\* producer.flush returns.
FlushReturns ==
    /\ running \in Flushes
    /\ ~polling
    /\ polling' = TRUE
    /\ UNCHANGED <<thread, line, running, entered, portal, rec, outcome>>

\* Mutant: flush does not wait for the records in flight.
FlushDoneEarly ==
    /\ running \in Flushes
    /\ polling
    /\ thread' = [thread EXCEPT ![running] = "answered"]
    /\ running' = "receiving"
    /\ polling' = FALSE
    /\ UNCHANGED <<line, entered, portal, rec, outcome>>

\* The poll sees no record outstanding.
FlushDone ==
    /\ running \in Flushes
    /\ polling
    /\ Outstanding = 0
    /\ thread' = [thread EXCEPT ![running] = "answered"]
    /\ running' = "receiving"
    /\ polling' = FALSE
    /\ UNCHANGED <<line, entered, portal, rec, outcome>>

\* A cancelled or failing Producer.flush may hold batches that are in no
\* stage; the poll that follows it holds none.
LoseInHand ==
    \E H \in SUBSET {r \in Record : rec[r] = "inside"} :
        /\ polling => H = {}
        /\ rec' = [r \in Record |-> IF r \in H THEN "lost" ELSE rec[r]]

\* fail_after: the TimeoutError is the caller's.
FlushTimeout ==
    /\ running \in Flushes
    /\ LoseInHand
    /\ thread' = [thread EXCEPT ![running] = "timedout"]
    /\ running' = "receiving"
    /\ polling' = FALSE
    /\ UNCHANGED <<line, entered, portal, outcome>>

\* producer.flush raises another error, which is the caller's too.
FlushRaises ==
    /\ running \in Flushes
    /\ ~polling
    /\ LoseInHand
    /\ thread' = [thread EXCEPT ![running] = "raised"]
    /\ running' = "receiving"
    /\ UNCHANGED <<line, polling, entered, portal, outcome>>

\* producer.__aexit__ is over: what was not resolved by then is dropped.
DispatcherStops ==
    /\ running = "stopping"
    /\ running' = "stopped"
    /\ rec' = [r \in Record |-> IF rec[r] = "inside" THEN "dropped" ELSE rec[r]]
    /\ UNCHANGED <<thread, line, polling, entered, portal, outcome>>

\* Mutant: the terminal callback sets the outcome without looking.
ResolveBlind(r) ==
    /\ rec[r] = "inside"
    /\ rec' = [rec EXCEPT ![r] = "resolved"]
    /\ outcome' = [outcome EXCEPT ![r] = "result"]
    /\ UNCHANGED facade

\* on_retrier_finish, and Outcome.set_value, which raises when set twice.
Resolve(r) ==
    /\ rec[r] = "inside"
    /\ rec' = [rec EXCEPT ![r] = "resolved"]
    /\ outcome' = [outcome EXCEPT ![r] = IF @ = "unset" THEN "result" ELSE @]
    /\ UNCHANGED facade

-----------------------------------------------------------------------------
Thread(c) == Dispatch(c) \/ Resume(c)

Dispatcher == Receive \/ PutDone \/ FlushReturns \/ FlushDone \/ DispatcherStops

Next ==
    \/ \E c \in Command : Call(c) \/ Thread(c)
    \/ \E r \in Record : \/ CancelOutcome(r) \/ WaitOutcome(r)
                         \/ WaitEnds(r) \/ WaitTimeout(r) \/ Resolve(r)
    \/ Enter \/ Exit \/ ExitShutdown \/ ExitFinally \/ ExitPortal
    \/ Dispatcher \/ PutRaises \/ FlushTimeout \/ FlushRaises

Spec == Init /\ [][Next]_vars

\* A runnable thread runs, a wait whose outcome is set returns, the dispatcher
\* is scheduled, the exit goes on, its flush has a timeout, and a record in the
\* pipeline is resolved (ReturnedResolves of Producer).  No call, exit, error,
\* timeout of the user's or wait with one is obliged to happen.
FairSpec ==
    /\ Spec
    /\ \A c \in Command : WF_vars(Thread(c))
    /\ \A r \in Record : WF_vars(WaitEnds(r)) /\ WF_vars(Resolve(r))
    /\ WF_vars(ExitShutdown) /\ WF_vars(ExitFinally) /\ WF_vars(ExitPortal)
    /\ WF_vars(Dispatcher) /\ WF_vars(running = "exitflush" /\ FlushTimeout)

-----------------------------------------------------------------------------
(* Properties                                                              *)

\* Types of the state.
TypeOK ==
    /\ thread \in [Command -> {"idle", "entered", "waiting", "answered", "timedout",
                               "returned", "raised", "awaiting", "over"}]
    /\ line \in Seq(Command)
    /\ running \in Record \cup Flushes \cup Between
    /\ polling \in BOOLEAN
    /\ entered \in BOOLEAN
    /\ portal \in {"none", "running", "closing"}
    /\ rec \in [Record -> {"new", "inside", "lost", "dropped", "resolved"}]
    /\ outcome \in [Record -> {"unset", "result", "cancelled"}]

\* A thread never waits for a command that nobody will execute: it is in line,
\* or the dispatcher is at it, wherever exit closed the stream meanwhile.
NobodyForgotten ==
    \A c \in Command :
        thread[c] = "waiting" <=> running = c \/ (running # "stopped" /\ In(line, c))

\* flush: "Block until every in-flight record reaches a terminal state": when
\* a flush that did not time out ends, every record any thread has put before
\* has its outcome.
FlushDrains ==
    [][\A c \in Flushes : thread'[c] = "answered" /\ thread[c] # "answered" =>
          \A r \in Record : rec[r] # "new" => outcome[r] # "unset"]_vars

\* A resolved outcome never changes, so what a thread got from wait stays
\* true, with cancel and the retrier racing to set it.
OutcomeSetOnce ==
    [][\A r \in Record : outcome[r] # "unset" => outcome'[r] = outcome[r]]_vars

NoneLost == \A r \in Record : rec[r] # "lost"

\* Every call comes back, though the dispatcher executes one command at a time
\* and a put_record without a slot keeps all the others waiting; unless a
\* flush has timed out with a batch in hand, whose slots never come back.
CallsReturn ==
    \A c \in Command : (thread[c] = "waiting") ~> (thread[c] # "waiting" \/ ~NoneLost)

\* What keeps __exit__ from its end: an exit flush that raised (no shutdown is
\* sent, so the dispatcher receives for ever); a put that waits for slots which
\* are all lost, or a user's flush without timeout that waits for a lost record,
\* ahead of it in line; a SyncOutcome.wait without timeout on a record that was
\* lost or that the exit itself has dropped.
HeldUp ==
    \/ thread["exitflush"] = "raised"
    \/ running \in Record /\ Cardinality({r \in Record : rec[r] = "lost"}) >= MaxOutstanding
    \/ running = "userflush" /\ ~NoneLost
    \/ \E r \in Record : /\ thread[r] = "awaiting" /\ outcome[r] = "unset"
                          /\ rec[r] \in {"lost", "dropped"}

\* __exit__ comes to its end, whatever it finds in line or in flight, unless
\* one of these holds it up for ever.
ExitReturns ==
    (thread["exitflush"] # "idle") ~> (thread["shutdown"] = "over" \/ []HeldUp)
=============================================================================
