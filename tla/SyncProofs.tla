----------------------------- MODULE SyncProofs -----------------------------
(***************************************************************************)
(* Proofs about SyncProducer for any number of threads and slots: no       *)
(* thread waits for a command that nobody will execute, a flush that ends  *)
(* in time has drained the producer, and an outcome is set once.           *)
(***************************************************************************)
EXTENDS SyncProducer, FiniteSetTheorems, TLAPS

-----------------------------------------------------------------------------
(* The line of senders                                                     *)

NoRepeat(q) == \A i, j \in 1..Len(q) : q[i] = q[j] => i = j

\* The members of a line that someone joins.
LEMMA AppendIn ==
    ASSUME NEW S, NEW q \in Seq(S), NEW c \in S
    PROVE  /\ \A d : In(Append(q, c), d) <=> In(q, d) \/ d = c
           /\ NoRepeat(q) /\ ~In(q, c) => NoRepeat(Append(q, c))
<1>1. /\ Append(q, c) \in Seq(S) /\ Len(Append(q, c)) = Len(q) + 1 /\ Len(q) \in Nat
      /\ \A i \in 1..Len(q) : Append(q, c)[i] = q[i]
      /\ Append(q, c)[Len(q) + 1] = c
  OBVIOUS
<1>2. \A i \in 1..(Len(q) + 1) : i \in 1..Len(q) \/ i = Len(q) + 1
  BY <1>1
<1>3. ASSUME NEW d PROVE In(Append(q, c), d) <=> In(q, d) \/ d = c
  <2>1. ASSUME In(Append(q, c), d) PROVE In(q, d) \/ d = c
    BY <1>1, <1>2, <2>1 DEF In
  <2>2. ASSUME In(q, d) PROVE In(Append(q, c), d)
    BY <1>1, <2>2 DEF In
  <2>3. ASSUME d = c PROVE In(Append(q, c), d)
    BY <1>1, <2>3 DEF In
  <2>4. QED
    BY <2>1, <2>2, <2>3
<1>4. NoRepeat(q) /\ ~In(q, c) => NoRepeat(Append(q, c))
  BY <1>1, <1>2 DEF NoRepeat, In
<1>5. QED
  BY <1>3, <1>4

\* The members of a line whose first is served.
LEMMA TailIn ==
    ASSUME NEW S, NEW q \in Seq(S), q # <<>>
    PROVE  /\ Head(q) \in S /\ Tail(q) \in Seq(S)
           /\ \A d : In(q, d) <=> d = Head(q) \/ In(Tail(q), d)
           /\ NoRepeat(q) => NoRepeat(Tail(q)) /\ ~In(Tail(q), Head(q))
<1>1. /\ Tail(q) \in Seq(S) /\ Len(q) \in Nat /\ Len(q) >= 1 /\ Len(Tail(q)) = Len(q) - 1
      /\ \A i \in 1..(Len(q) - 1) : Tail(q)[i] = q[i + 1]
      /\ Head(q) = q[1] /\ Head(q) \in S
  OBVIOUS
<1>2. ASSUME NEW d PROVE In(q, d) <=> d = Head(q) \/ In(Tail(q), d)
  <2>1. ASSUME In(q, d), d # Head(q) PROVE In(Tail(q), d)
    <3>1. PICK i \in 1..Len(q) : q[i] = d
      BY <2>1 DEF In
    <3>2. i - 1 \in 1..(Len(q) - 1) /\ q[(i - 1) + 1] = d
      BY <1>1, <2>1, <3>1
    <3>3. QED
      BY <1>1, <3>2 DEF In
  <2>2. ASSUME d = Head(q) PROVE In(q, d)
    BY <1>1, <2>2 DEF In
  <2>3. ASSUME In(Tail(q), d) PROVE In(q, d)
    <3>1. PICK i \in 1..(Len(q) - 1) : Tail(q)[i] = d
      BY <1>1, <2>3 DEF In
    <3>2. i + 1 \in 1..Len(q) /\ q[i + 1] = d
      BY <1>1, <3>1
    <3>3. QED
      BY <3>2 DEF In
  <2>4. QED
    BY <2>1, <2>2, <2>3
<1>3. ASSUME NoRepeat(q) PROVE NoRepeat(Tail(q)) /\ ~In(Tail(q), Head(q))
  <2>1. NoRepeat(Tail(q))
    <3> SUFFICES ASSUME NEW i \in 1..(Len(q) - 1), NEW j \in 1..(Len(q) - 1),
                        Tail(q)[i] = Tail(q)[j]
                 PROVE  i = j
      BY <1>1 DEF NoRepeat
    <3>1. i + 1 \in 1..Len(q) /\ j + 1 \in 1..Len(q) /\ q[i + 1] = q[j + 1]
      BY <1>1
    <3>2. i + 1 = j + 1
      BY <1>3, <3>1 DEF NoRepeat
    <3>3. QED
      BY <3>2
  <2>2. ASSUME In(Tail(q), Head(q)) PROVE FALSE
    <3>1. PICK i \in 1..(Len(q) - 1) : Tail(q)[i] = q[1]
      BY <1>1, <2>2 DEF In
    <3>2. i + 1 \in 1..Len(q) /\ 1 \in 1..Len(q) /\ q[i + 1] = q[1]
      BY <1>1, <3>1
    <3>3. i + 1 = 1
      BY <1>3, <3>2 DEF NoRepeat
    <3>4. QED
      BY <3>3
  <2>3. QED
    BY <2>1, <2>2
<1>4. QED
  BY <1>1, <1>2, <1>3

\* Nobody is in the empty line.
LEMMA EmptyIn == \A d : ~In(<<>>, d)
BY DEF In

-----------------------------------------------------------------------------
(* The inductive invariant                                                 *)

\* A thread waits exactly for a command that is in line, once, or that the
\* dispatcher executes; with the stream closed nobody is in line.
LineInv ==
    /\ NoRepeat(line)
    /\ \A c : In(line, c) => thread[c] = "waiting" /\ running # c
    /\ running \in Command => thread[running] = "waiting"
    /\ \A c \in Command : thread[c] = "waiting" => running = c \/ In(line, c)
    /\ running \in {"stopping", "stopped"} => \A c : ~In(line, c)

\* The with block is entered once and left once: while it has not been left
\* there is no exit command, and before it is entered no dispatcher.
ExitInv ==
    /\ entered => thread["exitflush"] = "idle"
    /\ ~entered /\ thread["exitflush"] = "idle" => running = "stopped"
    /\ thread["shutdown"] # "idle" => thread["exitflush"] # "idle"
    /\ running = "stopping" => thread["exitflush"] # "idle"
    /\ portal = "closing" => thread["exitflush"] # "idle"

\* Records are dropped only by the end of the dispatcher, and a resolved
\* record has its outcome.
RecordInv ==
    \A r \in Record :
        /\ rec[r] = "dropped" => running = "stopped" /\ thread["exitflush"] # "idle"
        /\ rec[r] = "resolved" => outcome[r] # "unset"

SyncInv == TypeOK /\ LineInv /\ ExitInv /\ RecordInv

\* Which commands there are.
LEMMA Commands ==
    /\ {"userflush", "exitflush", "shutdown"} \subseteq Command /\ Record \subseteq Command
    /\ Flushes \subseteq Command
    /\ \A r \in Record : r \notin {"userflush", "exitflush", "shutdown", "receiving",
                                   "stopping", "stopped"}
    /\ \A b \in Between : b \notin Command
    /\ \A c \in Command : c # "shutdown" => c \in Record \cup Flushes
BY SyncAssumption DEF Command, Flushes, Between

\* A step of one thread that neither joins the line nor was waiting.
LEMMA ThreadSteps ==
    ASSUME SyncInv, NEW c \in Command, NEW v, v # "waiting", v # "idle",
           thread[c] # "waiting", thread' = [thread EXCEPT ![c] = v],
           UNCHANGED <<line, running>>
    PROVE  LineInv'
<1>1. \A d : In(line, d) => d \in Command /\ d # c
  BY DEF SyncInv, TypeOK, LineInv, In
<1>2. \A d : In(line, d)' <=> In(line, d)
  BY DEF In
<1>3. QED
  BY <1>1, <1>2 DEF SyncInv, TypeOK, LineInv

\* The dispatcher answers the command it executes.
LEMMA Answers ==
    ASSUME SyncInv, running \in Command, NEW v, v # "waiting", v # "idle",
           thread' = [thread EXCEPT ![running] = v], running' = "receiving",
           UNCHANGED <<line, entered, portal>>
    PROVE  LineInv' /\ ExitInv'
<1>1. /\ "exitflush" \in Command /\ "shutdown" \in Command
      /\ "receiving" \notin Command /\ "stopped" \notin Command
  BY Commands DEF Between
<1>2. \A c : In(line, c) => c \in Command
  BY DEF SyncInv, TypeOK, In
<1>3. LineInv'
  BY <1>1, <1>2 DEF SyncInv, TypeOK, LineInv
<1>4. thread \in [Command -> {"idle", "entered", "waiting", "answered", "timedout",
                              "returned", "raised", "awaiting", "over"}]
      /\ thread[running] = "waiting"
  BY DEF SyncInv, TypeOK, LineInv
<1>5. /\ thread'["exitflush"] = "idle" <=> thread["exitflush"] = "idle"
      /\ thread'["shutdown"] = "idle" <=> thread["shutdown"] = "idle"
  BY <1>1, <1>4
<1>6. QED
  BY <1>1, <1>3, <1>5 DEF SyncInv, ExitInv
-----------------------------------------------------------------------------
(* The steps                                                               *)

\* The threads, from their call to the line and from the answer on.
LEMMA CallStep ==
    ASSUME SyncInv, NEW c \in Command, Call(c) \/ Thread(c)
    PROVE  SyncInv'
<1>0. "exitflush" \in Command /\ "shutdown" \in Command /\ Record \subseteq Command
  BY Commands
<1>1. ASSUME NEW v \in {"entered", "returned", "raised"},
             thread[c] \in {"idle", "entered", "answered"},
             thread[c] = "idle" => c \notin {"exitflush", "shutdown"},
             thread' = [thread EXCEPT ![c] = v],
             UNCHANGED <<line, running, polling, entered, portal, rec, outcome>>
      PROVE  SyncInv'
  <2>1. TypeOK'
    BY <1>1 DEF SyncInv, TypeOK
  <2>2. LineInv'
    BY <1>1, ThreadSteps
  <2>3. /\ thread'["exitflush"] = "idle" <=> thread["exitflush"] = "idle"
        /\ thread'["shutdown"] = "idle" <=> thread["shutdown"] = "idle"
    BY <1>0, <1>1 DEF SyncInv, TypeOK
  <2>4. ExitInv' /\ RecordInv'
    BY <1>1, <2>3 DEF SyncInv, ExitInv, RecordInv
  <2>5. QED
    BY <2>1, <2>2, <2>4 DEF SyncInv
<1>2. CASE Call(c)
  <2>1. c \notin {"exitflush", "shutdown"}
    BY <1>2, Commands DEF Call
  <2>2. QED
    BY <1>1, <1>2, <2>1 DEF Call
<1>3. CASE Resume(c)
  BY <1>1, <1>3 DEF Resume
<1>4. CASE Dispatch(c) /\ ~(portal = "running" /\ running \notin {"stopping", "stopped"})
  BY <1>1, <1>4 DEF Dispatch
<1>5. CASE Dispatch(c) /\ portal = "running" /\ running \notin {"stopping", "stopped"}
  <2>1. /\ thread[c] = "entered" /\ thread' = [thread EXCEPT ![c] = "waiting"]
        /\ line' = Append(line, c)
        /\ UNCHANGED <<running, polling, entered, portal, rec, outcome>>
    BY <1>5 DEF Dispatch
  <2>2. TypeOK'
    BY <2>1 DEF SyncInv, TypeOK
  <2>3. ~In(line, c) /\ running # c
    BY <2>1 DEF SyncInv, LineInv
  <2>4. /\ \A d : In(line, d)' <=> In(line, d) \/ d = c
        /\ NoRepeat(line)'
    <3>1. line \in Seq(Command) /\ NoRepeat(line)
      BY DEF SyncInv, TypeOK, LineInv
    <3>2. /\ \A d : In(line', d) <=> In(line, d) \/ d = c
          /\ NoRepeat(line')
      BY <2>1, <2>3, <3>1, AppendIn
    <3>3. QED
      BY <3>2 DEF In, NoRepeat
  <2>5. LineInv'
    <3>1. \A d : In(line, d) => d \in Command
      BY DEF SyncInv, TypeOK, In
    <3>2. QED
      BY <1>5, <2>1, <2>3, <2>4, <3>1 DEF SyncInv, TypeOK, LineInv
  <2>6. /\ thread'["exitflush"] = "idle" <=> thread["exitflush"] = "idle"
        /\ thread'["shutdown"] = "idle" <=> thread["shutdown"] = "idle"
    BY <1>0, <2>1 DEF SyncInv, TypeOK
  <2>7. ExitInv' /\ RecordInv'
    BY <2>1, <2>6 DEF SyncInv, ExitInv, RecordInv
  <2>8. QED
    BY <2>2, <2>5, <2>7 DEF SyncInv
<1>6. QED
  BY <1>2, <1>3, <1>4, <1>5 DEF Thread

\* Outcomes: cancelled, awaited, resolved.
LEMMA OutcomeStep ==
    ASSUME SyncInv, NEW r \in Record,
           CancelOutcome(r) \/ WaitOutcome(r) \/ WaitEnds(r) \/ WaitTimeout(r) \/ Resolve(r)
    PROVE  SyncInv'
<1>0. /\ "exitflush" \in Command /\ "shutdown" \in Command /\ r \in Command
      /\ r # "exitflush" /\ r # "shutdown"
  BY Commands
<1>1. CASE WaitOutcome(r) \/ WaitEnds(r) \/ WaitTimeout(r)
  <2>1. /\ thread[r] \in {"returned", "awaiting"}
        /\ \E v \in {"awaiting", "over"} : thread' = [thread EXCEPT ![r] = v]
        /\ UNCHANGED <<line, running, polling, entered, portal, rec, outcome>>
    BY <1>1 DEF WaitOutcome, WaitEnds, WaitTimeout
  <2>2. TypeOK'
    BY <1>0, <2>1 DEF SyncInv, TypeOK
  <2>3. LineInv'
    BY <1>0, <2>1, ThreadSteps
  <2>4. thread'["exitflush"] = thread["exitflush"] /\ thread'["shutdown"] = thread["shutdown"]
    BY <1>0, <2>1 DEF SyncInv, TypeOK
  <2>5. ExitInv' /\ RecordInv'
    BY <2>1, <2>4 DEF SyncInv, ExitInv, RecordInv
  <2>6. QED
    BY <2>2, <2>3, <2>5 DEF SyncInv
<1>2. CASE CancelOutcome(r) \/ Resolve(r)
  <2>1. UNCHANGED <<thread, line, running, polling, entered, portal>>
    BY <1>2 DEF CancelOutcome, Resolve, facade
  <2>2. TypeOK'
    BY <1>2, <2>1 DEF CancelOutcome, Resolve, SyncInv, TypeOK
  <2>3. LineInv' /\ ExitInv'
    BY <2>1 DEF SyncInv, LineInv, ExitInv, In, NoRepeat
  <2>4. RecordInv'
    BY <1>2, <2>1 DEF CancelOutcome, Resolve, SyncInv, TypeOK, RecordInv
  <2>5. QED
    BY <2>2, <2>3, <2>4 DEF SyncInv
<1>3. QED
  BY <1>1, <1>2

\* Entering and leaving the with block.
LEMMA BlockStep ==
    ASSUME SyncInv, Enter \/ Exit \/ ExitShutdown \/ ExitFinally \/ ExitPortal
    PROVE  SyncInv'
<1>0. "exitflush" \in Command /\ "shutdown" \in Command
  BY Commands
<1>1. CASE Enter
  <2>1. /\ thread["exitflush"] = "idle" /\ ~entered /\ entered' = TRUE /\ portal' = "running"
        /\ running' = "receiving" /\ UNCHANGED <<thread, line, polling, rec, outcome>>
    BY <1>1 DEF Enter
  <2>2. running = "stopped"
    BY <2>1 DEF SyncInv, ExitInv
  <2>3. "receiving" \notin Command
    BY Commands DEF Between
  <2>4. TypeOK'
    BY <2>1 DEF SyncInv, TypeOK, Between
  <2>5. LineInv'
    <3>1. \A d : ~In(line, d)
      BY <2>2 DEF SyncInv, LineInv
    <3>2. \A d \in Command : thread[d] # "waiting"
      <4>1. "stopped" \notin Command
        BY Commands DEF Between
      <4>2. QED
        BY <2>2, <3>1, <4>1 DEF SyncInv, LineInv
    <3>3. QED
      BY <2>1, <2>3, <3>1, <3>2 DEF SyncInv, LineInv, In, NoRepeat
  <2>6. ExitInv' /\ RecordInv'
    BY <2>1 DEF SyncInv, ExitInv, RecordInv
  <2>7. QED
    BY <2>4, <2>5, <2>6 DEF SyncInv
<1>2. CASE Exit
  <2>1. /\ entered /\ entered' = FALSE /\ thread' = [thread EXCEPT !["exitflush"] = "entered"]
        /\ UNCHANGED <<line, running, polling, portal, rec, outcome>>
    BY <1>2 DEF Exit
  <2>2. thread["exitflush"] = "idle"
    BY <2>1 DEF SyncInv, ExitInv
  <2>3. TypeOK'
    BY <2>1 DEF SyncInv, TypeOK
  <2>4. LineInv'
    BY <1>0, <2>1, <2>2, ThreadSteps
  <2>5. thread'["exitflush"] = "entered"
    BY <1>0, <2>1 DEF SyncInv, TypeOK
  <2>6. ExitInv' /\ RecordInv'
    BY <2>1, <2>5 DEF SyncInv, ExitInv, RecordInv
  <2>7. QED
    BY <2>3, <2>4, <2>6 DEF SyncInv
<1>3. CASE ExitShutdown \/ ExitPortal
  <2>1. /\ \/ portal = "closing" /\ running = "stopped" /\ portal' = "none"
           \/ /\ thread["shutdown"] = "idle" /\ thread["exitflush"] \in {"answered", "timedout"}
              /\ portal' = portal
        /\ \E v \in {"entered", "over"} : thread' = [thread EXCEPT !["shutdown"] = v]
        /\ UNCHANGED <<line, running, polling, entered, rec, outcome>>
    BY <1>3 DEF ExitShutdown, ExitPortal
  <2>2. TypeOK'
    BY <2>1 DEF SyncInv, TypeOK
  <2>3. thread["shutdown"] # "waiting"
    <3>1. "stopped" \notin Command
      BY Commands DEF Between
    <3>2. QED
      BY <1>0, <2>1, <3>1 DEF SyncInv, LineInv
  <2>4. LineInv'
    BY <1>0, <2>1, <2>3, ThreadSteps
  <2>5. thread'["exitflush"] = thread["exitflush"]
    BY <1>0, <2>1 DEF SyncInv, TypeOK
  <2>6. thread["exitflush"] # "idle"
    BY <2>1 DEF SyncInv, ExitInv
  <2>7. ExitInv' /\ RecordInv'
    BY <2>1, <2>5, <2>6 DEF SyncInv, ExitInv, RecordInv
  <2>8. QED
    BY <2>2, <2>4, <2>7 DEF SyncInv
<1>4. CASE ExitFinally
  <2>1. /\ thread["shutdown"] = "answered" \/ thread["exitflush"] = "raised"
        /\ portal' = "closing"
        /\ UNCHANGED <<thread, line, running, polling, entered, rec, outcome>>
    BY <1>4 DEF ExitFinally
  <2>2. TypeOK'
    BY <2>1 DEF SyncInv, TypeOK
  <2>3. LineInv'
    BY <2>1 DEF SyncInv, LineInv, In, NoRepeat
  <2>4. ExitInv' /\ RecordInv'
    BY <2>1 DEF SyncInv, ExitInv, RecordInv
  <2>5. QED
    BY <2>2, <2>3, <2>4 DEF SyncInv
<1>5. QED
  BY <1>1, <1>2, <1>3, <1>4

\* receive(): the head of the line is executed, or closes the stream.
LEMMA ReceiveStep ==
    ASSUME SyncInv, Receive
    PROVE  SyncInv'
<1> DEFINE c == Head(line)
           q == Tail(line)
<1>0. /\ "exitflush" \in Command /\ "shutdown" \in Command
      /\ "receiving" \notin Command /\ "stopping" \notin Command
  BY Commands DEF Between
<1>1. /\ running = "receiving" /\ line # <<>> /\ line \in Seq(Command)
      /\ UNCHANGED <<polling, entered, portal, rec, outcome>>
  BY DEF Receive, SyncInv, TypeOK
<1>2. /\ c \in Command /\ q \in Seq(Command)
      /\ \A d : In(line, d) <=> d = c \/ In(q, d)
      /\ NoRepeat(q) /\ ~In(q, c)
  <2>1. NoRepeat(line)
    BY DEF SyncInv, LineInv
  <2>2. QED
    BY <1>1, <2>1, TailIn
<1>3. /\ thread[c] = "waiting"
      /\ \A d \in Command : thread[d] = "waiting" => d = c \/ In(q, d)
      /\ \A d : In(q, d) => thread[d] = "waiting" /\ d \in Command
  <2>1. \A d : In(line, d) => d \in Command
    BY DEF SyncInv, TypeOK, In
  <2> HIDE DEF c, q
  <2>2. QED
    BY <1>0, <1>1, <1>2, <2>1 DEF SyncInv, LineInv
<1>4. CASE c # "shutdown"
  <2>1. running' = c /\ line' = q /\ thread' = thread
    BY <1>4 DEF Receive
  <2>2. c \in Record \cup Flushes
    BY <1>2, <1>4, Commands
  <2>3. TypeOK'
    BY <1>1, <1>2, <2>1, <2>2 DEF SyncInv, TypeOK
  <2>4. NoRepeat(line)' /\ \A d : In(line, d)' <=> In(q, d)
    BY <1>2, <2>1 DEF NoRepeat, In
  <2>5. c \notin {"stopping", "stopped"}
    BY <2>2, Commands DEF Flushes
  <2> HIDE DEF c, q
  <2>6. LineInv'
    BY <1>2, <1>3, <2>1, <2>4, <2>5 DEF LineInv
  <2>7. ExitInv' /\ RecordInv'
    BY <1>1, <2>1, <2>5 DEF SyncInv, ExitInv, RecordInv
  <2>8. QED
    BY <2>3, <2>6, <2>7 DEF SyncInv
<1>5. CASE c = "shutdown"
  <2>1. /\ running' = "stopping" /\ line' = <<>>
        /\ thread' = [d \in Command |-> IF d = "shutdown" THEN "answered"
                                        ELSE IF In(q, d) THEN "raised" ELSE thread[d]]
    BY <1>5 DEF Receive, CloseStream
  <2> HIDE DEF c, q
  <2>2. TypeOK'
    BY <1>1, <2>1 DEF SyncInv, TypeOK, Between
  <2>3. NoRepeat(line)' /\ \A d : ~In(line, d)'
    BY <2>1 DEF NoRepeat, In
  <2>4. \A d \in Command : thread'[d] # "waiting"
    BY <1>3, <1>5, <2>1
  <2>5. LineInv'
    BY <1>0, <2>1, <2>3, <2>4 DEF LineInv
  <2>6. thread["exitflush"] # "idle"
    BY <1>3, <1>5 DEF SyncInv, ExitInv
  <2>7. thread'["exitflush"] # "idle"
    BY <1>0, <2>1, <2>6
  <2>8. ExitInv' /\ RecordInv'
    BY <1>1, <2>1, <2>6, <2>7 DEF SyncInv, ExitInv, RecordInv
  <2>9. QED
    BY <2>2, <2>5, <2>8 DEF SyncInv
<1>6. QED
  BY <1>4, <1>5

\* The commands the dispatcher executes, and its end.
LEMMA DispatcherStep ==
    ASSUME SyncInv, \/ PutDone \/ PutRaises \/ FlushReturns \/ FlushDone \/ FlushTimeout
                    \/ FlushRaises \/ DispatcherStops
    PROVE  SyncInv'
<1>0. /\ "exitflush" \in Command /\ "shutdown" \in Command
      /\ Record \subseteq Command /\ Flushes \subseteq Command
      /\ "stopping" \notin Command /\ "stopped" \notin Command
  BY Commands DEF Between
<1>1. CASE PutDone \/ PutRaises
  <2>1. /\ running \in Record /\ rec' \in {rec, [rec EXCEPT ![running] = "inside"]}
        /\ \E v \in {"answered", "raised"} : thread' = [thread EXCEPT ![running] = v]
        /\ running' = "receiving"
        /\ UNCHANGED <<line, polling, entered, portal, outcome>>
    BY <1>1 DEF PutDone, PutRaises
  <2>2. TypeOK'
    BY <1>0, <2>1 DEF SyncInv, TypeOK, Between
  <2>3. LineInv' /\ ExitInv'
    BY <1>0, <2>1, Answers
  <2>4. RecordInv'
    BY <1>0, <2>1 DEF SyncInv, TypeOK, RecordInv
  <2>5. QED
    BY <2>2, <2>3, <2>4 DEF SyncInv
<1>2. CASE FlushReturns
  <2>1. polling' = TRUE /\ UNCHANGED <<thread, line, running, entered, portal, rec, outcome>>
    BY <1>2 DEF FlushReturns
  <2>2. TypeOK'
    BY <2>1 DEF SyncInv, TypeOK
  <2>3. LineInv' /\ ExitInv' /\ RecordInv'
    BY <2>1 DEF SyncInv, LineInv, ExitInv, RecordInv, In, NoRepeat
  <2>4. QED
    BY <2>2, <2>3 DEF SyncInv
<1>3. CASE FlushDone \/ FlushTimeout \/ FlushRaises
  <2>1. /\ running \in Flushes /\ running' = "receiving" /\ polling' \in {polling, FALSE}
        /\ \E v \in {"answered", "timedout", "raised"} : thread' = [thread EXCEPT ![running] = v]
        /\ UNCHANGED <<line, entered, portal, outcome>>
    BY <1>3 DEF FlushDone, FlushTimeout, FlushRaises
  <2>2. \/ rec' = rec
        \/ \E H : rec' = [r \in Record |-> IF r \in H THEN "lost" ELSE rec[r]]
    BY <1>3 DEF FlushDone, FlushTimeout, FlushRaises, LoseInHand
  <2>3. TypeOK'
    BY <1>0, <2>1, <2>2 DEF SyncInv, TypeOK, Between
  <2>4. LineInv' /\ ExitInv'
    BY <1>0, <2>1, Answers
  <2>5. \A r \in Record : rec[r] # "dropped"
    BY <1>0, <2>1 DEF SyncInv, RecordInv
  <2>6. RecordInv'
    <3>1. \A r \in Record : rec'[r] = rec[r] \/ rec'[r] = "lost"
      BY <2>2
    <3>2. QED
      BY <2>1, <2>5, <3>1 DEF SyncInv, RecordInv
  <2>7. QED
    BY <2>3, <2>4, <2>6 DEF SyncInv
<1>4. CASE DispatcherStops
  <2>1. /\ running = "stopping" /\ running' = "stopped"
        /\ rec' = [r \in Record |-> IF rec[r] = "inside" THEN "dropped" ELSE rec[r]]
        /\ UNCHANGED <<thread, line, polling, entered, portal, outcome>>
    BY <1>4 DEF DispatcherStops
  <2>2. TypeOK'
    BY <2>1 DEF SyncInv, TypeOK, Between
  <2>3. LineInv'
    BY <1>0, <2>1 DEF SyncInv, LineInv, In, NoRepeat
  <2>4. thread["exitflush"] # "idle"
    BY <2>1 DEF SyncInv, ExitInv
  <2>5. ExitInv' /\ RecordInv'
    BY <2>1, <2>4 DEF SyncInv, ExitInv, RecordInv
  <2>6. QED
    BY <2>2, <2>3, <2>5 DEF SyncInv
<1>5. QED
  BY <1>1, <1>2, <1>3, <1>4

\* The invariant holds throughout.
LEMMA SyncInductive == Spec => []SyncInv
<1>1. Init => SyncInv
  <2> SUFFICES ASSUME Init PROVE SyncInv
    OBVIOUS
  <2>0. "stopped" \notin Command /\ "exitflush" \in Command /\ "shutdown" \in Command
    BY Commands DEF Between
  <2>1. TypeOK
    <3>1. /\ thread \in [Command -> {"idle", "entered", "waiting", "answered", "timedout",
                                     "returned", "raised", "awaiting", "over"}]
          /\ rec \in [Record -> {"new", "inside", "lost", "dropped", "resolved"}]
          /\ outcome \in [Record -> {"unset", "result", "cancelled"}]
      BY DEF Init
    <3>2. /\ running \in Record \cup Flushes \cup Between
          /\ polling \in BOOLEAN /\ entered \in BOOLEAN /\ portal \in {"none", "running", "closing"}
      BY DEF Init, Between
    <3>3. line \in Seq(Command)
      BY DEF Init
    <3>4. QED
      BY <3>1, <3>2, <3>3 DEF TypeOK
  <2>2. LineInv
    BY <2>0, EmptyIn DEF Init, LineInv, NoRepeat
  <2>3. ExitInv /\ RecordInv
    BY <2>0 DEF Init, ExitInv, RecordInv
  <2>4. QED
    BY <2>1, <2>2, <2>3 DEF SyncInv
<1>2. SyncInv /\ [Next]_vars => SyncInv'
  <2> SUFFICES ASSUME SyncInv, [Next]_vars PROVE SyncInv'
    OBVIOUS
  <2>1. CASE UNCHANGED vars
    BY <2>1 DEF vars, facade, SyncInv, TypeOK, LineInv, ExitInv, RecordInv, In, NoRepeat
  <2>2. CASE Next
    BY <2>2, CallStep, OutcomeStep, BlockStep, ReceiveStep, DispatcherStep
       DEF Next, Dispatcher
  <2>3. QED
    BY <2>1, <2>2
<1>3. QED
  BY <1>1, <1>2, PTL DEF Spec

-----------------------------------------------------------------------------
(* The theorems                                                            *)

\* The state of the facade keeps its types: the dispatcher executes only put
\* and flush commands.
THEOREM SyncTypes == Spec => []TypeOK
<1>1. SyncInv => TypeOK
  BY DEF SyncInv
<1>2. QED
  BY <1>1, SyncInductive, PTL

\* However _dispatch, the dispatcher and __exit__ interleave, a thread that
\* waits for its command is in line or being served, and one that is in line
\* or being served waits: closing the stream wakes every sender.
THEOREM EveryCallKept == Spec => []NobodyForgotten
<1>1. SyncInv => NobodyForgotten
  <2> SUFFICES ASSUME SyncInv, NEW c \in Command
      PROVE  thread[c] = "waiting" <=> running = c \/ (running # "stopped" /\ In(line, c))
    BY DEF NobodyForgotten
  <2>1. QED
    BY DEF SyncInv, LineInv
<1>2. QED
  BY <1>1, SyncInductive, PTL

\* A flush command is answered only when every record put before it has its
\* outcome: none is outstanding, none lost to an earlier timeout, none dropped.
THEOREM FlushLeavesNone == Spec => FlushDrains
<1>1. SyncInv /\ [Next]_vars =>
          [\A c \in Flushes : thread'[c] = "answered" /\ thread[c] # "answered" =>
              \A r \in Record : rec[r] # "new" => outcome[r] # "unset"]_vars
  <2> SUFFICES ASSUME SyncInv, Next, NEW c \in Flushes, thread'[c] = "answered",
                      thread[c] # "answered", NEW r \in Record, rec[r] # "new"
               PROVE  outcome[r] # "unset"
    BY DEF vars, facade
  <2> USE DEF SyncInv, TypeOK
  <2>0. /\ c \in Command /\ c \notin Record /\ c # "shutdown"
        /\ "exitflush" \in Command /\ "shutdown" \in Command /\ Record \subseteq Command
        /\ "stopped" \notin Command
    BY Commands DEF Flushes, Between
  <2>1. FlushDone
    <3>1. ASSUME NEW d \in Command, Call(d) \/ Thread(d) PROVE FALSE
      BY <2>0, <3>1 DEF Call, Thread, Dispatch, Resume
    <3>2. ASSUME NEW p \in Record,
                 \/ CancelOutcome(p) \/ WaitOutcome(p) \/ WaitEnds(p)
                 \/ WaitTimeout(p) \/ Resolve(p)
          PROVE  FALSE
      BY <2>0, <3>2 DEF CancelOutcome, WaitOutcome, WaitEnds, WaitTimeout, Resolve, facade
    <3>3. CASE Enter \/ Exit \/ ExitShutdown \/ ExitFinally \/ ExitPortal
      BY <2>0, <3>3 DEF Enter, Exit, ExitShutdown, ExitFinally, ExitPortal
    <3>4. CASE Receive
      BY <2>0, <3>4 DEF Receive, CloseStream
    <3>5. CASE \/ PutDone \/ PutRaises \/ FlushReturns \/ DispatcherStops
               \/ FlushTimeout \/ FlushRaises
      BY <2>0, <3>5 DEF PutDone, PutRaises, FlushReturns, DispatcherStops, FlushTimeout,
                        FlushRaises
    <3>6. QED
      BY <3>1, <3>2, <3>3, <3>4, <3>5 DEF Next, Dispatcher
  <2>2. {p \in Record : rec[p] \in {"inside", "lost"}} = {}
    <3> DEFINE S == {p \in Record : rec[p] \in {"inside", "lost"}}
    <3>1. S \subseteq Record
      OBVIOUS
    <3> HIDE DEF S
    <3>2. IsFiniteSet(S)
      BY <3>1, SyncAssumption, FS_Subset
    <3>3. Cardinality(S) = 0
      BY <2>1 DEF FlushDone, Outstanding, S
    <3>4. QED
      BY <3>2, <3>3, FS_EmptySet DEF S
  <2>3. running \in Flushes
    BY <2>1 DEF FlushDone
  <2>4. rec[r] # "dropped"
    BY <2>0, <2>3, Commands DEF RecordInv
  <2>5. rec[r] = "resolved"
    BY <2>2, <2>4
  <2>6. QED
    BY <2>5 DEF RecordInv
<1>2. QED
  BY <1>1, SyncInductive, PTL DEF Spec, FlushDrains

\* cancel and the terminal callback race for the outcome; whoever comes second
\* changes nothing.
THEOREM OutcomeKept == Spec => OutcomeSetOnce
<1>1. SyncInv /\ [Next]_vars =>
          [\A r \in Record : outcome[r] # "unset" => outcome'[r] = outcome[r]]_vars
  <2> SUFFICES ASSUME SyncInv, Next, NEW r \in Record, outcome[r] # "unset"
               PROVE  outcome'[r] = outcome[r]
    OBVIOUS
  <2> USE DEF SyncInv, TypeOK
  <2>1. ASSUME NEW c \in Command, Call(c) \/ Thread(c) PROVE outcome'[r] = outcome[r]
    BY <2>1 DEF Call, Thread, Dispatch, Resume
  <2>2. ASSUME NEW p \in Record,
               \/ CancelOutcome(p) \/ WaitOutcome(p) \/ WaitEnds(p)
               \/ WaitTimeout(p) \/ Resolve(p)
        PROVE  outcome'[r] = outcome[r]
    BY <2>2 DEF CancelOutcome, WaitOutcome, WaitEnds, WaitTimeout, Resolve
  <2>3. CASE \/ Enter \/ Exit \/ ExitShutdown \/ ExitFinally \/ ExitPortal
             \/ Dispatcher \/ PutRaises \/ FlushTimeout \/ FlushRaises
    BY <2>3 DEF Enter, Exit, ExitShutdown, ExitFinally, ExitPortal, Dispatcher, Receive,
                PutDone, PutRaises, FlushReturns, FlushDone, DispatcherStops, FlushTimeout,
                FlushRaises
  <2>4. QED
    BY <2>1, <2>2, <2>3 DEF Next
<1>2. QED
  BY <1>1, SyncInductive, PTL DEF Spec, OutcomeSetOnce
=============================================================================
