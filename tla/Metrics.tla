------------------------------ MODULE Metrics ------------------------------
(***************************************************************************)
(* The metrics manager (metrics.py): a registry of rolling windows, one    *)
(* per key, of per-second buckets; the upload loop that exports a snapshot *)
(* every interval; and the exit, with its final export.                    *)
(*                                                                         *)
(* An export awaits the sink, so observations, the clock and the exit go   *)
(* on meanwhile, and the exit's export may overlap the loop's.  With level *)
(* NONE every operation returns at once and there is nothing to model.     *)
(*                                                                         *)
(* Time is in ticks, several to a second, because the windows are made of  *)
(* whole seconds and the upload interval is not aligned with them.         *)
(***************************************************************************)
EXTENDS Integers, Sequences, FiniteSets, SequencesExt, FiniteSetsExt

CONSTANTS
    Obs,             \* the observations, each put at most once
    Value,           \* Value[o]: its value
    Dimension,       \* Dimension[o]: its shard_id or error_code
    Levels,          \* the metrics levels considered
    TicksPerSecond,
    Window,          \* _WINDOW_SECONDS
    Interval,        \* upload_interval_ms, in ticks
    ExportTime,      \* the longest an export takes, in ticks
    MaxTime          \* bound on the clock

ASSUME MetricsAssumption ==
    /\ Value \in [Obs -> Int]
    /\ Levels \subseteq {"SUMMARY", "DETAILED"}
    /\ {TicksPerSecond, Window, Interval} \subseteq Nat \ {0}
    /\ {ExportTime, MaxTime} \subseteq Nat

VARIABLES
    now,       \* the clock
    level,     \* self._level
    registry,  \* registry[k]: the buckets of key k, oldest first
    upload,    \* the upload loop's task
    wake,      \* when its sleep ends, or its export is over at the latest
    phase,     \* how far __aexit__ is
    putAt,     \* history: putAt[o]: when o was put, or NotYet
    carried,   \* history: carried[x]: the observations in the export of x
    exported,  \* history: the observations of completed exports
    due        \* history: the observations put before the exit

window == <<level, registry, putAt>>
vars   == <<now, window, upload, wake, phase, carried, exported, due>>

NotYet == -1
Dimensions == {Dimension[o] : o \in Obs}
Key == Dimensions \cup {"all"}
Bucket == [sec : Nat, count : Nat, sum : Int, min : Int, max : Int]

Second == now \div TicksPerSecond

Init ==
    /\ now = 0
    /\ level \in Levels
    /\ registry = [k \in Key |-> <<>>]
    /\ upload = "sleeping"
    /\ wake = Interval
    /\ phase = "open"
    /\ putAt = [o \in Obs |-> NotYet]
    /\ carried = [x \in {"loop", "exit"} |-> {}]
    /\ exported = {}
    /\ due = {}

-----------------------------------------------------------------------------
(* _Accumulator                                                            *)

\* Mutant: the window is one second short.
EvictEarly(b) ==
    LET fresh == {i \in DOMAIN b : b[i].sec >= Second - Window + 2}
    IN  IF fresh = {} THEN <<>> ELSE SubSeq(b, Min(fresh), Len(b))

\* _evict: buckets are popped from the left up to the first fresh one.
Evict(b) ==
    LET fresh == {i \in DOMAIN b : b[i].sec >= Second - Window + 1}
    IN  IF fresh = {} THEN <<>> ELSE SubSeq(b, Min(fresh), Len(b))

Lesser(a, b) == IF b < a THEN b ELSE a
Greater(a, b) == IF b > a THEN b ELSE a

\* Mutant: the maximum of a bucket is that of its first observation.
AccumulateFirst(b, v) ==
    LET e == Evict(b)
    IN  IF e # <<>> /\ Last(e).sec = Second
        THEN [e EXCEPT ![Len(e)].count = @ + 1, ![Len(e)].sum = @ + v,
                       ![Len(e)].min = Lesser(@, v)]
        ELSE Append(e, [sec |-> Second, count |-> 1, sum |-> v, min |-> v, max |-> v])

\* _Accumulator.put: evict, then count v in the bucket of this second.
Accumulate(b, v) ==
    LET e == Evict(b)
    IN  IF e # <<>> /\ Last(e).sec = Second
        THEN [e EXCEPT ![Len(e)].count = @ + 1, ![Len(e)].sum = @ + v,
                       ![Len(e)].min = Lesser(@, v), ![Len(e)].max = Greater(@, v)]
        ELSE Append(e, [sec |-> Second, count |-> 1, sum |-> v, min |-> v, max |-> v])

\* stats() of a non-empty window.
Stats(b) ==
    [count |-> SumFunction([i \in DOMAIN b |-> b[i].count]),
     sum   |-> SumFunction([i \in DOMAIN b |-> b[i].sum]),
     min   |-> Min({b[i].min : i \in DOMAIN b}),
     max   |-> Max({b[i].max : i \in DOMAIN b})]

-----------------------------------------------------------------------------
(* MetricsManager                                                          *)

\* The key of an observation: SUMMARY drops the fine dimensions.
KeyOf(o) == IF level = "SUMMARY" THEN "all" ELSE Dimension[o]

\* put().  Nothing stops a put during or after the exit.
Put(o) ==
    /\ putAt[o] = NotYet
    /\ putAt' = [putAt EXCEPT ![o] = now]
    /\ registry' = [registry EXCEPT ![KeyOf(o)] = Accumulate(@, Value[o])]
    /\ UNCHANGED <<now, level, upload, wake, phase, carried, exported, due>>

\* What snapshots() takes in: stats() evicts in every window.
Snapshots == registry' = [k \in Key |-> Evict(registry[k])]
NoSnapshot == \A k \in Key : Evict(registry[k]) = <<>>

SecondOf(o) == putAt[o] \div TicksPerSecond
Live(o) == putAt[o] # NotYet /\ SecondOf(o) > Second - Window

\* The upload loop wakes up and flushes: without snapshots nothing is exported.
LoopFlush ==
    /\ upload = "sleeping"
    /\ wake <= now
    /\ Snapshots
    /\ IF NoSnapshot
       THEN wake' = now + Interval /\ UNCHANGED <<upload, carried>>
       ELSE /\ upload' = "exporting"
            /\ wake' = now + ExportTime
            /\ carried' = [carried EXCEPT !["loop"] = {o \in Obs : Live(o)}]
    /\ UNCHANGED <<now, level, putAt, phase, exported, due>>

LoopExported ==
    /\ upload = "exporting"
    /\ upload' = "sleeping"
    /\ wake' = now + Interval
    /\ exported' = exported \cup carried["loop"]
    /\ carried' = [carried EXCEPT !["loop"] = {}]
    /\ UNCHANGED <<now, window, phase, due>>

\* The sink raises: out of the loop, which cancels the task that entered the
\* manager.
LoopFails ==
    /\ upload = "exporting"
    /\ upload' = "failed"
    /\ carried' = [carried EXCEPT !["loop"] = {}]
    /\ wake' = 0
    /\ UNCHANGED <<now, window, phase, exported, due>>

\* Mutant: the exit does not flush.
ExitBeginNoFlush ==
    /\ phase = "open"
    /\ due' = {o \in Obs : putAt[o] # NotYet}
    /\ phase' = "unwinding"
    /\ UNCHANGED <<now, window, upload, wake, carried, exported>>

\* __aexit__ flushes first.
ExitBegin ==
    /\ phase = "open"
    /\ due' = {o \in Obs : putAt[o] # NotYet}
    /\ Snapshots
    /\ IF NoSnapshot
       THEN phase' = "unwinding" /\ UNCHANGED carried
       ELSE /\ phase' = "flushing"
            /\ carried' = [carried EXCEPT !["exit"] = {o \in Obs : Live(o)}]
    /\ UNCHANGED <<now, level, putAt, upload, wake, exported>>

ExitExported ==
    /\ phase = "flushing"
    /\ upload # "failed"
    /\ phase' = "unwinding"
    /\ exported' = exported \cup carried["exit"]
    /\ carried' = [carried EXCEPT !["exit"] = {}]
    /\ UNCHANGED <<now, window, upload, wake, due>>

\* The final export raises, as it does when the loop has failed and the
\* exiting task is cancelled: the exit stops here, loop and sink as they are.
ExitFails ==
    /\ phase = "flushing"
    /\ phase' = "failed"
    /\ carried' = [carried EXCEPT !["exit"] = {}]
    /\ UNCHANGED <<now, window, upload, wake, exported, due>>

\* The loop is cancelled, in its sleep or in an export, its task group ends,
\* and the sink is left.
ExitUnwind ==
    /\ phase = "unwinding"
    /\ phase' = "exited"
    /\ upload' = "cancelled"
    /\ wake' = 0
    /\ carried' = [carried EXCEPT !["loop"] = {}]
    /\ UNCHANGED <<now, window, exported, due>>

\* Time passes when the loop is not ready to run.
Tick ==
    /\ now < MaxTime
    /\ upload \in {"sleeping", "exporting"} => wake > now
    /\ now' = now + 1
    /\ UNCHANGED <<window, upload, wake, phase, carried, exported, due>>

Loop == LoopFlush \/ LoopExported \/ LoopFails
Exit == ExitExported \/ ExitFails \/ ExitUnwind

Next ==
    \/ \E o \in Obs : Put(o)
    \/ Loop \/ ExitBegin \/ Exit
    \/ Tick

Spec == Init /\ [][Next]_vars

-----------------------------------------------------------------------------
(* Properties                                                              *)

\* Types of the state; an accumulator holds no more buckets than its window
\* has seconds.
TypeOK ==
    /\ now \in Nat
    /\ level \in Levels
    /\ \A k \in Key : registry[k] \in Seq(Bucket) /\ Len(registry[k]) <= Window
    /\ upload \in {"sleeping", "exporting", "failed", "cancelled"}
    /\ wake \in Nat
    /\ phase \in {"open", "flushing", "unwinding", "exited", "failed"}
    /\ putAt \in [Obs -> Nat \cup {NotYet}]
    /\ carried \in [{"loop", "exit"} -> SUBSET Obs]
    /\ exported \in SUBSET Obs
    /\ due \in SUBSET Obs

\* The statistics of a key are those of exactly the observations of the last
\* Window seconds with that key, however long ago buckets were last evicted.
WindowExact ==
    \A k \in Key :
        LET S == {o \in Obs : Live(o) /\ KeyOf(o) = k}
            b == Evict(registry[k])
        IN  /\ b = <<>> <=> S = {}
            /\ S # {} => Stats(b) = [count |-> Cardinality(S),
                                     sum   |-> SumFunctionOnSet(Value, S),
                                     min   |-> Min({Value[o] : o \in S}),
                                     max   |-> Max({Value[o] : o \in S})]

\* An interval and an export fit in the window but for one second, which is
\* the least that a window of whole seconds covers.  (Not so by default: both
\* are 60 seconds.)
WindowSuffices == Interval + ExportTime <= (Window - 1) * TicksPerSecond

\* While the loop runs, no observation slides out of its window before an
\* export has taken it along.
NothingSkipped ==
    WindowSuffices /\ upload \in {"sleeping", "exporting"} =>
        \A o \in Obs : putAt[o] # NotYet /\ ~Live(o) => o \in exported \cup carried["loop"]

\* "Final flush before tearing down so we don't lose the last window": when
\* the exit ends, everything observed before it has been exported, unless an
\* export failed or the loop was cancelled in one.
LastWindowExported ==
    [][phase' = "exited" /\ phase # "exited" /\ WindowSuffices /\ upload # "failed" =>
           due \subseteq exported \cup carried["loop"]]_vars
=============================================================================
