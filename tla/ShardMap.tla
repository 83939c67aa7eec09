------------------------------ MODULE ShardMap ------------------------------
(***************************************************************************)
(* The cached shard map of one stream (shard_map.py): refresh with backoff,*)
(* installation of a snapshot, closed shards that stay answerable for a    *)
(* while, invalidation, start and aclose, against a stream that is         *)
(* resharded meanwhile.                                                    *)
(*                                                                         *)
(* The stream goes through the topologies of a fixed history, each a set   *)
(* of open shards that tile the hash space; ids are never reused.  One     *)
(* ListShards listing (all its pages) is atomic.                           *)
(***************************************************************************)
EXTENDS Integers, Sequences, FiniteSets

CONSTANTS
    Hash,         \* the hash key space 0 .. n
    Topology,     \* Topology[e]: the shards open in epoch e of the stream
    Low, High,    \* Low[s] .. High[s]: the hash range of shard s
    Invalidator,  \* tasks that call invalidate
    ClosedTtl,    \* closed_shard_ttl
    MinBackoff, MaxBackoff,
    MaxTime       \* bound on the clock; it stands for every later instant

Shard == UNION {Topology[e] : e \in DOMAIN Topology}
InRange(h, s) == Low[s] <= h /\ h <= High[s]

ASSUME ShardMapAssumption ==
    /\ Topology \in Seq(SUBSET Shard) /\ Topology # <<>>
    /\ Hash \subseteq Nat
    /\ Low \in [Shard -> Hash] /\ High \in [Shard -> Hash]
    /\ \A s \in Shard : Low[s] <= High[s]
    /\ \A e \in DOMAIN Topology : \A h \in Hash :
           \E s \in Topology[e] :
               InRange(h, s) /\ \A t \in Topology[e] : InRange(h, t) => t = s
    /\ \A d, e \in DOMAIN Topology : \A s \in Topology[d] \cap Topology[e] :
           \A k \in d .. e : s \in Topology[k]
    /\ MinBackoff \in Nat \ {0} /\ MaxBackoff \in Nat /\ MinBackoff <= MaxBackoff
    /\ ClosedTtl \in Nat \ {0} /\ MaxTime \in Nat

VARIABLES
    epoch,      \* external: the stream's current topology
    now,        \* self._clock()
    state,      \* self._state
    listed,     \* the shards of the snapshot's endings / shard_ids
    known,      \* the keys of the snapshot's shards
    closedAt,   \* self._closed_at
    updatedAt,  \* self._updated_at, or Never
    backoff,    \* self._backoff
    refresh,    \* the refresh task: where it is, what it fetched, until when it sleeps
    starting,   \* the call of start()
    asking,     \* invalidate calls past their guards, waiting for the lock
    cleanup,    \* when the cleanup task wakes, or Never
    closed      \* self._closed

stream == <<epoch, now>>
snap   == <<listed, known, closedAt, updatedAt, state>>
mapVars == <<stream, snap, backoff, refresh, starting, asking, cleanup, closed>>

Never == -1
NoRefresh == [at |-> "none", got |-> {}, until |-> 0]
Fetching  == [at |-> "fetching", got |-> {}, until |-> 0]

MapInit ==
    /\ epoch = 1
    /\ now = 0
    /\ state = "INVALID"
    /\ listed = {} /\ known = {}
    /\ closedAt = [s \in {} |-> 0]
    /\ updatedAt = Never
    /\ backoff = MinBackoff
    /\ refresh = NoRefresh
    /\ starting = "no"
    /\ asking = [c \in Invalidator |-> Never]
    /\ cleanup = Never
    /\ closed = FALSE

-----------------------------------------------------------------------------
(* Prediction                                                              *)

\* Mutant: bisect_right instead of bisect_left.
PredictRight(h) ==
    LET after == {s \in listed : h < High[s]}
    IN  IF state # "READY" \/ after = {} THEN {}
        ELSE {s \in after : \A t \in after : High[s] <= High[t]}

\* predict: bisect_left on the sorted endings; {} stands for None.
Predict(h) ==
    LET after == {s \in listed : h <= High[s]}
    IN  IF state # "READY" \/ after = {} THEN {}
        ELSE {s \in after : \A t \in after : High[s] <= High[t]}

\* hashrange(s) is not None, and h lies in it.
InKnownRange(h, s) == s \in known /\ InRange(h, s)

-----------------------------------------------------------------------------
(* The stream and the clock                                                *)

Reshard ==
    /\ epoch < Len(Topology)
    /\ epoch' = epoch + 1
    /\ UNCHANGED <<now, snap, backoff, refresh, starting, asking, cleanup, closed>>

Tick ==
    /\ now < MaxTime
    /\ now' = now + 1
    /\ UNCHANGED <<epoch, snap, backoff, refresh, starting, asking, cleanup, closed>>

-----------------------------------------------------------------------------
(* Refresh                                                                 *)

\* Mutant: a refresh is started whatever the state.
SpawnAlways ==
    /\ state' = "UPDATING"
    /\ backoff' = MinBackoff
    /\ refresh' = Fetching
    /\ UNCHANGED <<listed, known, closedAt, updatedAt>>

\* _spawn_refresh, under the lock: nothing if one is under way.
Spawn ==
    IF state = "UPDATING" THEN UNCHANGED <<snap, backoff, refresh>>
    ELSE /\ state' = "UPDATING"
         /\ backoff' = MinBackoff
         /\ refresh' = Fetching
         /\ UNCHANGED <<listed, known, closedAt, updatedAt>>

\* start(): spawn, then wait for the event _refresh_done.
Start ==
    /\ starting = "no" /\ ~closed
    /\ starting' = "waiting"
    /\ Spawn
    /\ UNCHANGED <<stream, asking, cleanup, closed>>

\* _refresh_done.set(): start(), if it waits, returns.
SetDone == starting' = IF starting = "waiting" THEN "returned" ELSE starting

\* _fetch_all_pages succeeded with the topology of the moment.
FetchOk ==
    /\ refresh.at = "fetching" /\ ~closed
    /\ refresh' = [at |-> "installing", got |-> Topology[epoch], until |-> 0]
    /\ UNCHANGED <<stream, snap, backoff, starting, asking, cleanup, closed>>

Earlier(a, b) == IF a < b THEN a ELSE b

\* Mutant: the backoff is doubled without the cap.
FetchFailUncapped ==
    /\ refresh.at = "fetching" /\ ~closed
    /\ refresh' = [at |-> "sleeping", got |-> {}, until |-> Earlier(now + backoff, MaxTime)]
    /\ backoff' = 2 * backoff
    /\ UNCHANGED <<stream, snap, starting, asking, cleanup, closed>>

\* It failed: sleep for the backoff, doubled for the next time.
FetchFail ==
    /\ refresh.at = "fetching" /\ ~closed
    /\ refresh' = [at |-> "sleeping", got |-> {}, until |-> Earlier(now + backoff, MaxTime)]
    /\ backoff' = Earlier(2 * backoff, MaxBackoff)
    /\ UNCHANGED <<stream, snap, starting, asking, cleanup, closed>>

\* Mutant: the task ends after a failed listing.
RetryFetchGivesUp ==
    /\ refresh.at = "sleeping" /\ refresh.until <= now /\ ~closed
    /\ refresh' = NoRefresh
    /\ SetDone
    /\ UNCHANGED <<stream, snap, backoff, asking, cleanup, closed>>

RetryFetch ==
    /\ refresh.at = "sleeping" /\ refresh.until <= now /\ ~closed
    /\ refresh' = Fetching
    /\ UNCHANGED <<stream, snap, backoff, starting, asking, cleanup, closed>>

\* aclose's cancellation reaches the refresh task: the map stays UPDATING.
RefreshCancelled ==
    /\ closed /\ refresh # NoRefresh
    /\ refresh' = NoRefresh
    /\ SetDone
    /\ UNCHANGED <<stream, snap, backoff, asking, cleanup, closed>>

\* Mutant: a shard that disappears is forgotten at once.
MergeForgets(got) ==
    /\ closedAt' = [s \in {} |-> 0]
    /\ known' = got
    /\ listed' = got
    /\ state' = "READY"
    /\ updatedAt' = now
    /\ backoff' = MinBackoff

\* _install_snapshot: shards that disappeared keep answering hashrange until
\* ClosedTtl after they were first missed.
Merge(got) ==
    LET missing == known \ got
        at      == [s \in (DOMAIN closedAt \ (known \cap got)) \cup missing |->
                       IF s \in DOMAIN closedAt THEN closedAt[s] ELSE now]
    IN  /\ closedAt' = at
        /\ known' = got \cup {s \in missing : at[s] + ClosedTtl > now}
        /\ listed' = got
        /\ state' = "READY"
        /\ updatedAt' = now
        /\ backoff' = MinBackoff

\* Mutant: the end of the task does not set _refresh_done.
InstallSilent ==
    /\ refresh.at = "installing"
    /\ Merge(refresh.got)
    /\ cleanup' = IF closed THEN Never ELSE now + ClosedTtl
    /\ refresh' = NoRefresh
    /\ UNCHANGED <<stream, starting, asking, closed>>

\* The snapshot is installed, the cleanup task rescheduled (_schedule_cleanup),
\* and the refresh task ends.  A task that has the lock is past cancellation.
Install ==
    /\ refresh.at = "installing"
    /\ Merge(refresh.got)
    /\ cleanup' = IF closed THEN Never ELSE now + ClosedTtl
    /\ refresh' = NoRefresh
    /\ SetDone
    /\ UNCHANGED <<stream, asking, closed>>

\* _cleanup in its task: purge the closed shards whose time is over, unless
\* the map is being refreshed.
Cleanup ==
    /\ cleanup # Never /\ cleanup <= now /\ ~closed
    /\ cleanup' = Never
    /\ LET expired == IF state # "READY" THEN {}
                      ELSE {s \in DOMAIN closedAt : closedAt[s] + ClosedTtl <= now}
       IN  /\ known' = known \ expired
           /\ closedAt' = [s \in DOMAIN closedAt \ expired |-> closedAt[s]]
    /\ UNCHANGED <<stream, listed, updatedAt, state, backoff, refresh, starting, asking, closed>>

-----------------------------------------------------------------------------
(* Invalidation and aclose                                                 *)

\* The guards of invalidate(now, s), evaluated before the lock is awaited.  (No
\* caller in src/ passes None, for which the last one is skipped.)
Worthwhile(s) ==
    /\ ~closed
    /\ updatedAt = Never \/ now > updatedAt
    /\ s \in known

InvalidateGuards(c, s) ==
    /\ asking[c] = Never
    /\ Worthwhile(s)
    /\ asking' = [asking EXCEPT ![c] = now]
    /\ UNCHANGED <<stream, snap, backoff, refresh, starting, cleanup, closed>>

\* The lock is acquired.  After __aexit__ there is no task group to spawn in:
\* _spawn_refresh raises once it has set the state.
InvalidateSpawns(c) ==
    /\ asking[c] # Never
    /\ asking' = [asking EXCEPT ![c] = Never]
    /\ \/ /\ ~closed
          /\ Spawn
       \/ /\ closed
          /\ state' = "UPDATING"
          /\ backoff' = IF state = "UPDATING" THEN backoff ELSE MinBackoff
          /\ UNCHANGED <<listed, known, closedAt, updatedAt, refresh>>
    /\ UNCHANGED <<stream, starting, cleanup, closed>>

\* __aexit__: aclose cancels the two tasks and sets _refresh_done.
Aclose ==
    /\ ~closed
    /\ closed' = TRUE
    /\ cleanup' = Never
    /\ SetDone
    /\ UNCHANGED <<stream, snap, backoff, refresh, asking>>

RefreshStep == FetchOk \/ FetchFail \/ RetryFetch \/ RefreshCancelled \/ Install

\* What happens to an open map, calls of invalidate apart.
MapStep ==
    \/ Reshard \/ Tick
    \/ Start
    \/ RefreshStep \/ Cleanup
    \/ \E c \in Invalidator : InvalidateSpawns(c)

MapNext ==
    \/ MapStep
    \/ \E c \in Invalidator, s \in Shard : InvalidateGuards(c, s)
    \/ Aclose

MapSpec == MapInit /\ [][MapNext]_mapVars

\* The refresh task runs, and a ListShards that is retried often enough
\* succeeds; the clock and the calls that wait for the lock go on.
MapFairness ==
    /\ WF_mapVars(Tick)
    /\ WF_mapVars(RefreshStep) /\ SF_mapVars(FetchOk)
    /\ \A c \in Invalidator : WF_mapVars(InvalidateSpawns(c))

FairMapSpec == MapSpec /\ MapFairness

-----------------------------------------------------------------------------
(* Properties                                                              *)

\* Types of the map; the backoff stays between its bounds.
MapTypeOK ==
    /\ epoch \in DOMAIN Topology
    /\ now \in 0 .. MaxTime
    /\ state \in {"INVALID", "UPDATING", "READY"}
    /\ listed \subseteq Shard /\ known \subseteq Shard
    /\ DOMAIN closedAt \subseteq Shard /\ \A s \in DOMAIN closedAt : closedAt[s] \in 0 .. now
    /\ updatedAt \in {Never} \cup 0 .. now
    /\ backoff \in MinBackoff .. MaxBackoff
    /\ refresh \in [at : {"none", "fetching", "sleeping", "installing"},
                    got : SUBSET Shard, until : 0 .. MaxTime]
    /\ starting \in {"no", "waiting", "returned"}
    /\ asking \in [Invalidator -> {Never} \cup 0 .. now]
    /\ cleanup \in {Never} \cup 0 .. (MaxTime + ClosedTtl)
    /\ closed \in BOOLEAN

\* A READY map maps every hash key to exactly the shard that owned it in one
\* topology of the stream's past, never to a mixture of two.
PredictionsOnceTrue ==
    state = "READY" =>
        \E e \in 1 .. epoch : \A h \in Hash :
            Predict(h) = {s \in Topology[e] : InRange(h, s)}

\* hashrange answers for every listed shard, and stops answering for a shard
\* no earlier than ClosedTtl after the refresh that first missed it, through
\* any number of refreshes, reshardings and cleanups.
ClosedShardsAnswerable ==
    [][/\ listed' \subseteq known'
       /\ \A s \in known \ known' :
              s \in DOMAIN closedAt /\ closedAt[s] + ClosedTtl <= now]_mapVars

\* There is never a second refresh task: one is started only when none runs.
OneRefresh ==
    [][refresh' = Fetching /\ refresh.at # "sleeping" /\ refresh' # refresh
           => refresh = NoRefresh]_mapVars

\* A map that is being updated is updated, or closed.
RefreshEnds == (state = "UPDATING") ~> (state = "READY" \/ closed)

\* start() comes back.
StartEnds == (starting = "waiting") ~> (starting = "returned")
=============================================================================
