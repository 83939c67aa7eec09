---------------------------- MODULE RoutingProofs ----------------------------
(***************************************************************************)
(* Proofs about ShardMap, for any stream history whose topologies tile the *)
(* hash space, any time-to-live and backoff: a READY map is one past       *)
(* topology, closed shards stay answerable, and there is one refresh.      *)
(* Proofs about Routing, for any records and number of attempts: what is   *)
(* reported as a success is where its hash key belongs, a mismatch means   *)
(* the predicted shard was closed, and no mismatch refreshes the map.      *)
(***************************************************************************)
EXTENDS Routing, TLAPS

-----------------------------------------------------------------------------
(* The history of the stream                                               *)

\* The assumption, part by part.
LEMMA History ==
    /\ Len(Topology) \in Nat \ {0}
    /\ DOMAIN Topology = 1 .. Len(Topology)
    /\ \A e \in DOMAIN Topology : Topology[e] \subseteq Shard
    /\ \A s \in Shard : Low[s] \in Nat /\ High[s] \in Nat /\ High[s] \in Hash /\ Low[s] <= High[s]
    /\ Hash \subseteq Nat
    /\ MinBackoff \in Nat \ {0} /\ MaxBackoff \in Nat /\ MinBackoff <= MaxBackoff
    /\ ClosedTtl \in Nat \ {0} /\ MaxTime \in Nat
<1>1. /\ Topology \in Seq(SUBSET Shard) /\ Topology # <<>>
      /\ Hash \subseteq Nat /\ Low \in [Shard -> Hash] /\ High \in [Shard -> Hash]
      /\ \A s \in Shard : Low[s] <= High[s]
      /\ MinBackoff \in Nat \ {0} /\ MaxBackoff \in Nat /\ MinBackoff <= MaxBackoff
      /\ ClosedTtl \in Nat \ {0} /\ MaxTime \in Nat
  BY ShardMapAssumption
<1>2. /\ Len(Topology) \in Nat \ {0} /\ DOMAIN Topology = 1 .. Len(Topology)
      /\ \A e \in DOMAIN Topology : Topology[e] \in SUBSET Shard
  BY <1>1
<1>3. \A s \in Shard : Low[s] \in Hash /\ High[s] \in Hash
  BY <1>1
<1>4. QED
  BY <1>1, <1>2, <1>3

\* The open shards tile the hash space: every key has one owner.
LEMMA Tiling ==
    ASSUME NEW e \in DOMAIN Topology, NEW h \in Hash
    PROVE  /\ \E s \in Topology[e] : InRange(h, s)
           /\ \A s, t \in Topology[e] : InRange(h, s) /\ InRange(h, t) => s = t
<1>1. PICK s \in Topology[e] :
          InRange(h, s) /\ \A t \in Topology[e] : InRange(h, t) => t = s
  BY ShardMapAssumption
<1>2. QED
  BY <1>1

\* A shard that was open in two epochs was open in between: ids are not reused.
LEMMA NotReused ==
    ASSUME NEW d \in DOMAIN Topology, NEW e \in DOMAIN Topology, NEW k \in d .. e,
           NEW s \in Topology[d], s \in Topology[e]
    PROVE  s \in Topology[k]
BY ShardMapAssumption

\* bisect_left on the endings finds the owner: no listed shard that ends at or
\* after h ends before it.
LEMMA OwnerEndsFirst ==
    ASSUME NEW e \in DOMAIN Topology, NEW h \in Hash, listed = Topology[e], state = "READY"
    PROVE  Predict(h) = {s \in Topology[e] : InRange(h, s)}
<1>1. PICK o \in Topology[e] : InRange(h, o)
  BY Tiling
<1>2. \A t \in Topology[e] : /\ Low[t] \in Nat /\ High[t] \in Nat /\ High[t] \in Hash
                             /\ Low[t] <= High[t] /\ InRange(High[t], t)
  BY History DEF InRange
<1>3. h \in Nat
  BY History
<1>4. ASSUME NEW t \in Topology[e], h <= High[t], High[t] <= High[o] PROVE t = o
  <2>1. InRange(High[t], o)
    BY <1>1, <1>2, <1>3, <1>4 DEF InRange
  <2>2. QED
    BY <1>2, <2>1, Tiling
<1> DEFINE after == {s \in listed : h <= High[s]}
<1>5. o \in after /\ \A t \in after : High[o] <= High[t]
  BY <1>1, <1>2, <1>3, <1>4 DEF InRange
<1>6. {s \in after : \A t \in after : High[s] <= High[t]} = {o}
  BY <1>2, <1>4, <1>5
<1>7. {s \in Topology[e] : InRange(h, s)} = {o}
  BY <1>1, Tiling
<1>8. QED
  BY <1>5, <1>6, <1>7 DEF Predict

-----------------------------------------------------------------------------
(* Types                                                                   *)

\* The states of a refresh.
LEMMA Refreshes ==
    /\ NoRefresh.at = "none" /\ Fetching.at = "fetching" /\ NoRefresh # Fetching
    /\ \A r \in {NoRefresh, Fetching} :
           r \in [at : {"none", "fetching", "sleeping", "installing"},
                  got : SUBSET Shard, until : 0 .. MaxTime]
<1>1. 0 \in 0 .. MaxTime
  BY History
<1>2. QED
  BY <1>1 DEF NoRefresh, Fetching

\* What changes the types of one group of variables at a time.
LEMMA MapTypeStep ==
    ASSUME MapTypeOK, [MapNext]_mapVars
    PROVE  MapTypeOK'
<1> USE DEF MapTypeOK, Never
<1>0. /\ now \in Nat /\ now <= MaxTime /\ MaxTime \in Nat /\ ClosedTtl \in Nat
      /\ MinBackoff \in Nat /\ MaxBackoff \in Nat /\ MinBackoff <= MaxBackoff
      /\ backoff \in Nat /\ MinBackoff <= backoff /\ backoff <= MaxBackoff
      /\ MinBackoff \in MinBackoff .. MaxBackoff
  BY History
<1>a. ASSUME Spawn PROVE /\ UNCHANGED <<listed, known, closedAt, updatedAt>>
                         /\ state' \in {"INVALID", "UPDATING", "READY"}
                         /\ backoff' \in MinBackoff .. MaxBackoff
                         /\ refresh' \in {refresh, Fetching}
  BY <1>0, <1>a DEF Spawn, snap
<1>b. SetDone => starting' \in {"no", "waiting", "returned"}
  BY DEF SetDone
<1>1. CASE Reshard
  BY <1>0, <1>1, History DEF Reshard, snap
<1>2. CASE Tick
  <2>1. /\ now' = now + 1 /\ now < MaxTime
        /\ UNCHANGED <<epoch, listed, known, closedAt, updatedAt, state, backoff, refresh,
                       starting, asking, cleanup, closed>>
    BY <1>2 DEF Tick, snap
  <2>2. now' \in 0 .. MaxTime /\ 0 .. now \subseteq 0 .. now'
    BY <1>0, <2>1
  <2>3. QED
    BY <2>1, <2>2
<1>3. CASE Start
  <2>1. /\ Spawn /\ starting' = "waiting"
        /\ UNCHANGED <<epoch, now, asking, cleanup, closed>>
    BY <1>3 DEF Start, stream
  <2>2. QED
    BY <1>a, <2>1, Refreshes
<1>4. CASE FetchOk
  <2>1. /\ refresh' = [at |-> "installing", got |-> Topology[epoch], until |-> 0]
        /\ UNCHANGED <<epoch, now, listed, known, closedAt, updatedAt, state, backoff,
                       starting, asking, cleanup, closed>>
    BY <1>4 DEF FetchOk, stream, snap
  <2>2. Topology[epoch] \in SUBSET Shard /\ 0 \in 0 .. MaxTime
    BY <1>0, History
  <2>3. QED
    BY <2>1, <2>2
<1>5. CASE FetchFail
  <2>1. /\ refresh' = [at |-> "sleeping", got |-> {}, until |-> Earlier(now + backoff, MaxTime)]
        /\ backoff' = Earlier(2 * backoff, MaxBackoff)
        /\ UNCHANGED <<epoch, now, listed, known, closedAt, updatedAt, state,
                       starting, asking, cleanup, closed>>
    BY <1>5 DEF FetchFail, stream, snap
  <2>2. Earlier(now + backoff, MaxTime) \in 0 .. MaxTime
    BY <1>0 DEF Earlier
  <2>3. Earlier(2 * backoff, MaxBackoff) \in MinBackoff .. MaxBackoff
    BY <1>0 DEF Earlier
  <2>4. QED
    BY <2>1, <2>2, <2>3
<1>6. CASE RetryFetch
  <2>1. /\ refresh' = Fetching
        /\ UNCHANGED <<epoch, now, listed, known, closedAt, updatedAt, state, backoff,
                       starting, asking, cleanup, closed>>
    BY <1>6 DEF RetryFetch, stream, snap
  <2>2. QED
    BY <2>1, Refreshes
<1>7. CASE RefreshCancelled
  <2>1. /\ refresh' = NoRefresh /\ SetDone
        /\ UNCHANGED <<epoch, now, listed, known, closedAt, updatedAt, state, backoff,
                       asking, cleanup, closed>>
    BY <1>7 DEF RefreshCancelled, stream, snap
  <2>2. QED
    BY <1>b, <2>1, Refreshes
<1>8. CASE Install
  <2>1. /\ Merge(refresh.got) /\ cleanup' \in {Never, now + ClosedTtl}
        /\ refresh' = NoRefresh /\ SetDone
        /\ UNCHANGED <<epoch, now, asking, closed>>
    BY <1>8 DEF Install, stream
  <2> DEFINE missing == known \ refresh.got
             D == (DOMAIN closedAt \ (known \cap refresh.got)) \cup missing
             stamp == [s \in D |-> IF s \in DOMAIN closedAt THEN closedAt[s] ELSE now]
  <2>2. /\ closedAt' = stamp
        /\ known' = refresh.got \cup {s \in missing : stamp[s] + ClosedTtl > now}
        /\ listed' = refresh.got /\ state' = "READY" /\ updatedAt' = now
        /\ backoff' = MinBackoff
    BY <2>1 DEF Merge
  <2>3. refresh.got \subseteq Shard /\ D \subseteq Shard /\ now \in 0 .. now
    BY <1>0
  <2>4. DOMAIN closedAt' = D /\ \A s \in D : closedAt'[s] \in 0 .. now
    BY <2>2, <2>3
  <2>5. cleanup' \in {Never} \cup 0 .. (MaxTime + ClosedTtl)
    BY <1>0, <2>1
  <2> HIDE DEF D, stamp
  <2>6. listed' \subseteq Shard /\ known' \subseteq Shard
    BY <2>2, <2>3
  <2>7. DOMAIN closedAt' \subseteq Shard /\ \A s \in DOMAIN closedAt' : closedAt'[s] \in 0 .. now'
    BY <2>1, <2>3, <2>4
  <2>8. QED
    BY <1>0, <1>b, <2>1, <2>2, <2>3, <2>5, <2>6, <2>7, Refreshes
<1>9. CASE Cleanup
  <2>1. /\ UNCHANGED <<epoch, now, listed, updatedAt, state, backoff, refresh, starting,
                       asking, closed>>
        /\ cleanup' = Never
    BY <1>9 DEF Cleanup, stream
  <2>2. PICK expired : /\ known' = known \ expired
                       /\ closedAt' = [s \in DOMAIN closedAt \ expired |-> closedAt[s]]
    BY <1>9 DEF Cleanup
  <2>3. QED
    BY <2>1, <2>2
<1>10. ASSUME NEW c \in Invalidator, InvalidateSpawns(c) PROVE MapTypeOK'
  <2>1. /\ asking' = [asking EXCEPT ![c] = Never]
        /\ UNCHANGED <<epoch, now, starting, cleanup, closed>>
    BY <1>10 DEF InvalidateSpawns, stream
  <2>2. /\ UNCHANGED <<listed, known, closedAt, updatedAt>>
        /\ state' \in {"INVALID", "UPDATING", "READY"}
        /\ backoff' \in MinBackoff .. MaxBackoff
        /\ refresh' \in {refresh, Fetching}
    BY <1>0, <1>10, <1>a DEF InvalidateSpawns
  <2>3. QED
    BY <2>1, <2>2, Refreshes
<1>11. ASSUME NEW c \in Invalidator, NEW s, InvalidateGuards(c, s) PROVE MapTypeOK'
  <2>1. /\ asking' = [asking EXCEPT ![c] = now]
        /\ UNCHANGED <<epoch, now, listed, known, closedAt, updatedAt, state, backoff,
                       refresh, starting, cleanup, closed>>
    BY <1>11 DEF InvalidateGuards, stream, snap
  <2>2. QED
    BY <1>0, <2>1
<1>12. CASE Aclose
  <2>1. /\ closed' = TRUE /\ cleanup' = Never /\ SetDone
        /\ UNCHANGED <<epoch, now, listed, known, closedAt, updatedAt, state, backoff,
                       refresh, asking>>
    BY <1>12 DEF Aclose, stream, snap
  <2>2. QED
    BY <1>b, <2>1
<1>13. CASE UNCHANGED mapVars
  BY <1>13 DEF mapVars, stream, snap
<1>14. QED
  BY <1>1, <1>2, <1>3, <1>4, <1>5, <1>6, <1>7, <1>8, <1>9, <1>10, <1>11, <1>12, <1>13
     DEF MapNext, MapStep, RefreshStep
-----------------------------------------------------------------------------
(* The snapshot                                                            *)

\* The shards that were open in some epoch up to e.
Once(e) == {s \in Shard : \E d \in 1 .. e : s \in Topology[d]}

\* The snapshot is the topology of epoch e (nothing, for e = 0).  The closed
\* shards it remembers are past ones that e no longer has, and a listing that
\* waits to be installed is not older.
SnapAt(e) ==
    /\ listed = (IF e = 0 THEN {} ELSE Topology[e])
    /\ state = "READY" => e > 0
    /\ listed \subseteq known /\ known \subseteq Once(e)
    /\ DOMAIN closedAt \subseteq Once(e) \ listed
    /\ refresh.at = "installing" => \E g \in 1 .. epoch : e <= g /\ refresh.got = Topology[g]

\* A refresh task runs only while the map is UPDATING.
MapInv ==
    /\ MapTypeOK
    /\ refresh # NoRefresh => state = "UPDATING"
    /\ \E e \in 0 .. epoch : SnapAt(e)

\* Shards that left the stream do not come back in a later listing.
LEMMA GoneForGood ==
    ASSUME NEW e \in Nat, NEW g \in DOMAIN Topology, e <= g, NEW s \in Once(e),
           s \notin (IF e = 0 THEN {} ELSE Topology[e])
    PROVE  s \notin Topology[g]
<1>1. PICK d \in 1 .. e : s \in Topology[d]
  BY DEF Once
<1>2. e # 0 /\ d \in DOMAIN Topology /\ e \in DOMAIN Topology /\ e \in d .. g
  BY <1>1, History
<1>3. s \notin Topology[e]
  BY <1>2
<1>4. QED
  BY <1>1, <1>2, <1>3, NotReused

\* The shards once in the stream only become more.
LEMMA OnceGrows ==
    ASSUME NEW e \in Nat, NEW g \in DOMAIN Topology, e <= g
    PROVE  Once(e) \subseteq Once(g) /\ Topology[g] \subseteq Once(g)
<1>1. Once(e) \subseteq Once(g)
  BY History DEF Once
<1>2. g \in 1 .. g /\ Topology[g] \subseteq Shard
  BY History
<1>3. QED
  BY <1>1, <1>2 DEF Once

\* _install_snapshot, for a listing of epoch g.
LEMMA Merges ==
    ASSUME MapTypeOK, NEW e \in 0 .. epoch, SnapAt(e), refresh.at = "installing",
           Merge(refresh.got)
    PROVE  \E g \in 1 .. epoch :
               /\ listed' = Topology[g]
               /\ listed' \subseteq known' /\ known' \subseteq Once(g)
               /\ DOMAIN closedAt' \subseteq Once(g) \ listed'
               /\ \A s \in known \ known' :
                      s \in DOMAIN closedAt /\ closedAt[s] + ClosedTtl <= now
<1>1. PICK g \in 1 .. epoch : e <= g /\ refresh.got = Topology[g]
  BY DEF SnapAt
<1>2. /\ g \in DOMAIN Topology /\ e \in Nat /\ now \in Nat /\ ClosedTtl \in Nat \ {0}
      /\ \A s \in DOMAIN closedAt : closedAt[s] \in Nat
  BY History DEF MapTypeOK
<1> DEFINE got == Topology[g]
           missing == known \ got
           D == (DOMAIN closedAt \ (known \cap got)) \cup missing
           stamp == [s \in D |-> IF s \in DOMAIN closedAt THEN closedAt[s] ELSE now]
<1>3. /\ closedAt' = stamp /\ listed' = got
      /\ known' = got \cup {s \in missing : stamp[s] + ClosedTtl > now}
  BY <1>1 DEF Merge
<1>4. Once(e) \subseteq Once(g) /\ got \subseteq Once(g)
  BY <1>1, <1>2, OnceGrows
<1>5. known \subseteq Once(g)
  BY <1>4 DEF SnapAt
<1>6. \A s \in DOMAIN closedAt : s \in Once(g) /\ s \notin got
  BY <1>1, <1>2, <1>4, GoneForGood DEF SnapAt
<1>7. D \subseteq Once(g) \ got
  BY <1>5, <1>6
<1>8. \A s \in missing : stamp[s] = IF s \in DOMAIN closedAt THEN closedAt[s] ELSE now
  OBVIOUS
<1>9. DOMAIN closedAt' = D
  BY <1>3
<1> HIDE DEF D, stamp, got
<1>10. ASSUME NEW s \in known \ known'
       PROVE  s \in DOMAIN closedAt /\ closedAt[s] + ClosedTtl <= now
  <2>1. s \in missing /\ ~(stamp[s] + ClosedTtl > now)
    BY <1>3
  <2>2. QED
    BY <1>2, <1>8, <2>1
<1>11. listed' = Topology[g] /\ listed' \subseteq known' /\ known' \subseteq Once(g)
  BY <1>3, <1>4, <1>5 DEF got
<1>12. DOMAIN closedAt' \subseteq Once(g) \ listed'
  BY <1>3, <1>7, <1>9
<1>13. QED
  BY <1>10, <1>11, <1>12

\* Every step keeps the invariant.
LEMMA MapInvStep ==
    ASSUME MapInv, [MapNext]_mapVars
    PROVE  MapInv'
<1>1. MapTypeOK'
  BY MapTypeStep DEF MapInv
<1>2. PICK e \in 0 .. epoch : SnapAt(e)
  BY DEF MapInv
<1>3. epoch \in Nat /\ epoch' \in Nat /\ DOMAIN Topology = 1 .. Len(Topology)
  BY <1>1, History DEF MapInv, MapTypeOK
<1>a. ASSUME UNCHANGED <<listed, known, closedAt>>, epoch <= epoch',
             state' = "READY" => state = "READY",
             \/ refresh' = refresh
             \/ refresh'.at # "installing"
             \/ refresh'.got = Topology[epoch'] /\ epoch' \in 1 .. epoch'
      PROVE  \E d \in 0 .. epoch' : SnapAt(d)'
  <2>1. e \in 0 .. epoch' /\ e \in Nat /\ e <= epoch'
    BY <1>3, <1>a
  <2>2. refresh'.at = "installing"
            => \E g \in 1 .. epoch' : e <= g /\ refresh'.got = Topology[g]
    <3>1. CASE refresh' = refresh
      BY <1>2, <1>3, <1>a, <3>1 DEF SnapAt
    <3>2. CASE refresh'.got = Topology[epoch'] /\ epoch' \in 1 .. epoch'
      BY <2>1, <3>2
    <3>3. QED
      BY <1>a, <3>1, <3>2
  <2>3. SnapAt(e)'
    BY <1>2, <1>a, <2>2 DEF SnapAt
  <2>4. QED
    BY <2>1, <2>3
<1>b. ASSUME Spawn
      PROVE  /\ UNCHANGED <<listed, known, closedAt>>
             /\ refresh' = refresh \/ refresh'.at # "installing"
             /\ state' = "UPDATING"
  BY <1>b, Refreshes DEF Spawn, snap
<1> DEFINE Goal == (refresh # NoRefresh => state = "UPDATING") /\ \E d \in 0 .. epoch : SnapAt(d)
<1>4. CASE Reshard \/ Tick
  <2>1. /\ UNCHANGED <<listed, known, closedAt, state, refresh>> /\ epoch <= epoch'
    BY <1>3, <1>4 DEF Reshard, Tick, snap
  <2>2. Goal'
    BY <1>a, <2>1 DEF MapInv
  <2>3. QED
    BY <1>1, <2>2 DEF MapInv
<1>5. CASE FetchOk
  <2>1. /\ refresh' = [at |-> "installing", got |-> Topology[epoch], until |-> 0]
        /\ UNCHANGED <<listed, known, closedAt, state, epoch>> /\ refresh # NoRefresh
    BY <1>5, Refreshes DEF FetchOk, snap, stream
  <2>2. refresh'.got = Topology[epoch'] /\ epoch' \in 1 .. epoch' /\ epoch <= epoch'
    BY <1>3, <2>1, History DEF MapInv, MapTypeOK
  <2>3. Goal'
    BY <1>a, <2>1, <2>2 DEF MapInv
  <2>4. QED
    BY <1>1, <2>3 DEF MapInv
<1>6. CASE FetchFail \/ RetryFetch \/ RefreshCancelled
  <2>1. /\ refresh'.at # "installing" /\ refresh # NoRefresh
        /\ UNCHANGED <<listed, known, closedAt, state, epoch>>
    BY <1>6, Refreshes DEF FetchFail, RetryFetch, RefreshCancelled, snap, stream
  <2>2. Goal'
    BY <1>3, <1>a, <2>1 DEF MapInv
  <2>3. QED
    BY <1>1, <2>2 DEF MapInv
<1>7. CASE Install
  <2>1. /\ refresh.at = "installing" /\ Merge(refresh.got) /\ refresh' = NoRefresh
        /\ epoch' = epoch
    BY <1>7 DEF Install, stream
  <2>2. PICK g \in 1 .. epoch : /\ listed' = Topology[g]
                                /\ listed' \subseteq known' /\ known' \subseteq Once(g)
                                /\ DOMAIN closedAt' \subseteq Once(g) \ listed'
    BY <1>2, <2>1, Merges DEF MapInv
  <2>3. g \in 0 .. epoch' /\ g # 0 /\ g > 0
    BY <1>3, <2>1
  <2>4. SnapAt(g)'
    BY <2>1, <2>2, <2>3, Refreshes DEF SnapAt
  <2>5. QED
    BY <1>1, <2>1, <2>3, <2>4 DEF MapInv
<1>8. CASE Cleanup
  <2>1. UNCHANGED <<listed, state, refresh, epoch>>
    BY <1>8 DEF Cleanup, stream
  <2>2. PICK expired : /\ expired \subseteq DOMAIN closedAt
                       /\ known' = known \ expired
                       /\ closedAt' = [s \in DOMAIN closedAt \ expired |-> closedAt[s]]
    BY <1>8 DEF Cleanup
  <2>3. DOMAIN closedAt' \subseteq DOMAIN closedAt
    BY <2>2
  <2>4. SnapAt(e)'
    BY <1>2, <2>1, <2>2, <2>3 DEF SnapAt
  <2>5. QED
    BY <1>1, <2>1, <2>4 DEF MapInv
<1>9. CASE Start \/ \E c \in Invalidator : InvalidateSpawns(c)
  <2>1. /\ epoch' = epoch
        /\ \/ Spawn
           \/ state' = "UPDATING" /\ UNCHANGED <<listed, known, closedAt, refresh>>
    BY <1>9 DEF Start, InvalidateSpawns, stream
  <2>2. Goal'
    BY <1>3, <1>a, <1>b, <2>1
  <2>3. QED
    BY <1>1, <2>2 DEF MapInv
<1>10. CASE \/ \E c \in Invalidator, s \in Shard : InvalidateGuards(c, s)
            \/ Aclose \/ UNCHANGED mapVars
  <2>1. UNCHANGED <<listed, known, closedAt, state, refresh, epoch>>
    BY <1>10 DEF InvalidateGuards, Aclose, mapVars, snap, stream
  <2>2. Goal'
    BY <1>3, <1>a, <2>1 DEF MapInv
  <2>3. QED
    BY <1>1, <2>2 DEF MapInv
<1>11. QED
  BY <1>4, <1>5, <1>6, <1>7, <1>8, <1>9, <1>10 DEF MapNext, MapStep, RefreshStep

\* The map starts in the invariant.
LEMMA MapInvInit == MapInit => MapInv
<1> SUFFICES ASSUME MapInit PROVE MapInv
  OBVIOUS
<1> USE DEF MapInit
<1>1. MapTypeOK
  <2>1. /\ epoch \in DOMAIN Topology /\ now \in 0 .. MaxTime
        /\ backoff \in MinBackoff .. MaxBackoff
    BY History
  <2>2. DOMAIN closedAt = {}
    OBVIOUS
  <2>3. asking \in [Invalidator -> {Never} \cup 0 .. now]
    OBVIOUS
  <2>4. QED
    BY <2>1, <2>2, <2>3, Refreshes DEF MapTypeOK
<1>2. SnapAt(0) /\ 0 \in 0 .. epoch
  BY Refreshes DEF SnapAt
<1>3. QED
  BY <1>1, <1>2 DEF MapInv

\* The invariant holds throughout.
LEMMA MapInductive == MapSpec => []MapInv
BY MapInvInit, MapInvStep, PTL DEF MapSpec

-----------------------------------------------------------------------------
(* The theorems                                                            *)

\* The map keeps its types; the backoff stays between its bounds however often
\* ListShards fails.
THEOREM MapTypes == MapSpec => []MapTypeOK
<1>1. MapInv => MapTypeOK
  BY DEF MapInv
<1>2. QED
  BY <1>1, MapInductive, PTL

\* predict on a READY map returns, for every hash key, the owner in one and
\* the same topology of the stream's past.
THEOREM OneTopology == MapSpec => []PredictionsOnceTrue
<1>1. MapInv => PredictionsOnceTrue
  <2> SUFFICES ASSUME MapInv, state = "READY"
               PROVE  \E e \in 1 .. epoch : \A h \in Hash :
                          Predict(h) = {s \in Topology[e] : InRange(h, s)}
    BY DEF PredictionsOnceTrue
  <2>1. PICK e \in 0 .. epoch : SnapAt(e)
    BY DEF MapInv
  <2>2. e \in 1 .. epoch /\ e \in DOMAIN Topology /\ listed = Topology[e]
    BY <2>1, History DEF SnapAt, MapInv, MapTypeOK
  <2>3. QED
    BY <2>2, OwnerEndsFirst
<1>2. QED
  BY <1>1, MapInductive, PTL

\* hashrange answers for every listed shard, and forgets a closed one only
\* when ClosedTtl has passed since the refresh that first missed it.
THEOREM ClosedKept == MapSpec => ClosedShardsAnswerable
<1>1. MapInv /\ MapInv' /\ [MapNext]_mapVars =>
          [/\ listed' \subseteq known'
           /\ \A s \in known \ known' :
                  s \in DOMAIN closedAt /\ closedAt[s] + ClosedTtl <= now]_mapVars
  <2> SUFFICES ASSUME MapInv, MapInv', MapNext
               PROVE  /\ listed' \subseteq known'
                      /\ \A s \in known \ known' :
                             s \in DOMAIN closedAt /\ closedAt[s] + ClosedTtl <= now
    OBVIOUS
  <2>1. listed' \subseteq known'
    BY DEF MapInv, SnapAt
  <2>2. CASE Install
    <3>1. PICK e \in 0 .. epoch : SnapAt(e)
      BY DEF MapInv
    <3>2. refresh.at = "installing" /\ Merge(refresh.got) /\ MapTypeOK
      BY <2>2 DEF Install, MapInv
    <3>3. QED
      BY <2>1, <3>1, <3>2, Merges
  <2>3. CASE Cleanup
    BY <2>1, <2>3 DEF Cleanup
  <2>4. CASE ~Install /\ ~Cleanup
    <3>1. known' = known
      BY <2>4 DEF MapNext, MapStep, RefreshStep, Reshard, Tick, Start, FetchOk, FetchFail,
                  RetryFetch, RefreshCancelled, InvalidateSpawns, InvalidateGuards, Aclose,
                  Spawn, snap
    <3>2. QED
      BY <2>1, <3>1
  <2>5. QED
    BY <2>2, <2>3, <2>4
<1>2. QED
  BY <1>1, MapInductive, PTL DEF MapSpec, ClosedShardsAnswerable

\* start() and any number of invalidate calls racing for the lock never start
\* a second refresh task.
THEOREM RefreshAlone == MapSpec => OneRefresh
<1>1. MapInv /\ [MapNext]_mapVars =>
          [refresh' = Fetching /\ refresh.at # "sleeping" /\ refresh' # refresh
               => refresh = NoRefresh]_mapVars
  <2> SUFFICES ASSUME MapInv, MapNext, refresh' = Fetching, refresh.at # "sleeping",
                      refresh' # refresh
               PROVE  refresh = NoRefresh
    OBVIOUS
  <2>1. ASSUME Spawn PROVE state # "UPDATING"
    BY <2>1 DEF Spawn
  <2>2. CASE Start \/ \E c \in Invalidator : InvalidateSpawns(c)
    BY <2>1, <2>2 DEF Start, InvalidateSpawns, MapInv
  <2>3. CASE RefreshStep
    BY <2>3, Refreshes DEF RefreshStep, FetchOk, FetchFail, RetryFetch, RefreshCancelled,
                           Install, Fetching
  <2>4. QED
    BY <2>2, <2>3 DEF MapNext, MapStep, Reshard, Tick, Cleanup, InvalidateGuards, Aclose
<1>2. QED
  BY <1>1, MapInductive, PTL DEF MapSpec, OneRefresh

-----------------------------------------------------------------------------
(* The map of an open pipeline                                             *)

\* Nobody asks for a refresh, so the first snapshot is the only one.
OpenMap ==
    /\ closed = FALSE
    /\ \A c \in Invalidator : asking[c] = Never
    /\ starting = "no" => state = "INVALID"
    /\ starting = "returned" => state = "READY"
    /\ starting # "returned" => known = {}
    /\ DOMAIN closedAt = {} /\ known = listed

\* Once started the map keeps its snapshot, and its first one is a topology.
LEMMA OpenMapStep ==
    ASSUME MapInv, OpenMap, MapStep
    PROVE  /\ OpenMap' /\ epoch <= epoch'
           /\ starting = "returned" => UNCHANGED <<starting, listed>>
           /\ starting' = "returned" /\ starting # "returned"
                  => \E g \in 1 .. epoch' : listed' = Topology[g]
<1>0. epoch \in Nat /\ (refresh # NoRefresh => state = "UPDATING")
  BY History DEF MapInv, MapTypeOK
<1>1. CASE Reshard \/ Tick
  BY <1>0, <1>1 DEF Reshard, Tick, snap, OpenMap
<1>2. CASE Start
  BY <1>0, <1>2 DEF Start, Spawn, snap, stream, OpenMap
<1>3. CASE FetchOk \/ FetchFail \/ RetryFetch
  BY <1>0, <1>3 DEF FetchOk, FetchFail, RetryFetch, snap, stream, OpenMap
<1>4. ~RefreshCancelled /\ \A c \in Invalidator : ~InvalidateSpawns(c)
  BY DEF RefreshCancelled, InvalidateSpawns, OpenMap
<1>5. CASE Install
  <2>1. /\ refresh.at = "installing" /\ Merge(refresh.got) /\ SetDone
        /\ UNCHANGED <<epoch, asking, closed>>
    BY <1>5 DEF Install, stream
  <2>2. state = "UPDATING"
    BY <1>0, <2>1, Refreshes
  <2>3. starting = "waiting" /\ starting' = "returned"
    BY <2>1, <2>2 DEF SetDone, OpenMap, MapInv, MapTypeOK
  <2>4. known = {} /\ DOMAIN closedAt = {}
    BY <2>3 DEF OpenMap
  <2>5. /\ DOMAIN closedAt' = {} /\ known' = refresh.got /\ listed' = refresh.got
        /\ state' = "READY"
    BY <2>1, <2>4 DEF Merge
  <2>6. PICK e \in 0 .. epoch : SnapAt(e)
    BY DEF MapInv
  <2>7. \E g \in 1 .. epoch : refresh.got = Topology[g]
    BY <2>1, <2>6 DEF SnapAt
  <2>8. QED
    BY <1>0, <2>1, <2>3, <2>5, <2>7 DEF OpenMap
<1>6. CASE Cleanup
  <2>1. PICK expired : /\ expired \subseteq DOMAIN closedAt
                       /\ known' = known \ expired
                       /\ closedAt' = [s \in DOMAIN closedAt \ expired |-> closedAt[s]]
    BY <1>6 DEF Cleanup
  <2>2. expired = {} /\ DOMAIN closedAt' = {} /\ known' = known
    BY <2>1 DEF OpenMap
  <2>3. UNCHANGED <<epoch, listed, state, starting, asking, closed>>
    BY <1>6 DEF Cleanup, stream
  <2>4. QED
    BY <1>0, <2>2, <2>3 DEF OpenMap
<1>7. QED
  BY <1>1, <1>2, <1>3, <1>4, <1>5, <1>6 DEF MapStep, RefreshStep

-----------------------------------------------------------------------------
(* Records and batches                                                     *)

\* A batch was predicted with the topology of epoch e for all its records; a
\* response names a shard that has owned its anchor at e or later.
Predicted(b, e) ==
    /\ b.key \in Topology[e] /\ b.lead \in b.recs
    /\ \A r \in b.recs : InRange(HashOf[r], b.key) /\ at[r] = "sent"
    /\ b.actual # NoShard =>
           /\ InRange(HashOf[b.lead], b.actual)
           /\ \A r \in b.recs : b.actual \in copies[r]
           /\ \E k \in e .. epoch : b.actual \in Topology[k]

\* e is the epoch of the map's only snapshot.
RoutedBy(e) ==
    /\ starting = "returned" => listed = Topology[e]
    /\ \A r \in Record : at[r] # "new" => /\ starting = "returned" /\ key[r] \in Topology[e]
                                          /\ InRange(HashOf[r], key[r])
    /\ \A b \in batches : starting = "returned" /\ Predicted(b, e)

\* A record is in one batch at a time, and is attempted while its TTL lasts.
BatchInv ==
    /\ \A b, d \in batches : \A r \in b.recs : r \in d.recs => b = d
    /\ \A r \in Record : at[r] # "failure" => attempts[r] <= MaxAttempts

RouteInv ==
    /\ MapInv /\ OpenMap /\ RoutingTypeOK
    /\ \E e \in 1 .. epoch : RoutedBy(e)
    /\ BatchInv
    /\ SuccessOnRightShard

\* Kinesis answers with another shard than the predicted one: the map does not
\* know that one, so invalidate returns at once.
LEMMA MismatchUnknown ==
    ASSUME RouteInv, NEW b \in batches, b.actual # NoShard, b.actual # b.key
    PROVE  /\ b.actual \notin known /\ ~Worthwhile(b.actual)
           /\ b.key \notin Topology[epoch]
<1>1. PICK e \in 1 .. epoch : RoutedBy(e)
  BY DEF RouteInv
<1>2. Predicted(b, e) /\ starting = "returned" /\ listed = Topology[e]
  BY <1>1 DEF RoutedBy
<1>3. epoch \in DOMAIN Topology /\ DOMAIN Topology = 1 .. Len(Topology) /\ Len(Topology) \in Nat
  BY History DEF RouteInv, MapInv, MapTypeOK
<1>4. /\ HashOf[b.lead] \in Hash
      /\ InRange(HashOf[b.lead], b.key) /\ InRange(HashOf[b.lead], b.actual)
  <2>1. b.lead \in Record
    BY DEF RouteInv, RoutingTypeOK, Batch
  <2>2. HashOf[b.lead] \in Hash
    BY <2>1, RoutingAssumption
  <2>3. QED
    BY <1>2, <2>2 DEF Predicted
<1>5. \A k \in DOMAIN Topology : ~(b.key \in Topology[k] /\ b.actual \in Topology[k])
  BY <1>4, Tiling
<1>6. b.actual \notin known
  <2>1. known = Topology[e] /\ e \in DOMAIN Topology
    BY <1>2, <1>3 DEF RouteInv, OpenMap
  <2>2. QED
    BY <1>2, <1>5, <2>1 DEF Predicted
<1>7. ASSUME b.key \in Topology[epoch] PROVE FALSE
  <2>1. PICK k \in e .. epoch : b.actual \in Topology[k]
    BY <1>2 DEF Predicted
  <2>2. k \in DOMAIN Topology /\ e \in DOMAIN Topology
    BY <1>3
  <2>3. b.key \in Topology[e]
    BY <1>2 DEF Predicted
  <2>4. b.key \in Topology[k]
    BY <1>3, <1>7, <2>2, <2>3, NotReused
  <2>5. QED
    BY <1>5, <2>1, <2>2, <2>4
<1>8. QED
  BY <1>6, <1>7 DEF Worthwhile

\* The verdicts on the records of a batch.
LEMMA RetryFacts ==
    ASSUME RoutingTypeOK, NEW F \in SUBSET Record, NEW done \in SUBSET Record, Retry(F, done),
           F \cap done = {}, \A r \in F : attempts[r] <= MaxAttempts
    PROVE  /\ at' \in [Record -> {"new", "buffered", "sent", "retried", "success", "failure"}]
           /\ attempts' \in [Record -> 0 .. (MaxAttempts + 1)]
           /\ \A r \in Record :
                  /\ r \notin F \cup done => at'[r] = at[r] /\ attempts'[r] = attempts[r]
                  /\ r \in F => /\ at'[r] \in {"retried", "failure"}
                                /\ at'[r] = "retried" => attempts'[r] <= MaxAttempts
                  /\ r \in done => at'[r] = "success" /\ attempts'[r] = attempts[r]
<1>1. PICK expired \in SUBSET F :
          /\ \A r \in F \ expired : attempts[r] < MaxAttempts
          /\ attempts' = [r \in Record |-> IF r \in F THEN attempts[r] + 1 ELSE attempts[r]]
          /\ at' = [r \in Record |-> CASE r \in done        -> "success"
                                       [] r \in expired     -> "failure"
                                       [] r \in F \ expired -> "retried"
                                       [] OTHER             -> at[r]]
  BY DEF Retry
<1>2. MaxAttempts \in Nat /\ \A r \in Record : attempts[r] \in 0 .. (MaxAttempts + 1)
  BY RoutingAssumption DEF RoutingTypeOK
<1>3. ASSUME NEW r \in Record
      PROVE  /\ at'[r] = IF r \in done THEN "success"
                         ELSE IF r \in expired THEN "failure"
                         ELSE IF r \in F THEN "retried" ELSE at[r]
             /\ attempts'[r] = IF r \in F THEN attempts[r] + 1 ELSE attempts[r]
  <2>1. at'[r] = CASE r \in done        -> "success"
                   [] r \in expired     -> "failure"
                   [] r \in F \ expired -> "retried"
                   [] OTHER             -> at[r]
    BY <1>1
  <2>2. CASE r \in done
    BY <1>1, <2>1, <2>2
  <2>3. CASE r \in expired
    BY <1>1, <2>1, <2>3
  <2>4. CASE r \in F \ expired
    BY <1>1, <2>1, <2>4
  <2>5. CASE r \notin F \cup done
    BY <1>1, <2>1, <2>5
  <2>6. QED
    BY <2>2, <2>3, <2>4, <2>5
<1>4. ASSUME NEW r \in Record
      PROVE  /\ at'[r] \in {"new", "buffered", "sent", "retried", "success", "failure"}
             /\ attempts'[r] \in 0 .. (MaxAttempts + 1)
             /\ r \notin F \cup done => at'[r] = at[r] /\ attempts'[r] = attempts[r]
             /\ r \in F => /\ at'[r] \in {"retried", "failure"}
                           /\ at'[r] = "retried" => attempts'[r] <= MaxAttempts
             /\ r \in done => at'[r] = "success" /\ attempts'[r] = attempts[r]
  <2>1. CASE r \in F
    <3>1. attempts[r] <= MaxAttempts /\ (r \notin expired => attempts[r] < MaxAttempts)
      BY <1>1, <2>1
    <3>2. QED
      BY <1>2, <1>3, <2>1, <3>1
  <2>2. CASE r \notin F
    BY <1>1, <1>2, <1>3, <2>2 DEF RoutingTypeOK
  <2>3. QED
    BY <2>1, <2>2
<1>5. DOMAIN at' = Record /\ at' = [r \in Record |-> at'[r]]
      /\ attempts' = [r \in Record |-> attempts'[r]]
  BY <1>1
<1>6. QED
  BY <1>4, <1>5
-----------------------------------------------------------------------------
(* The steps                                                               *)

\* Every step of the composition is a step of the map: HandleSuccess calls
\* invalidate, everything else leaves the map alone.
LEMMA MapStepOf ==
    ASSUME RouteInv, [RoutingNext]_allVars
    PROVE  [MapNext]_mapVars
<1>1. CASE MapStep
  BY <1>1 DEF MapNext
<1>2. CASE (\E r \in Record : PutBuffered(r)) \/ CloseBatch \/ UNCHANGED allVars
  BY <1>2 DEF PutBuffered, CloseBatch, allVars
<1>3. ASSUME NEW b \in batches, Store(b) \/ Reject(b) PROVE UNCHANGED mapVars
  BY <1>3 DEF Store, Reject
<1>4. ASSUME NEW b \in batches, HandleSuccess(b) PROVE MapNext \/ UNCHANGED mapVars
  <2>1. /\ asking[b.lead] = Never
        /\ asking' = IF b.key \notin {NoShard, b.actual} /\ Worthwhile(b.actual)
                     THEN [asking EXCEPT ![b.lead] = now] ELSE asking
        /\ UNCHANGED <<stream, snap, backoff, refresh, starting, cleanup, closed>>
        /\ b.actual # NoShard
    BY <1>4 DEF HandleSuccess
  <2>2. b.lead \in Invalidator /\ b.actual \in Shard
    BY <2>1 DEF RouteInv, RoutingTypeOK, Batch, Record
  <2>3. CASE b.key \notin {NoShard, b.actual} /\ Worthwhile(b.actual)
    <3>1. InvalidateGuards(b.lead, b.actual)
      BY <2>1, <2>3 DEF InvalidateGuards
    <3>2. QED
      BY <2>2, <3>1 DEF MapNext
  <2>4. CASE ~(b.key \notin {NoShard, b.actual} /\ Worthwhile(b.actual))
    BY <2>1, <2>4 DEF mapVars
  <2>5. QED
    BY <2>3, <2>4
<1>5. QED
  BY <1>1, <1>2, <1>3, <1>4 DEF RoutingNext, Handling

\* A step that leaves the map as it is, and the records that are routed by e.
LEMMA SameMap ==
    ASSUME MapInv, OpenMap, UNCHANGED mapVars
    PROVE  MapInv' /\ OpenMap' /\ UNCHANGED <<epoch, starting, listed>>
<1>1. UNCHANGED <<epoch, now, listed, known, closedAt, updatedAt, state, backoff, refresh,
                  starting, asking, cleanup, closed>>
  BY DEF mapVars, stream, snap
<1>2. QED
  BY <1>1 DEF MapInv, OpenMap, MapTypeOK, SnapAt

\* The steps of the map leave the routing invariant intact.
LEMMA MapStepRoutes ==
    ASSUME RouteInv, MapStep, UNCHANGED routeVars
    PROVE  RouteInv'
<1>1. UNCHANGED <<at, key, batches, attempts, reported, copies>>
  BY DEF routeVars
<1>2. MapInv'
  BY MapInvStep DEF RouteInv, MapNext
<1>3. /\ OpenMap' /\ epoch <= epoch'
      /\ starting = "returned" => UNCHANGED <<starting, listed>>
      /\ starting' = "returned" /\ starting # "returned"
             => \E g \in 1 .. epoch' : listed' = Topology[g]
  BY OpenMapStep DEF RouteInv
<1>4. RoutingTypeOK' /\ BatchInv' /\ SuccessOnRightShard'
  BY <1>1 DEF RouteInv, RoutingTypeOK, BatchInv, SuccessOnRightShard
<1>5. PICK e \in 1 .. epoch : RoutedBy(e)
  BY DEF RouteInv
<1>6. epoch \in Nat /\ epoch' \in Nat
  BY <1>2, History DEF RouteInv, MapInv, MapTypeOK
<1>7. CASE starting = "returned"
  <2>1. \A b \in batches : Predicted(b, e)'
    BY <1>1, <1>3, <1>5, <1>6 DEF RoutedBy, Predicted
  <2>2. RoutedBy(e)'
    BY <1>1, <1>3, <1>5, <1>7, <2>1 DEF RoutedBy
  <2>3. e \in 1 .. epoch'
    BY <1>3, <1>6
  <2>4. QED
    BY <1>2, <1>3, <1>4, <2>2, <2>3 DEF RouteInv
<1>8. CASE starting # "returned"
  <2>1. batches = {} /\ \A r \in Record : at[r] = "new"
    BY <1>5, <1>8 DEF RoutedBy
  <2>2. PICK g \in 1 .. epoch' : starting' = "returned" => listed' = Topology[g]
    BY <1>3, <1>5, <1>6, <1>8
  <2>3. RoutedBy(g)'
    BY <1>1, <2>1, <2>2 DEF RoutedBy
  <2>4. QED
    BY <1>2, <1>3, <1>4, <2>3 DEF RouteInv
<1>9. QED
  BY <1>7, <1>8

\* A put leaves the routing invariant intact.
LEMMA PutRoutes ==
    ASSUME RouteInv, NEW r \in Record, PutBuffered(r)
    PROVE  RouteInv'
<1>0. /\ at[r] \in {"new", "retried"} /\ starting = "returned"
      /\ at' = [at EXCEPT ![r] = "buffered"]
      /\ key' = [key EXCEPT ![r] = IF Predict(HashOf[r]) = {} THEN NoShard
                                   ELSE CHOOSE s \in Predict(HashOf[r]) : TRUE]
      /\ UNCHANGED <<batches, attempts, reported, copies>> /\ UNCHANGED mapVars
  BY DEF PutBuffered
<1>1. MapInv' /\ OpenMap' /\ UNCHANGED <<epoch, starting, listed>>
  BY <1>0, SameMap DEF RouteInv
<1>2. PICK e \in 1 .. epoch : RoutedBy(e)
  BY DEF RouteInv
<1>3. e \in DOMAIN Topology /\ HashOf[r] \in Hash /\ listed = Topology[e] /\ state = "READY"
  BY <1>0, <1>2, History, RoutingAssumption DEF RouteInv, MapInv, MapTypeOK, RoutedBy, OpenMap
<1>4. /\ Predict(HashOf[r]) = {s \in Topology[e] : InRange(HashOf[r], s)}
      /\ Predict(HashOf[r]) # {}
  BY <1>3, OwnerEndsFirst, Tiling
<1>5. PICK s \in Topology[e] : InRange(HashOf[r], s) /\ key' = [key EXCEPT ![r] = s]
  <2> DEFINE s == CHOOSE s \in Predict(HashOf[r]) : TRUE
  <2>1. s \in Predict(HashOf[r])
    BY <1>4
  <2>2. key' = [key EXCEPT ![r] = s]
    BY <1>0, <1>4
  <2>3. QED
    BY <1>4, <2>1, <2>2
<1>6. s \in Shard
  BY <1>3, <1>5, History
<1>7. RoutingTypeOK'
  BY <1>0, <1>5, <1>6 DEF RouteInv, RoutingTypeOK
<1>8. \A b \in batches : r \notin b.recs
  BY <1>0, <1>2 DEF RoutedBy, Predicted
<1>9. at \in [Record -> {"new", "buffered", "sent", "retried", "success", "failure"}]
      /\ key \in [Record -> Shard \cup {NoShard}]
  BY DEF RouteInv, RoutingTypeOK
<1>10. \A b \in batches : Predicted(b, e)'
  <2> SUFFICES ASSUME NEW b \in batches PROVE Predicted(b, e)'
    OBVIOUS
  <2>1. Predicted(b, e) /\ \A p \in b.recs : at'[p] = at[p]
    <3>1. b.recs \subseteq Record
      BY DEF RouteInv, RoutingTypeOK, Batch
    <3>2. QED
      BY <1>0, <1>2, <1>8, <1>9, <3>1 DEF RoutedBy
  <2>2. QED
    BY <1>0, <1>1, <2>1 DEF Predicted
<1>11. RoutedBy(e)'
  BY <1>0, <1>1, <1>2, <1>5, <1>9, <1>10 DEF RoutedBy
<1>12. BatchInv' /\ SuccessOnRightShard'
  BY <1>0, <1>9 DEF RouteInv, BatchInv, SuccessOnRightShard
<1>13. QED
  BY <1>1, <1>7, <1>11, <1>12 DEF RouteInv

\* So does closing a batch.
LEMMA CloseRoutes ==
    ASSUME RouteInv, CloseBatch
    PROVE  RouteInv'
<1>a. PICK s \in Shard \cup {NoShard} :
       \E C \in (SUBSET {r \in Record : at[r] = "buffered" /\ key[r] = s}) \ {{}} :
       \E lead \in C :
           /\ batches' = batches \cup {[key |-> s, recs |-> C, lead |-> lead, actual |-> NoShard]}
           /\ at' = [r \in Record |-> IF r \in C THEN "sent" ELSE at[r]]
  BY DEF CloseBatch
<1>b. PICK C \in (SUBSET {r \in Record : at[r] = "buffered" /\ key[r] = s}) \ {{}} :
       \E lead \in C :
           /\ batches' = batches \cup {[key |-> s, recs |-> C, lead |-> lead, actual |-> NoShard]}
           /\ at' = [r \in Record |-> IF r \in C THEN "sent" ELSE at[r]]
  BY <1>a
<1>c. PICK lead \in C :
           /\ batches' = batches \cup {[key |-> s, recs |-> C, lead |-> lead, actual |-> NoShard]}
           /\ at' = [r \in Record |-> IF r \in C THEN "sent" ELSE at[r]]
  BY <1>b
<1> DEFINE n == [key |-> s, recs |-> C, lead |-> lead, actual |-> NoShard]
<1>0. /\ UNCHANGED <<key, attempts, reported, copies>> /\ UNCHANGED mapVars
      /\ batches' = batches \cup {n}
      /\ n.key = s /\ n.recs = C /\ n.lead = lead /\ n.actual = NoShard
      /\ n \in Batch
  BY <1>c DEF CloseBatch, Batch
<1> HIDE DEF n
<1>1. MapInv' /\ OpenMap' /\ UNCHANGED <<epoch, starting, listed>>
  BY <1>0, SameMap DEF RouteInv
<1>2. PICK e \in 1 .. epoch : RoutedBy(e)
  BY DEF RouteInv
<1>3. \A r \in C : r \in Record /\ at[r] = "buffered" /\ key[r] = s
  OBVIOUS
<1>4. /\ starting = "returned" /\ s \in Topology[e]
      /\ \A r \in C : InRange(HashOf[r], s)
  BY <1>2, <1>3 DEF RoutedBy
<1>5. RoutingTypeOK'
  BY <1>0, <1>c DEF RouteInv, RoutingTypeOK
<1>6. \A b \in batches : \A r \in b.recs : r \notin C /\ r \in Record /\ at'[r] = at[r]
  <2>1. \A b \in batches : \A r \in b.recs : at[r] = "sent" /\ r \in Record
    BY <1>2 DEF RoutedBy, Predicted, RouteInv, RoutingTypeOK, Batch
  <2>2. QED
    BY <1>3, <1>c, <2>1
<1>7. \A b \in batches : Predicted(b, e)'
  BY <1>0, <1>1, <1>2, <1>6 DEF RoutedBy, Predicted
<1>8. Predicted(n, e)'
  BY <1>0, <1>3, <1>4, <1>c DEF Predicted
<1>9. RoutedBy(e)'
  <2>1. \A b \in batches' : Predicted(b, e)'
    BY <1>0, <1>7, <1>8
  <2>2. QED
    BY <1>0, <1>1, <1>2, <1>3, <1>4, <1>c, <2>1 DEF RoutedBy
<1>10. BatchInv'
  <2>1. \A b, d \in batches' : \A r \in b.recs : r \in d.recs => b = d
    BY <1>0, <1>6 DEF RouteInv, BatchInv
  <2>2. \A r \in Record : at'[r] # "failure" => attempts'[r] <= MaxAttempts
    BY <1>0, <1>3, <1>c DEF RouteInv, BatchInv
  <2>3. QED
    BY <2>1, <2>2 DEF BatchInv
<1>11. SuccessOnRightShard'
  BY <1>0, <1>c DEF RouteInv, SuccessOnRightShard
<1>12. QED
  BY <1>1, <1>5, <1>9, <1>10, <1>11 DEF RouteInv
\* So does storing a batch.
LEMMA StoreRoutes ==
    ASSUME RouteInv, NEW b \in batches, Store(b)
    PROVE  RouteInv'
<1>1. PICK s \in Topology[epoch] :
           /\ InRange(HashOf[b.lead], s)
           /\ batches' = (batches \ {b}) \cup {[b EXCEPT !.actual = s]}
           /\ copies' = [r \in Record |-> copies[r] \cup (IF r \in b.recs THEN {s} ELSE {})]
  BY DEF Store, Anchor
<1> DEFINE n == [b EXCEPT !.actual = s]
<1>2. b \in Batch /\ epoch \in DOMAIN Topology /\ epoch \in Nat /\ s \in Shard
  BY History DEF RouteInv, RoutingTypeOK, MapInv, MapTypeOK
<1>3. /\ n \in Batch /\ n.key = b.key /\ n.recs = b.recs /\ n.lead = b.lead /\ n.actual = s
      /\ b.recs \subseteq Record
  BY <1>2 DEF Batch
<1>4. /\ batches' = (batches \ {b}) \cup {n} /\ UNCHANGED <<at, key, attempts, reported>>
      /\ UNCHANGED mapVars
  BY <1>1 DEF Store
<1> HIDE DEF n
<1>5. MapInv' /\ OpenMap' /\ UNCHANGED <<epoch, starting, listed>>
  BY <1>4, SameMap DEF RouteInv
<1>6. PICK e \in 1 .. epoch : RoutedBy(e)
  BY DEF RouteInv
<1>7. copies \in [Record -> SUBSET Shard] /\ copies' \in [Record -> SUBSET Shard]
      /\ \A r \in Record : copies[r] \subseteq copies'[r] /\ (r \in b.recs => s \in copies'[r])
  BY <1>1, <1>2 DEF RouteInv, RoutingTypeOK
<1>8. RoutingTypeOK'
  BY <1>3, <1>4, <1>7 DEF RouteInv, RoutingTypeOK
<1>9. \A d \in batches : Predicted(d, e)'
  <2> SUFFICES ASSUME NEW d \in batches PROVE Predicted(d, e)'
    OBVIOUS
  <2>1. Predicted(d, e) /\ d.recs \subseteq Record
    BY <1>6 DEF RoutedBy, RouteInv, RoutingTypeOK, Batch
  <2>2. QED
    BY <1>4, <1>5, <1>7, <2>1 DEF Predicted
<1>10. Predicted(n, e)'
  <2>1. Predicted(b, e)
    BY <1>6 DEF RoutedBy
  <2>2. epoch' \in e .. epoch' /\ s \in Topology[epoch']
    BY <1>2, <1>5
  <2>3. QED
    BY <1>1, <1>3, <1>4, <1>7, <2>1, <2>2 DEF Predicted
<1>11. RoutedBy(e)'
  <2>1. starting = "returned"
    BY <1>6 DEF RoutedBy
  <2>2. \A d \in batches' : Predicted(d, e)'
    BY <1>4, <1>9, <1>10
  <2>3. QED
    BY <1>4, <1>5, <1>6, <2>1, <2>2 DEF RoutedBy
<1>12. BatchInv'
  <2>1. \A d, f \in batches' : \A r \in d.recs : r \in f.recs => d = f
    BY <1>3, <1>4 DEF RouteInv, BatchInv
  <2>2. QED
    BY <1>4, <2>1 DEF RouteInv, BatchInv
<1>13. SuccessOnRightShard'
  BY <1>4, <1>7 DEF RouteInv, SuccessOnRightShard
<1>14. QED
  BY <1>5, <1>8, <1>11, <1>12, <1>13 DEF RouteInv

\* A batch is gone and its records have their verdicts: those in done succeed.
LEMMA VerdictRoutes ==
    ASSUME RouteInv, NEW b \in batches, NEW done \in SUBSET b.recs,
           Retry(b.recs \ done, done), batches' = batches \ {b}, UNCHANGED <<key, copies>>,
           reported' = [r \in Record |-> IF r \in done THEN b.actual ELSE reported[r]],
           done # {} => b.actual # NoShard,
           \A r \in done : InRange(HashOf[r], b.actual),
           MapInv', OpenMap', UNCHANGED <<epoch, starting, listed>>
    PROVE  RouteInv'
<1>1. PICK e \in 1 .. epoch : RoutedBy(e)
  BY DEF RouteInv
<1>2. /\ b.recs \subseteq Record /\ b.actual \in Shard \cup {NoShard}
      /\ starting = "returned" /\ Predicted(b, e)
  BY <1>1 DEF RoutedBy, RouteInv, RoutingTypeOK, Batch
<1>3. \A r \in b.recs : attempts[r] <= MaxAttempts
  BY <1>2 DEF Predicted, RouteInv, BatchInv
<1> DEFINE F == b.recs \ done
<1>4. F \in SUBSET Record /\ done \in SUBSET Record /\ F \cap done = {}
      /\ RoutingTypeOK /\ \A r \in F : attempts[r] <= MaxAttempts
  BY <1>2, <1>3 DEF RouteInv
<1>5. /\ at' \in [Record -> {"new", "buffered", "sent", "retried", "success", "failure"}]
      /\ attempts' \in [Record -> 0 .. (MaxAttempts + 1)]
      /\ \A r \in Record :
             /\ r \notin F \cup done => at'[r] = at[r] /\ attempts'[r] = attempts[r]
             /\ r \in F => /\ at'[r] \in {"retried", "failure"}
                           /\ at'[r] = "retried" => attempts'[r] <= MaxAttempts
             /\ r \in done => at'[r] = "success" /\ attempts'[r] = attempts[r]
  <2> HIDE DEF F
  <2>1. Retry(F, done)
    BY DEF F
  <2>2. QED
    BY <1>4, <2>1, RetryFacts
<1>6. F \cup done = b.recs
  OBVIOUS
<1>7. reported' \in [Record -> Shard \cup {NoShard}]
  BY <1>2 DEF RouteInv, RoutingTypeOK
<1>8. RoutingTypeOK'
  BY <1>5, <1>7 DEF RouteInv, RoutingTypeOK
<1> HIDE DEF F
<1>9. \A d \in batches' : d \in batches /\ \A r \in d.recs : r \in Record /\ at'[r] = at[r]
  <2>1. \A d \in batches : d.recs \subseteq Record
    BY DEF RouteInv, RoutingTypeOK, Batch
  <2>2. \A d \in batches' : d \in batches /\ \A r \in d.recs : r \notin b.recs
    BY DEF RouteInv, BatchInv
  <2>3. QED
    BY <1>5, <1>6, <2>1, <2>2
<1>10. RoutedBy(e)'
  <2>1. \A d \in batches' : Predicted(d, e)'
    BY <1>1, <1>9 DEF RoutedBy, Predicted
  <2>2. \A r \in Record : at'[r] # "new" => at[r] # "new"
    BY <1>2, <1>5, <1>6 DEF Predicted
  <2>3. QED
    BY <1>1, <1>2, <2>1, <2>2 DEF RoutedBy
<1>11. BatchInv'
  <2>1. \A d, f \in batches' : \A r \in d.recs : r \in f.recs => d = f
    BY DEF RouteInv, BatchInv
  <2>2. ASSUME NEW r \in Record, at'[r] # "failure" PROVE attempts'[r] <= MaxAttempts
    <3>1. CASE r \in F
      BY <1>5, <2>2, <3>1
    <3>2. CASE r \in done
      BY <1>3, <1>5, <3>2
    <3>3. CASE r \notin F \cup done
      BY <1>5, <2>2, <3>3 DEF RouteInv, BatchInv
    <3>4. QED
      BY <3>1, <3>2, <3>3
  <2>3. QED
    BY <2>1, <2>2 DEF BatchInv
<1>12. SuccessOnRightShard'
  <2> SUFFICES ASSUME NEW r \in Record, at'[r] = "success"
               PROVE  reported'[r] \in copies[r] /\ InRange(HashOf[r], reported'[r])
    BY DEF SuccessOnRightShard
  <2>1. CASE r \in done
    <3>1. reported'[r] = b.actual /\ b.actual # NoShard /\ r \in b.recs
      BY <2>1
    <3>2. b.actual \in copies[r]
      BY <1>2, <3>1 DEF Predicted
    <3>3. QED
      BY <2>1, <3>1, <3>2
  <2>2. CASE r \notin done
    <3>1. reported'[r] = reported[r] /\ at[r] = "success"
      BY <1>5, <2>2
    <3>2. QED
      BY <3>1 DEF RouteInv, SuccessOnRightShard
  <2>3. QED
    BY <2>1, <2>2
<1>13. QED
  BY <1>8, <1>10, <1>11, <1>12 DEF RouteInv

\* So does a batch that is rejected.
LEMMA RejectRoutes ==
    ASSUME RouteInv, NEW b \in batches, Reject(b)
    PROVE  RouteInv'
<1> DEFINE done == {}
<1>1. /\ Retry(b.recs, {}) /\ batches' = batches \ {b} /\ UNCHANGED mapVars
      /\ UNCHANGED <<key, reported, copies>>
  BY DEF Reject
<1>2. b.recs \ done = b.recs /\ done \in SUBSET b.recs
  OBVIOUS
<1>3. Retry(b.recs \ done, done)
  BY <1>1, <1>2
<1>4. reported' = [r \in Record |-> IF r \in done THEN b.actual ELSE reported[r]]
  BY <1>1 DEF RouteInv, RoutingTypeOK
<1>5. \A r : r \notin done
  OBVIOUS
<1>6. MapInv' /\ OpenMap' /\ UNCHANGED <<epoch, starting, listed>>
  BY <1>1, SameMap DEF RouteInv
<1> HIDE DEF done
<1>7. QED
  BY <1>1, <1>2, <1>3, <1>4, <1>5, <1>6, VerdictRoutes

\* An accepted record lies in the range of the shard that holds it; and the
\* call of invalidate is refused.
LEMMA SuccessRoutes ==
    ASSUME RouteInv, NEW b \in batches, HandleSuccess(b)
    PROVE  RouteInv'
<1> DEFINE done == Accepted(b)
<1>1. /\ b.actual # NoShard /\ Retry(b.recs \ done, done) /\ batches' = batches \ {b}
      /\ reported' = [r \in Record |-> IF r \in done THEN b.actual ELSE reported[r]]
      /\ UNCHANGED <<key, copies>>
  BY DEF HandleSuccess
<1>2. PICK e \in 1 .. epoch : RoutedBy(e)
  BY DEF RouteInv
<1>3. Predicted(b, e) /\ e \in DOMAIN Topology /\ b.key # NoShard
  <2>1. Predicted(b, e) /\ e \in DOMAIN Topology
    BY <1>2, History DEF RoutedBy, RouteInv, MapInv, MapTypeOK
  <2>2. b.key \in Shard
    BY <2>1, History DEF Predicted
  <2>3. QED
    BY <2>1, <2>2, RoutingAssumption
<1>4. done \in SUBSET b.recs /\ \A r \in done : InRange(HashOf[r], b.actual)
  BY <1>3 DEF Accepted, InKnownRange, Predicted
<1>5. UNCHANGED mapVars
  <2>1. ~(b.key \notin {NoShard, b.actual} /\ Worthwhile(b.actual))
    BY <1>1, MismatchUnknown
  <2>2. QED
    BY <2>1 DEF HandleSuccess, mapVars
<1>6. MapInv' /\ OpenMap' /\ UNCHANGED <<epoch, starting, listed>>
  BY <1>5, SameMap DEF RouteInv
<1> HIDE DEF done
<1>7. QED
  BY <1>1, <1>4, <1>6, VerdictRoutes

\* Every step keeps the invariant.
LEMMA RouteInvStep == RouteInv /\ [RoutingNext]_allVars => RouteInv'
<1> SUFFICES ASSUME RouteInv, [RoutingNext]_allVars PROVE RouteInv'
  OBVIOUS
<1>1. CASE UNCHANGED allVars
  <2>1. UNCHANGED <<at, key, batches, attempts, reported, copies>> /\ UNCHANGED mapVars
    BY <1>1 DEF allVars, routeVars
  <2>2. MapInv' /\ OpenMap' /\ UNCHANGED <<epoch, starting, listed>>
    BY <2>1, SameMap DEF RouteInv
  <2>3. QED
    BY <2>1, <2>2 DEF RouteInv, RoutingTypeOK, RoutedBy, Predicted, BatchInv, SuccessOnRightShard
<1>2. QED
  BY <1>1, MapStepRoutes, PutRoutes, CloseRoutes, StoreRoutes, RejectRoutes, SuccessRoutes
     DEF RoutingNext, Handling

\* Routing starts in the invariant.
LEMMA RouteInvInit == RoutingInit => RouteInv
<1> SUFFICES ASSUME RoutingInit PROVE RouteInv
  OBVIOUS
<1>1. MapInv
  BY MapInvInit DEF RoutingInit
<1>2. OpenMap
  BY DEF RoutingInit, MapInit, OpenMap
<1>3. RoutingTypeOK
  BY RoutingAssumption DEF RoutingInit, RoutingTypeOK
<1>4. RoutedBy(1) /\ 1 \in 1 .. epoch
  BY DEF RoutingInit, MapInit, RoutedBy
<1>5. BatchInv /\ SuccessOnRightShard
  BY RoutingAssumption DEF RoutingInit, BatchInv, SuccessOnRightShard
<1>6. QED
  BY <1>1, <1>2, <1>3, <1>4, <1>5 DEF RouteInv

\* The invariant holds throughout.
LEMMA RouteInductive == RoutingSpec => []RouteInv
BY RouteInvInit, RouteInvStep, PTL DEF RoutingSpec

-----------------------------------------------------------------------------
(* The theorems                                                            *)

\* The composition uses the map as module ShardMap allows: whatever is proved
\* of MapSpec holds of the map of a routing pipeline.
THEOREM RoutingImplementsMap == RoutingSpec => MapSpec
<1>1. RoutingInit => MapInit
  BY DEF RoutingInit
<1>2. RouteInv /\ [RoutingNext]_allVars => [MapNext]_mapVars
  BY MapStepOf
<1>3. QED
  BY <1>1, <1>2, RouteInductive, PTL DEF RoutingSpec, MapSpec

\* The routing state keeps its types: the attempts of a record end with its
\* TTL.
THEOREM RoutingTypes == RoutingSpec => []RoutingTypeOK
<1>1. RouteInv => RoutingTypeOK
  BY DEF RouteInv
<1>2. QED
  BY <1>1, RouteInductive, PTL

\* _handle_success reports only records that the named shard holds and whose
\* hash key lies in its range, whatever was resharded meanwhile.
THEOREM RightShard == RoutingSpec => []SuccessOnRightShard
<1>1. RouteInv => SuccessOnRightShard
  BY DEF RouteInv
<1>2. QED
  BY <1>1, RouteInductive, PTL

\* An answer from another shard than predicted means that the predicted shard
\* has been closed.
THEOREM MismatchIsReshard == RoutingSpec => []MismatchMeansResharded
<1>1. RouteInv => MismatchMeansResharded
  BY MismatchUnknown DEF MismatchMeansResharded
<1>2. QED
  BY <1>1, RouteInductive, PTL

\* The guards of invalidate refuse every call the retrier makes, so the map
\* that start() installed is never refreshed.
NeverRefreshed ==
    [][/\ asking' = asking
       /\ starting = "returned" => UNCHANGED <<listed, known, refresh>>]_allVars

\* The retrier calls invalidate with the shard that answered, which the map
\* cannot know when it differs from the predicted one: for every stream and
\* every history, a resharding does not reach the map.
THEOREM MapNeverRefreshed == RoutingSpec => NeverRefreshed
<1>1. RouteInv /\ RouteInv' /\ [RoutingNext]_allVars =>
          [/\ asking' = asking
           /\ starting = "returned" => UNCHANGED <<listed, known, refresh>>]_allVars
  <2> SUFFICES ASSUME RouteInv, RouteInv', RoutingNext
               PROVE  /\ asking' = asking
                      /\ starting = "returned" => UNCHANGED <<listed, known, refresh>>
    OBVIOUS
  <2>1. asking' = asking
    <3>1. /\ \A c \in Invalidator : asking[c] = Never /\ asking'[c] = Never
          /\ \E S, T : asking \in [Invalidator -> S] /\ asking' \in [Invalidator -> T]
      BY DEF RouteInv, OpenMap, MapInv, MapTypeOK
    <3>2. QED
      BY <3>1
  <2>2. ASSUME starting = "returned" PROVE UNCHANGED <<listed, known, refresh>>
    <3>1. state = "READY" /\ known = listed /\ known' = listed' /\ refresh = NoRefresh
      BY <2>2 DEF RouteInv, OpenMap, MapInv
    <3>2. CASE MapStep
      <4>1. starting' = starting /\ listed' = listed
        BY <2>2, <3>2, OpenMapStep DEF RouteInv
      <4>2. state' = "READY" /\ refresh' = NoRefresh
        BY <2>2, <4>1 DEF RouteInv, OpenMap, MapInv
      <4>3. QED
        BY <3>1, <4>1, <4>2
    <3>3. CASE \/ \E r \in Record : PutBuffered(r)
               \/ CloseBatch \/ Handling
      BY <3>3 DEF PutBuffered, CloseBatch, Handling, Store, Reject, HandleSuccess, mapVars, snap
    <3>4. QED
      BY <3>2, <3>3 DEF RoutingNext
  <2>3. QED
    BY <2>1, <2>2
<1>2. QED
  BY <1>1, RouteInductive, PTL DEF RoutingSpec, NeverRefreshed
=============================================================================
