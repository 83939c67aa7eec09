--------------------------- MODULE ReducerProofs ---------------------------
(***************************************************************************)
(* Proofs about Reducer for any set of items, deadlines, size estimate,    *)
(* predicate and limits.                                                   *)
(***************************************************************************)
EXTENDS Reducer, WellOrder

\* active.deadline is the deadline of some item and a lower bound of all.
LEMMA EarliestDeadlineIsMin ==
    ASSUME NEW S \in SUBSET Item, S # {}
    PROVE  /\ EarliestDeadline(S) \in Nat
           /\ \E i \in S : Deadline[i] = EarliestDeadline(S)
           /\ \A i \in S : EarliestDeadline(S) <= Deadline[i]
<1> DEFINE D == {Deadline[i] : i \in S}
<1>1. D \in SUBSET Nat /\ D # {}
  BY ReducerAssumption
<1>2. \E d \in D : \A i \in S : d <= Deadline[i]
  <2>1. PICK d \in D : \A e \in D : d <= e
    BY <1>1, LeastNat
  <2>2. \A i \in S : Deadline[i] \in D
    OBVIOUS
  <2>3. QED
    BY <2>1, <2>2
<1>3. EarliestDeadline(S) \in D /\ \A i \in S : EarliestDeadline(S) <= Deadline[i]
  BY <1>2 DEF EarliestDeadline
<1>4. QED
  BY <1>1, <1>3

\* A non-empty batch has a first candidate: nothing in it comes before that
\* item, which is therefore packed and has the earliest deadline.
LEMMA FirstCandidate ==
    ASSUME NEW S \in SUBSET Item, S # {}, NEW arr \in [Item -> Nat]
    PROVE  \E i \in S : /\ i \in Packed(S, arr)
                        /\ \A j \in S : Deadline[i] <= Deadline[j]
<1> USE ReducerAssumption
<1> DEFINE E == EarliestDeadline(S)
           T == {i \in S : Deadline[i] = E}
           A == {arr[i] : i \in T}
<1>1. E \in Nat /\ T # {} /\ \A j \in S : E <= Deadline[j]
  BY EarliestDeadlineIsMin
<1>2. A \in SUBSET Nat /\ A # {}
  BY <1>1
<1>3. PICK i \in T : \A j \in T : arr[i] <= arr[j]
  <2>1. PICK m \in A : \A n \in A : m <= n
    BY <1>2, LeastNat
  <2>2. QED
    BY <2>1
<1>4. \A j \in S : ~Before(j, i, arr)
  BY <1>1, <1>3 DEF Before
<1>5. UpTo(i, S, arr) = {i}
  BY <1>4 DEF UpTo
<1>6. QED
  BY <1>1, <1>3, <1>5 DEF Packed

\* Closing a non-empty batch takes some of its items, and none but its items.
LEMMA PackedNonEmpty ==
    ASSUME NEW S \in SUBSET Item, S # {}, NEW arr \in [Item -> Nat]
    PROVE  Packed(S, arr) \in (SUBSET Item) \ {{}} /\ Packed(S, arr) \subseteq S
<1>1. Packed(S, arr) \subseteq S
  BY DEF Packed
<1>2. QED
  BY <1>1, FirstCandidate

-----------------------------------------------------------------------------
(* Type correctness                                                        *)

\* _reschedule_locked keeps the timer state well typed.
LEMMA RescheduleType ==
    ASSUME NEW S \in SUBSET Item, S # {}, NEW base \in SUBSET Timer,
           scopes \in Nat, now \in Nat, Reschedule(S, base)
    PROVE  scope' \in Nat /\ scopes' \in Nat /\ timers' \in SUBSET Timer
<1>1. EarliestDeadline(S) \in Nat
  BY EarliestDeadlineIsMin
<1> DEFINE due == IF EarliestDeadline(S) > now THEN EarliestDeadline(S) ELSE now
           new == [id |-> scopes + 1, due |-> due, awake |-> FALSE]
<1>2. due \in Nat
  BY <1>1
<1>3. new \in Timer
  BY <1>2 DEF Timer
<1>4. scope' = scopes + 1 /\ scopes' = scopes + 1 /\ timers' = base \cup {new}
  BY DEF Reschedule
<1>5. scope' \in Nat /\ scopes' \in Nat
  BY <1>4
<1> HIDE DEF new
<1>6. timers' \in SUBSET Timer
  BY <1>3, <1>4
<1>7. QED
  BY <1>5, <1>6

\* _pack_and_split keeps the state well typed; its batch is never empty.
LEMMA PackAndSplitType ==
    ASSUME NEW S \in SUBSET Item, S # {}, NEW arr \in [Item -> Nat],
           NEW via \in {"add", "flush", "deadline"}, NEW base \in SUBSET Timer,
           TypeOK, PackAndSplit(S, arr, via, base)
    PROVE  /\ active' \in SUBSET Item /\ out' \in Seq(Batch)
           /\ scope' \in Nat /\ scopes' \in Nat /\ timers' \in SUBSET Timer
<1> DEFINE done == Packed(S, arr)
           rest == S \ done
<1>1. done \in (SUBSET Item) \ {{}}
  BY PackedNonEmpty
<1>2. active' = rest /\ out' = Append(out, [items |-> done, via |-> via])
  BY DEF PackAndSplit
<1>3. [items |-> done, via |-> via] \in Batch
  BY <1>1 DEF Batch
<1>4. out' \in Seq(Batch)
  BY <1>2, <1>3 DEF TypeOK
<1>5. scope' \in Nat /\ scopes' \in Nat /\ timers' \in SUBSET Timer
  <2>1. CASE rest = {}
    BY <2>1 DEF PackAndSplit, CancelTimer, NoScope, TypeOK
  <2>2. CASE rest # {}
    <3>1. Reschedule(rest, base)
      BY <2>2 DEF PackAndSplit
    <3>2. QED
      BY <2>2, <3>1, RescheduleType DEF TypeOK
  <2>3. QED
    BY <2>1, <2>2
<1>6. QED
  BY <1>2, <1>4, <1>5

\* Every operation of the reducer and every step of a timer keeps the types.
LEMMA TypeStep == TypeOK /\ [Next]_vars => TypeOK'
<1> SUFFICES ASSUME TypeOK, [Next]_vars PROVE TypeOK'
  OBVIOUS
<1>1. ASSUME NEW i \in Item, Add(i) PROVE TypeOK'
  <2> DEFINE S == active \cup {i}
             arr == [arrival EXCEPT ![i] = arrivals + 1]
  <2>1. S \in SUBSET Item /\ S # {} /\ arr \in [Item -> Nat]
    BY DEF TypeOK
  <2>2. /\ arrival' = arr /\ arrivals' = arrivals + 1
        /\ UNCHANGED <<closed, dropped, now>>
        /\ \/ PackAndSplit(S, arr, "add", timers)
           \/ active' = S /\ Reschedule(S, timers) /\ UNCHANGED out
    BY <1>1 DEF Add
  <2>3. CASE PackAndSplit(S, arr, "add", timers)
    BY <2>1, <2>2, <2>3, PackAndSplitType DEF TypeOK
  <2>4. CASE active' = S /\ Reschedule(S, timers) /\ UNCHANGED out
    BY <2>1, <2>2, <2>4, RescheduleType DEF TypeOK
  <2>5. QED
    BY <2>2, <2>3, <2>4
<1>2. CASE Flush
  <2>1. CASE active = {}
    BY <1>2, <2>1 DEF Flush, TypeOK, CancelTimer, NoScope
  <2>2. CASE active # {}
    <3>1. /\ PackAndSplit(active, arrival, "flush", timers)
          /\ UNCHANGED <<arrival, arrivals, closed, dropped, now>>
      BY <1>2, <2>2 DEF Flush
    <3>2. QED
      BY <2>2, <3>1, PackAndSplitType DEF TypeOK
  <2>3. QED
    BY <2>1, <2>2
<1>3. CASE Aclose
  BY <1>3 DEF Aclose, TypeOK, CancelTimer, NoScope
<1>4. ASSUME NEW t \in timers, TimerWake(t) PROVE TypeOK'
  <2> DEFINE woken == [id |-> t.id, due |-> t.due, awake |-> TRUE]
  <2>1. t \in Timer
    BY DEF TypeOK
  <2>2. woken \in Timer
    BY <2>1 DEF Timer
  <2>3. timers' \subseteq timers \cup {woken}
    BY <1>4 DEF TimerWake
  <2>4. QED
    BY <1>4, <2>2, <2>3 DEF TimerWake, TypeOK
<1>5. ASSUME NEW t \in timers, TimerFire(t) PROVE TypeOK'
  <2>1. CASE closed \/ t.id # scope \/ active = {}
    BY <1>5, <2>1 DEF TimerFire, TypeOK, CancelTimer, NoScope
  <2>2. CASE ~closed /\ t.id = scope /\ active # {}
    <3>1. /\ PackAndSplit(active, arrival, "deadline", timers \ {t})
          /\ UNCHANGED <<arrival, arrivals, closed, dropped, now>>
      BY <1>5, <2>2 DEF TimerFire
    <3>2. timers \ {t} \in SUBSET Timer
      BY DEF TypeOK
    <3>3. QED
      BY <2>2, <3>1, <3>2, PackAndSplitType DEF TypeOK
  <2>3. QED
    BY <2>1, <2>2
<1>6. ASSUME NEW t \in timers, CancelDelivered(t) PROVE TypeOK'
  BY <1>6 DEF CancelDelivered, TypeOK
<1>7. CASE Tick
  BY <1>7 DEF Tick, TypeOK
<1>8. CASE UNCHANGED vars
  BY <1>8 DEF vars, TypeOK
<1>9. QED
  BY <1>1, <1>2, <1>3, <1>4, <1>5, <1>6, <1>7, <1>8 DEF Next

\* Every reachable state is well typed; in particular no closed batch is ever
\* empty, which limiter.py relies on when it takes the minimum over a batch.
THEOREM TypeCorrect == Spec => []TypeOK
<1>1. Init => TypeOK
  <2> SUFFICES ASSUME Init PROVE TypeOK
    OBVIOUS
  <2>1. out \in Seq(Batch) /\ arrival \in [Item -> Nat]
    BY DEF Init
  <2>2. arrivals \in Nat /\ scope \in Nat /\ scopes \in Nat /\ now \in Nat
    BY DEF Init, NoScope
  <2>3. /\ active \in SUBSET Item /\ timers \in SUBSET Timer
        /\ dropped \in SUBSET Item /\ closed \in BOOLEAN
    BY Zenon DEF Init
  <2>4. QED
    BY <2>1, <2>2, <2>3 DEF TypeOK
<1>2. QED
  BY <1>1, TypeStep, PTL DEF Spec

-----------------------------------------------------------------------------
(* Conservation of items                                                   *)

\* Closing the packed part of S, where S is the active batch or the active
\* batch and one new item, moves items from one place to another.
LEMMA CloseConserves ==
    ASSUME TypeOK, Conservation,
           NEW S \in SUBSET Item, S # {}, active \subseteq S,
           (S \ active) \cap Added = {}, Added' = Added \cup S,
           NEW arr \in [Item -> Nat], NEW via, NEW base,
           PackAndSplit(S, arr, via, base), dropped' = dropped
    PROVE  Conservation'
<1> DEFINE done == Packed(S, arr)
           n == Len(out) + 1
<1>1. done \subseteq S
  BY PackedNonEmpty
<1>2. /\ out' = Append(out, [items |-> done, via |-> via])
      /\ active' = S \ done
  BY DEF PackAndSplit
<1>3. out \in Seq(Batch)
  BY DEF TypeOK
<1>4. /\ DOMAIN out' = DOMAIN out \cup {n}
      /\ n \notin DOMAIN out
      /\ \A k \in DOMAIN out : out'[k] = out[k]
      /\ out'[n] = [items |-> done, via |-> via]
  BY <1>2, <1>3
<1>5. out'[n].items = done
  BY <1>4
<1> HIDE DEF done, n
<1>6. /\ S \cap dropped = {}
      /\ \A k \in DOMAIN out : out[k].items \cap S = {}
  BY DEF Conservation
<1>7. Added' = active' \cup dropped' \cup UNION {out'[k].items : k \in DOMAIN out'}
  <2>1. UNION {out'[k].items : k \in DOMAIN out'}
            = done \cup UNION {out[k].items : k \in DOMAIN out}
    BY <1>4, <1>5
  <2>2. QED
    BY <1>1, <1>2, <2>1 DEF Conservation
<1>8. active' \cap dropped' = {}
  BY <1>2, <1>6
<1>9. \A k \in DOMAIN out' : out'[k].items \cap (active' \cup dropped') = {}
  <2>1. done \cap (active' \cup dropped') = {}
    BY <1>1, <1>2, <1>6
  <2>2. \A k \in DOMAIN out : out[k].items \cap (active' \cup dropped') = {}
    BY <1>2, <1>6 DEF Conservation
  <2>3. QED
    BY <1>4, <1>5, <2>1, <2>2
<1>10. \A k, l \in DOMAIN out' : k # l => out'[k].items \cap out'[l].items = {}
  <2>1. \A k \in DOMAIN out : out[k].items \cap done = {}
    BY <1>1, <1>6
  <2>2. QED
    BY <1>4, <1>5, <2>1 DEF Conservation
<1>11. QED
  BY <1>7, <1>8, <1>9, <1>10 DEF Conservation

\* Every step keeps each added item in exactly one place.
LEMMA ConservationStep == TypeOK /\ Conservation /\ [Next]_vars => Conservation'
<1> SUFFICES ASSUME TypeOK, Conservation, [Next]_vars PROVE Conservation'
  OBVIOUS
<1>1. ASSUME NEW i \in Item, Add(i) PROVE Conservation'
  <2> DEFINE S == active \cup {i}
             arr == [arrival EXCEPT ![i] = arrivals + 1]
  <2>1. S \in SUBSET Item /\ S # {} /\ arr \in [Item -> Nat] /\ active \subseteq S
    BY DEF TypeOK
  <2>2. /\ arrival[i] = 0 /\ arrival' = arr /\ dropped' = dropped
        /\ \/ PackAndSplit(S, arr, "add", timers)
           \/ active' = S /\ UNCHANGED out
    BY <1>1 DEF Add
  <2>3. Added' = Added \cup {i} /\ i \notin Added
    BY <2>2 DEF Added, TypeOK
  <2>4. Added' = Added \cup S /\ (S \ active) \cap Added = {}
    BY <2>3 DEF Conservation
  <2>5. CASE PackAndSplit(S, arr, "add", timers)
    BY <2>1, <2>2, <2>4, <2>5, CloseConserves
  <2>6. CASE active' = S /\ UNCHANGED out
    BY <2>2, <2>3, <2>6 DEF Conservation
  <2>7. QED
    BY <2>2, <2>5, <2>6
<1>2. ASSUME active # {}, UNCHANGED <<arrival, dropped>>,
             NEW via, NEW base, PackAndSplit(active, arrival, via, base)
      PROVE  Conservation'
  <2>1. Added' = Added /\ Added = Added \cup active
    BY <1>2 DEF Added, Conservation
  <2>2. QED
    BY <1>2, <2>1, CloseConserves DEF TypeOK
<1>3. ASSUME UNCHANGED <<active, arrival, out, dropped>> PROVE Conservation'
  BY <1>3 DEF Conservation, Added
<1>4. CASE Flush
  BY <1>2, <1>3, <1>4 DEF Flush
<1>5. CASE Aclose
  BY <1>5 DEF Aclose, Conservation, Added
<1>6. ASSUME NEW t \in timers, TimerWake(t) \/ CancelDelivered(t) PROVE Conservation'
  BY <1>3, <1>6 DEF TimerWake, CancelDelivered
<1>7. ASSUME NEW t \in timers, TimerFire(t) PROVE Conservation'
  BY <1>2, <1>3, <1>7 DEF TimerFire
<1>8. CASE Tick \/ UNCHANGED vars
  BY <1>3, <1>8 DEF Tick, vars
<1>9. QED
  BY <1>1, <1>4, <1>5, <1>6, <1>7, <1>8 DEF Next

\* No interleaving of adds, flushes, aclose and timers loses an item or closes
\* it twice.
THEOREM ItemsConserved == Spec => []Conservation
<1>1. Init => Conservation
  BY DEF Init, Conservation, Added
<1>2. QED
  BY <1>1, TypeCorrect, ConservationStep, PTL DEF Spec

-----------------------------------------------------------------------------
(* Timers                                                                  *)

\* The strengthening that makes TimerArmed inductive: scope numbers are fresh
\* and owned by one task each, the task owning the current scope is not due
\* before the earliest deadline, and a task is awake only once it is due.
TimerInv ==
    /\ scope <= scopes
    /\ \A t \in timers : t.id <= scopes
    /\ \A s, t \in timers : s.id = t.id => s = t
    /\ scope # NoScope <=> active # {}
    /\ \A t \in timers : t.id = scope => EarliestDeadline(active) <= t.due
    /\ \A t \in timers : t.awake => t.due <= now
    /\ TimerArmed

\* Arming a timer for a non-empty batch establishes the invariant, whatever
\* tasks were alive before.
LEMMA RescheduleArms ==
    ASSUME TypeOK, TimerInv, NEW S \in SUBSET Item, S # {},
           NEW base \in SUBSET timers, Reschedule(S, base),
           active' = S, now' = now
    PROVE  TimerInv'
<1> DEFINE d == EarliestDeadline(S)
           due == IF d > now THEN d ELSE now
           new == [id |-> scopes + 1, due |-> due, awake |-> FALSE]
<1>1. d \in Nat
  BY EarliestDeadlineIsMin
<1>2. due \in Nat /\ d <= due /\ (due <= now \/ due <= d) /\ now \in Nat
  BY <1>1 DEF TypeOK
<1>3. /\ scope' = scopes + 1 /\ scopes' = scopes + 1
      /\ timers' = base \cup {new}
  BY DEF Reschedule
<1>4. new.id = scopes + 1 /\ new.due = due /\ new.awake = FALSE
  OBVIOUS
<1>5. scopes \in Nat /\ \A t \in base : t \in Timer /\ t.id \in Nat /\ t.id <= scopes
  BY DEF TypeOK, Timer, TimerInv
<1> HIDE DEF new, due
<1>6. scope' <= scopes' /\ scope' # NoScope
  BY <1>3, <1>5 DEF NoScope
<1>7. \A t \in timers' : t.id <= scopes'
  BY <1>3, <1>4, <1>5
<1>8. \A t \in base : t.id # scope'
  BY <1>3, <1>5
<1>9. \A s, t \in timers' : s.id = t.id => s = t
  <2>1. \A s, t \in base : s.id = t.id => s = t
    BY DEF TimerInv
  <2>2. QED
    BY <1>3, <1>4, <1>8, <2>1
<1>10. \A t \in timers' : t.id = scope' => EarliestDeadline(active') <= t.due
  BY <1>2, <1>3, <1>4, <1>8
<1>11. \A t \in timers' : t.awake => t.due <= now'
  <2>1. \A t \in base : t.awake => t.due <= now
    BY DEF TimerInv
  <2>2. QED
    BY <1>3, <1>4, <2>1
<1>12. TimerArmed'
  <2>1. /\ new \in timers' /\ new.id = scope'
        /\ new.due <= now' \/ new.due <= EarliestDeadline(active')
    BY <1>2, <1>3, <1>4
  <2>2. QED
    BY <2>1 DEF TimerArmed
<1>13. QED
  BY <1>6, <1>7, <1>9, <1>10, <1>11, <1>12 DEF TimerInv

\* Dropping the scope of an emptied batch establishes it as well.
LEMMA CancelArms ==
    ASSUME TypeOK, TimerInv, CancelTimer, active' = {},
           NEW base \in SUBSET timers, timers' = base, now' = now
    PROVE  TimerInv'
<1>1. scope' = 0 /\ scopes' = scopes /\ scopes \in Nat
  BY DEF CancelTimer, NoScope, TypeOK
<1>2. \A t \in timers : t.id # 0
  BY DEF TypeOK, Timer
<1>3. QED
  BY <1>1, <1>2 DEF TimerInv, TimerArmed, NoScope

\* _pack_and_split leaves the remainder armed, or no timer when there is none.
LEMMA PackAndSplitArms ==
    ASSUME TypeOK, TimerInv, NEW S \in SUBSET Item, NEW arr, NEW via,
           NEW base \in SUBSET timers, PackAndSplit(S, arr, via, base), now' = now
    PROVE  TimerInv'
<1> DEFINE rest == S \ Packed(S, arr)
<1>1. active' = rest
  BY DEF PackAndSplit
<1>2. CASE rest = {}
  <2>1. CancelTimer /\ timers' = base
    BY <1>2 DEF PackAndSplit
  <2>2. QED
    BY <1>1, <1>2, <2>1, CancelArms
<1>3. CASE rest # {}
  <2>1. Reschedule(rest, base)
    BY <1>3 DEF PackAndSplit
  <2>2. QED
    BY <1>1, <1>3, <2>1, RescheduleArms
<1>4. QED
  BY <1>2, <1>3

\* Every step keeps the timer of the active batch alive and in time.
LEMMA TimerStep == TypeOK /\ TimerInv /\ [Next]_vars => TimerInv'
<1> SUFFICES ASSUME TypeOK, TimerInv, [Next]_vars PROVE TimerInv'
  OBVIOUS
<1>1. ASSUME NEW i \in Item, Add(i) PROVE TimerInv'
  <2> DEFINE S == active \cup {i}
             arr == [arrival EXCEPT ![i] = arrivals + 1]
  <2>1. S \in SUBSET Item /\ S # {}
    BY DEF TypeOK
  <2>2. /\ now' = now
        /\ \/ PackAndSplit(S, arr, "add", timers)
           \/ active' = S /\ Reschedule(S, timers)
    BY <1>1 DEF Add
  <2>3. QED
    BY <2>1, <2>2, PackAndSplitArms, RescheduleArms
<1>2. CASE Flush
  <2>1. CASE active = {}
    BY <1>2, <2>1, CancelArms DEF Flush
  <2>2. CASE active # {}
    BY <1>2, <2>2, PackAndSplitArms DEF Flush, TypeOK
  <2>3. QED
    BY <2>1, <2>2
<1>3. CASE Aclose
  BY <1>3, CancelArms DEF Aclose
<1>4. ASSUME NEW t \in timers, TimerWake(t) PROVE TimerInv'
  <2> DEFINE woken == [id |-> t.id, due |-> t.due, awake |-> TRUE]
  <2>1. /\ t.id = scope /\ t.due <= now
        /\ UNCHANGED <<scope, scopes, active, closed, now>>
        /\ timers' = (timers \ {t}) \cup (IF closed THEN {} ELSE {woken})
    BY <1>4 DEF TimerWake
  <2>2. woken.id = t.id /\ woken.due = t.due /\ woken.awake
    OBVIOUS
  <2> HIDE DEF woken
  <2>3. \A s \in timers' : s \in timers \/ s = woken
    BY <2>1
  <2>4. \A s \in timers' \ {woken} : s.id # t.id
    BY <2>1 DEF TimerInv
  <2>5. TimerArmed'
    BY <2>1, <2>2 DEF TimerArmed, TimerInv
  <2>6. \A r, s \in timers' : r.id = s.id => r = s
    BY <2>2, <2>3, <2>4 DEF TimerInv
  <2>7. /\ \A s \in timers' : s.id <= scopes
        /\ \A s \in timers' : s.id = scope => EarliestDeadline(active) <= s.due
        /\ \A s \in timers' : s.awake => s.due <= now
    BY <2>1, <2>2, <2>3 DEF TimerInv
  <2>8. QED
    BY <2>1, <2>5, <2>6, <2>7 DEF TimerInv
<1>5. ASSUME NEW t \in timers, TimerFire(t) PROVE TimerInv'
  <2>0. timers \ {t} \in SUBSET timers
    OBVIOUS
  <2>1. CASE closed \/ t.id # scope
    <3>1. timers' = timers \ {t} /\ UNCHANGED <<active, scope, scopes, closed, now>>
      BY <1>5, <2>1 DEF TimerFire
    <3>2. TimerArmed'
      BY <2>1, <3>1 DEF TimerInv, TimerArmed
    <3>3. QED
      BY <3>1, <3>2 DEF TimerInv
  <2>2. CASE ~closed /\ t.id = scope /\ active = {}
    BY <1>5, <2>0, <2>2, CancelArms DEF TimerFire
  <2>3. CASE ~closed /\ t.id = scope /\ active # {}
    <3>1. PackAndSplit(active, arrival, "deadline", timers \ {t}) /\ now' = now
      BY <1>5, <2>3 DEF TimerFire
    <3>2. QED
      BY <2>0, <3>1, PackAndSplitArms DEF TypeOK
  <2>4. QED
    BY <2>1, <2>2, <2>3
<1>6. ASSUME NEW t \in timers, CancelDelivered(t) PROVE TimerInv'
  <2>1. /\ t.id # scope /\ timers' = timers \ {t}
        /\ UNCHANGED <<active, scope, scopes, closed, now>>
    BY <1>6 DEF CancelDelivered
  <2>2. TimerArmed'
    BY <2>1 DEF TimerInv, TimerArmed
  <2>3. QED
    BY <2>1, <2>2 DEF TimerInv
<1>7. CASE Tick
  <2>1. now' = now + 1 /\ now \in Nat /\ UNCHANGED <<active, scope, scopes, timers, closed>>
    BY <1>7 DEF Tick, TypeOK
  <2>2. \A t \in timers : t.due \in Nat
    BY DEF TypeOK, Timer
  <2>3. \A t \in timers : t.due <= now => t.due <= now'
    BY <2>1, <2>2
  <2>4. TimerArmed'
    BY <2>1, <2>3 DEF TimerInv, TimerArmed
  <2>5. QED
    BY <2>1, <2>3, <2>4 DEF TimerInv
<1>8. CASE UNCHANGED vars
  BY <1>8 DEF vars, TimerInv, TimerArmed
<1>9. QED
  BY <1>1, <1>2, <1>3, <1>4, <1>5, <1>6, <1>7, <1>8 DEF Next

\* The timer invariant holds in every reachable state.
LEMMA TimerInvariant == Spec => []TimerInv
<1>1. Init => TimerInv
  BY DEF Init, TimerInv, TimerArmed, NoScope
<1>2. QED
  BY <1>1, TypeCorrect, TimerStep, PTL DEF Spec

\* An open reducer with buffered items always has its wake-up.
THEOREM AlwaysArmed == Spec => []TimerArmed
<1>1. TimerInv => TimerArmed
  BY DEF TimerInv
<1>2. QED
  BY <1>1, TimerInvariant, PTL

\* One timer task at most owns the current scope, and only while there is
\* something to time out.
THEOREM OneOwner == Spec => []ScopeMatchesBatch
<1>1. TimerInv => ScopeMatchesBatch
  BY DEF TimerInv, ScopeMatchesBatch
<1>2. QED
  BY <1>1, TimerInvariant, PTL

-----------------------------------------------------------------------------
(* What a step may close                                                   *)

\* Arrival ranks are distinct, so the packing order is total on the items added.
ArrivalInv ==
    /\ active \subseteq Added
    /\ \A i \in Item : arrival[i] <= arrivals
    /\ \A i, j \in Added : arrival[i] = arrival[j] => i = j

\* Every step keeps arrival numbers distinct.
LEMMA ArrivalStep == TypeOK /\ ArrivalInv /\ [Next]_vars => ArrivalInv'
<1> SUFFICES ASSUME TypeOK, ArrivalInv, [Next]_vars PROVE ArrivalInv'
  OBVIOUS
<1>1. ASSUME NEW i \in Item, Add(i) PROVE ArrivalInv'
  <2>1. /\ arrival' = [arrival EXCEPT ![i] = arrivals + 1]
        /\ arrivals' = arrivals + 1
        /\ active' \subseteq active \cup {i}
    BY <1>1 DEF Add, PackAndSplit
  <2>2. arrival \in [Item -> Nat] /\ arrivals \in Nat
    BY DEF TypeOK
  <2>3. \A j \in Item : arrival'[j] <= arrivals'
    BY <2>1, <2>2 DEF ArrivalInv
  <2>4. active' \subseteq Added'
    BY <2>1, <2>2 DEF ArrivalInv, Added
  <2>5. \A j, k \in Added' : arrival'[j] = arrival'[k] => j = k
    BY <2>1, <2>2 DEF ArrivalInv, Added
  <2>6. QED
    BY <2>3, <2>4, <2>5 DEF ArrivalInv
<1>2. ASSUME UNCHANGED <<arrival, arrivals>>, active' \subseteq active PROVE ArrivalInv'
  BY <1>2 DEF ArrivalInv, Added
<1>3. CASE Flush
  BY <1>2, <1>3 DEF Flush, PackAndSplit
<1>4. CASE Aclose
  BY <1>2, <1>4 DEF Aclose
<1>5. ASSUME NEW t \in timers, TimerWake(t) \/ CancelDelivered(t) PROVE ArrivalInv'
  BY <1>2, <1>5 DEF TimerWake, CancelDelivered
<1>6. ASSUME NEW t \in timers, TimerFire(t) PROVE ArrivalInv'
  BY <1>2, <1>6 DEF TimerFire, PackAndSplit
<1>7. CASE Tick \/ UNCHANGED vars
  BY <1>2, <1>7 DEF Tick, vars
<1>8. QED
  BY <1>1, <1>3, <1>4, <1>5, <1>6, <1>7 DEF Next

\* Arrival numbers are distinct in every reachable state.
LEMMA ArrivalInvariant == Spec => []ArrivalInv
<1>1. Init => ArrivalInv
  BY DEF Init, ArrivalInv, Added
<1>2. QED
  BY <1>1, TypeCorrect, ArrivalStep, PTL DEF Spec

\* Packing takes a prefix of the order: what is packed is before what is not.
LEMMA PackedIsPrefix ==
    ASSUME NEW S \in SUBSET Item, NEW arr \in [Item -> Nat],
           \A i, j \in S : arr[i] = arr[j] => i = j,
           NEW i \in Packed(S, arr), NEW j \in S, j \notin Packed(S, arr)
    PROVE  Before(i, j, arr)
<1> USE ReducerAssumption
<1>1. SUFFICES ASSUME ~Before(i, j, arr) PROVE FALSE
  OBVIOUS
<1>2. i \in S /\ i # j /\ i \in Item /\ j \in Item
  BY DEF Packed
<1>3. Before(j, i, arr)
  BY <1>1, <1>2 DEF Before
<1>4. UpTo(i, S, arr) # {i}
  BY <1>2, <1>3 DEF UpTo
<1>5. \A k \in UpTo(i, S, arr) : ~Overflows(UpTo(k, S, arr))
  BY <1>4 DEF Packed
<1>6. UpTo(j, S, arr) \subseteq UpTo(i, S, arr)
  BY <1>2, <1>3 DEF UpTo, Before
<1>7. j \in Packed(S, arr)
  BY <1>5, <1>6 DEF Packed
<1>8. QED
  BY <1>7

\* The batch that _pack_and_split appends is the packed part of S.
LEMMA NewBatch ==
    ASSUME TypeOK, NEW S, NEW arr, NEW via, NEW base, PackAndSplit(S, arr, via, base),
           NEW b \in {out'[k] : k \in DOMAIN out' \ DOMAIN out}
    PROVE  b.items = Packed(S, arr) /\ b.via = via
<1>1. out' = Append(out, [items |-> Packed(S, arr), via |-> via]) /\ out \in Seq(Batch)
  BY DEF PackAndSplit, TypeOK
<1>2. b = [items |-> Packed(S, arr), via |-> via]
  BY <1>1
<1>3. QED
  BY <1>2

\* FifoByDeadline as an action of the specification: nothing is overtaken.
THEOREM NoOvertaking == Spec => FifoByDeadline
<1> DEFINE New == {out'[k] : k \in DOMAIN out' \ DOMAIN out}
           Fifo == \A b \in New : \A i \in b.items, j \in active' :
                       \/ Deadline[i] < Deadline[j]
                       \/ Deadline[i] = Deadline[j] /\ arrival'[i] < arrival'[j]
<1>1. ASSUME TypeOK, ArrivalInv, ArrivalInv', [Next]_vars PROVE [Fifo]_vars
  <2>1. ASSUME NEW S \in SUBSET Item, S \subseteq Added', NEW via, NEW base,
               PackAndSplit(S, arrival', via, base), arrival' \in [Item -> Nat]
        PROVE  Fifo
    <3>1. \A i, j \in S : arrival'[i] = arrival'[j] => i = j
      BY <1>1, <2>1 DEF ArrivalInv
    <3>2. active' = S \ Packed(S, arrival')
      BY <2>1 DEF PackAndSplit
    <3>3. \A b \in New : b.items = Packed(S, arrival')
      BY <1>1, <2>1, NewBatch
    <3>4. \A i \in Packed(S, arrival'), j \in active' : Before(i, j, arrival')
      BY <2>1, <3>1, <3>2, PackedIsPrefix
    <3>5. QED
      BY <3>3, <3>4 DEF Before
  <2>2. ASSUME out' = out PROVE Fifo
    BY <2>2
  <2>3. ASSUME NEW i \in Item, Add(i) PROVE Fifo
    <3> DEFINE S == active \cup {i}
    <3>1. /\ arrival' = [arrival EXCEPT ![i] = arrivals + 1]
          /\ PackAndSplit(S, arrival', "add", timers) \/ out' = out
      BY <2>3 DEF Add
    <3>2. S \in SUBSET Item /\ arrival' \in [Item -> Nat] /\ S \subseteq Added'
      BY <1>1, <3>1 DEF TypeOK, ArrivalInv, Added
    <3>3. QED
      BY <2>1, <2>2, <3>1, <3>2
  <2>4. ASSUME arrival' = arrival, NEW via, NEW base,
               PackAndSplit(active, arrival, via, base)
        PROVE  Fifo
    <3>1. active \in SUBSET Item /\ active \subseteq Added' /\ arrival' \in [Item -> Nat]
      BY <1>1, <2>4 DEF TypeOK, ArrivalInv, Added
    <3>2. QED
      BY <2>1, <2>4, <3>1
  <2>5. CASE Flush
    BY <2>2, <2>4, <2>5 DEF Flush
  <2>6. CASE \E t \in timers : TimerFire(t)
    BY <2>2, <2>4, <2>6 DEF TimerFire
  <2>7. CASE Aclose \/ Tick \/ \E t \in timers : TimerWake(t) \/ CancelDelivered(t)
    BY <2>2, <2>7 DEF Aclose, Tick, TimerWake, CancelDelivered
  <2>8. QED
    BY <1>1, <2>3, <2>5, <2>6, <2>7 DEF Next
<1>2. QED
  BY <1>1, TypeCorrect, ArrivalInvariant, PTL DEF Spec, FifoByDeadline

\* A timer closes a batch only once one of the batch's own deadlines has
\* passed, never on behalf of items that left before.
THEOREM DeadlinesNotEarly == Spec => NeverEarly
<1> DEFINE New == {out'[k] : k \in DOMAIN out' \ DOMAIN out}
           Late == \A b \in New : b.via = "deadline" => \E i \in b.items : Deadline[i] <= now
<1>1. ASSUME TypeOK, TimerInv, [Next]_vars PROVE [Late]_vars
  <2>1. ASSUME out' = out PROVE Late
    BY <2>1
  <2>2. ASSUME NEW S, NEW arr, NEW via, NEW base, via # "deadline",
               PackAndSplit(S, arr, via, base)
        PROVE  Late
    BY <1>1, <2>2, NewBatch
  <2>3. ASSUME NEW t \in timers, TimerFire(t) PROVE Late
    <3>1. CASE closed \/ t.id # scope \/ active = {}
      BY <2>1, <2>3, <3>1 DEF TimerFire
    <3>2. CASE ~closed /\ t.id = scope /\ active # {}
      <4>1. t.awake /\ PackAndSplit(active, arrival, "deadline", timers \ {t})
        BY <2>3, <3>2 DEF TimerFire
      <4>2. EarliestDeadline(active) <= t.due /\ t.due <= now
        BY <1>1, <3>2, <4>1 DEF TimerInv
      <4>3. /\ active \in SUBSET Item /\ arrival \in [Item -> Nat]
            /\ now \in Nat /\ t.due \in Nat
        BY <1>1 DEF TypeOK, Timer
      <4>4. PICK i \in active : /\ i \in Packed(active, arrival)
                                /\ \A j \in active : Deadline[i] <= Deadline[j]
        BY <3>2, <4>3, FirstCandidate
      <4>5. PICK j \in active : Deadline[j] = EarliestDeadline(active)
        BY <3>2, <4>3, EarliestDeadlineIsMin
      <4>6. Deadline[i] <= now
        <5>1. Deadline[i] \in Nat /\ Deadline[j] \in Nat
          BY <4>3, ReducerAssumption
        <5>2. Deadline[i] <= Deadline[j]
          BY <4>4
        <5>3. QED
          BY <4>2, <4>3, <4>5, <5>1, <5>2
      <4>7. QED
        BY <1>1, <4>1, <4>4, <4>6, NewBatch
    <3>3. QED
      BY <3>1, <3>2
  <2>4. CASE Flush
    BY <2>1, <2>2, <2>4 DEF Flush
  <2>5. ASSUME NEW i \in Item, Add(i) PROVE Late
    BY <2>1, <2>2, <2>5 DEF Add
  <2>6. CASE Aclose \/ Tick \/ \E t \in timers : TimerWake(t) \/ CancelDelivered(t)
    BY <2>1, <2>6 DEF Aclose, Tick, TimerWake, CancelDelivered
  <2>7. QED
    BY <1>1, <2>3, <2>4, <2>5, <2>6 DEF Next
<1>2. QED
  BY <1>1, TypeCorrect, TimerInvariant, PTL DEF Spec, NeverEarly

-----------------------------------------------------------------------------
(* The hard limits                                                         *)

\* The batch just after add's insertion can hold exactly count_limit items,
\* and closing at least one of them brings it below again.
CountInv == IsFiniteSet(active) /\ CountBelowLimit

\* What _pack_and_split re-injects is strictly smaller than what it packed.
LEMMA RestIsSmaller ==
    ASSUME NEW S \in SUBSET Item, S # {}, IsFiniteSet(S), NEW arr \in [Item -> Nat],
           NEW n \in Nat, Cardinality(S) <= n
    PROVE  /\ IsFiniteSet(S \ Packed(S, arr))
           /\ Cardinality(S \ Packed(S, arr)) < n
<1> DEFINE rest == S \ Packed(S, arr)
<1>1. rest \in SUBSET S /\ rest # S
  BY PackedNonEmpty
<1>2. /\ IsFiniteSet(rest) /\ Cardinality(rest) <= Cardinality(S)
      /\ Cardinality(rest) # Cardinality(S)
  BY <1>1, FS_Subset
<1>3. Cardinality(rest) \in Nat /\ Cardinality(S) \in Nat
  BY <1>2, FS_CardinalityType
<1>4. QED
  BY <1>2, <1>3

\* Every step leaves the active batch below count_limit.
LEMMA CountStep == TypeOK /\ CountInv /\ [Next]_vars => CountInv'
<1> SUFFICES ASSUME TypeOK, CountInv, [Next]_vars PROVE CountInv'
  OBVIOUS
<1>0. CountLimit \in Nat /\ CountLimit > 0 /\ Cardinality(active) \in Nat
      /\ active \in SUBSET Item /\ arrival \in [Item -> Nat]
  BY ReducerAssumption, FS_CardinalityType DEF CountInv, TypeOK
<1>1. ASSUME NEW i \in Item, Add(i) PROVE CountInv'
  <2> DEFINE S == active \cup {i}
             arr == [arrival EXCEPT ![i] = arrivals + 1]
  <2>1. IsFiniteSet(S) /\ Cardinality(S) <= Cardinality(active) + 1
    BY <1>0, FS_AddElement DEF CountInv
  <2>2. Cardinality(S) \in Nat /\ Cardinality(S) <= CountLimit
    BY <1>0, <2>1, FS_CardinalityType DEF CountInv, CountBelowLimit
  <2>3. \/ active' = S \ Packed(S, arr)
        \/ active' = S /\ ~(Cardinality(S) >= CountLimit)
    BY <1>1 DEF Add, PackAndSplit
  <2>4. arr \in [Item -> Nat] /\ S \in SUBSET Item /\ S # {}
    BY <1>0 DEF TypeOK
  <2>5. CASE active' = S \ Packed(S, arr)
    BY <1>0, <2>1, <2>2, <2>4, <2>5, RestIsSmaller DEF CountInv, CountBelowLimit
  <2>6. CASE active' = S /\ ~(Cardinality(S) >= CountLimit)
    BY <1>0, <2>1, <2>2, <2>6 DEF CountInv, CountBelowLimit
  <2>7. QED
    BY <2>3, <2>5, <2>6
<1>2. ASSUME active' \in SUBSET active PROVE CountInv'
  <2>1. IsFiniteSet(active') /\ Cardinality(active') <= Cardinality(active)
    BY <1>2, FS_Subset DEF CountInv
  <2>2. Cardinality(active') \in Nat
    BY <2>1, FS_CardinalityType
  <2>3. QED
    BY <1>0, <2>1, <2>2 DEF CountInv, CountBelowLimit
<1>3. CASE Flush
  BY <1>2, <1>3 DEF Flush, PackAndSplit
<1>4. CASE Aclose \/ Tick \/ \E t \in timers : TimerWake(t) \/ CancelDelivered(t)
  BY <1>2, <1>4 DEF Aclose, Tick, TimerWake, CancelDelivered
<1>5. ASSUME NEW t \in timers, TimerFire(t) PROVE CountInv'
  BY <1>2, <1>5 DEF TimerFire, PackAndSplit
<1>6. CASE UNCHANGED vars
  BY <1>2, <1>6 DEF vars
<1>7. QED
  BY <1>1, <1>3, <1>4, <1>5, <1>6 DEF Next

\* The active batch is finite and below count_limit in every reachable state.
LEMMA CountInvariant == Spec => []CountInv
<1>1. Init => CountInv
  BY FS_EmptySet, ReducerAssumption DEF Init, CountInv, CountBelowLimit
<1>2. QED
  BY <1>1, TypeCorrect, CountStep, PTL DEF Spec

\* No batch of count_limit items ever waits for the timer.
THEOREM CountNeverReached == Spec => []CountBelowLimit
<1>1. CountInv => CountBelowLimit
  BY DEF CountInv
<1>2. QED
  BY <1>1, CountInvariant, PTL

\* A finite non-empty batch, totally ordered by its arrivals, has a last item.
LEMMA LastCandidate ==
    ASSUME NEW P \in SUBSET Item, P # {}, IsFiniteSet(P), NEW arr \in [Item -> Nat],
           \A i, j \in P : arr[i] = arr[j] => i = j
    PROVE  \E m \in P : \A j \in P : j # m => Before(j, m, arr)
<1> USE ReducerAssumption
<1> DEFINE R == {e \in P \X P : Before(e[1], e[2], arr)}
<1>1. \A i, j \in P : <<i, j>> \in R <=> Before(i, j, arr)
  OBVIOUS
<1>2. /\ \A i, j, k \in P : Before(i, j, arr) /\ Before(j, k, arr) => Before(i, k, arr)
      /\ \A i \in P : ~Before(i, i, arr)
  BY DEF Before
<1> HIDE DEF R
<1>3. PICK m \in P : \A j \in P : <<m, j>> \notin R
  <2>1. /\ \A i, j, k \in P : <<i, j>> \in R /\ <<j, k>> \in R => <<i, k>> \in R
        /\ \A i \in P : <<i, i>> \notin R
    BY <1>1, <1>2
  <2>2. QED
    BY <2>1, MaximalElement
<1>4. ASSUME NEW j \in P, j # m PROVE Before(j, m, arr)
  <2>1. ~Before(m, j, arr)
    BY <1>1, <1>3
  <2>2. arr[j] # arr[m]
    BY <1>4
  <2>3. QED
    BY <2>1, <2>2 DEF Before
<1>5. QED
  BY <1>4

\* A batch packed from several candidates respects both limits.
LEMMA PackedFits ==
    ASSUME NEW S \in SUBSET Item, S # {}, IsFiniteSet(S), NEW arr \in [Item -> Nat],
           \A i, j \in S : arr[i] = arr[j] => i = j,
           Cardinality(Packed(S, arr)) > 1
    PROVE  ~Overflows(Packed(S, arr))
<1> DEFINE P == Packed(S, arr)
<1>1. P \in SUBSET Item /\ P # {} /\ P \in SUBSET S /\ IsFiniteSet(P)
  BY PackedNonEmpty, FS_Subset
<1>2. PICK m \in P : \A j \in P : j # m => Before(j, m, arr)
  BY <1>1, LastCandidate
<1>3. P \subseteq UpTo(m, S, arr)
  BY <1>1, <1>2 DEF UpTo
<1>4. UpTo(m, S, arr) \subseteq P
  <2>1. ASSUME NEW j \in UpTo(m, S, arr), j \notin P PROVE FALSE
    <3>1. j \in S /\ j # m /\ Before(j, m, arr)
      BY <1>1, <2>1 DEF UpTo
    <3>2. Before(m, j, arr)
      BY <2>1, <3>1, PackedIsPrefix
    <3>3. Deadline[j] \in Nat /\ Deadline[m] \in Nat /\ arr[j] \in Nat /\ arr[m] \in Nat
      BY <1>1, <3>1, ReducerAssumption
    <3>4. QED
      BY <3>1, <3>2, <3>3 DEF Before
  <2>2. QED
    BY <2>1
<1>5. P # {m}
  BY FS_Singleton
<1>6. \A j \in UpTo(m, S, arr) : ~Overflows(UpTo(j, S, arr))
  BY <1>2, <1>3, <1>4, <1>5 DEF Packed
<1>7. m \in UpTo(m, S, arr)
  BY DEF UpTo
<1>8. QED
  BY <1>3, <1>4, <1>6, <1>7

\* Every step keeps the closed batches within the limits.
LEMMA BatchesFitStep ==
    TypeOK /\ CountInv /\ ArrivalInv /\ ArrivalInv' /\ BatchesFit /\ [Next]_vars
        => BatchesFit'
<1> SUFFICES ASSUME TypeOK, CountInv, ArrivalInv, ArrivalInv', BatchesFit, [Next]_vars
             PROVE  BatchesFit'
  OBVIOUS
<1>1. ASSUME out' = out PROVE BatchesFit'
  BY <1>1 DEF BatchesFit
<1>2. ASSUME NEW S \in SUBSET Item, S # {}, IsFiniteSet(S), S \subseteq Added',
             arrival' \in [Item -> Nat], NEW via, NEW base,
             PackAndSplit(S, arrival', via, base)
      PROVE  BatchesFit'
  <2> DEFINE P == Packed(S, arrival')
  <2>1. \A i, j \in S : arrival'[i] = arrival'[j] => i = j
    BY <1>2 DEF ArrivalInv
  <2>2. Cardinality(P) > 1 => ~Overflows(P)
    BY <1>2, <2>1, PackedFits
  <2>3. IsFiniteSet(P) /\ P \in SUBSET Item
    BY <1>2, PackedNonEmpty, FS_Subset
  <2>4. /\ Cardinality(P) \in Nat /\ BatchSize(P) \in Nat
        /\ CountLimit \in Nat /\ SizeLimit \in Nat
    BY <2>3, FS_CardinalityType, ReducerAssumption
  <2>5. Cardinality(P) > 1 => Cardinality(P) <= CountLimit /\ BatchSize(P) <= SizeLimit
    BY <2>2, <2>4 DEF Overflows
  <2>6. out' = Append(out, [items |-> P, via |-> via]) /\ out \in Seq(Batch)
    BY <1>2 DEF PackAndSplit, TypeOK
  <2> HIDE DEF P
  <2>7. \A k \in DOMAIN out' :
            (k \in DOMAIN out /\ out'[k] = out[k]) \/ out'[k].items = P
    BY <2>6
  <2>8. QED
    BY <2>5, <2>7 DEF BatchesFit
<1>3. ASSUME NEW i \in Item, Add(i) PROVE BatchesFit'
  <2> DEFINE S == active \cup {i}
  <2>1. /\ arrival' = [arrival EXCEPT ![i] = arrivals + 1]
        /\ PackAndSplit(S, arrival', "add", timers) \/ out' = out
    BY <1>3 DEF Add
  <2>2. S \in SUBSET Item /\ arrival' \in [Item -> Nat] /\ S \subseteq Added'
    BY <2>1 DEF TypeOK, ArrivalInv, Added
  <2>3. IsFiniteSet(S)
    BY FS_AddElement DEF CountInv
  <2>4. QED
    BY <1>1, <1>2, <2>1, <2>2, <2>3
<1>4. ASSUME arrival' = arrival, active # {}, NEW via, NEW base,
             PackAndSplit(active, arrival, via, base)
      PROVE  BatchesFit'
  <2>1. /\ active \in SUBSET Item /\ active \subseteq Added'
        /\ arrival' \in [Item -> Nat] /\ IsFiniteSet(active)
    BY <1>4 DEF TypeOK, ArrivalInv, Added, CountInv
  <2>2. QED
    BY <1>2, <1>4, <2>1
<1>5. CASE Flush
  BY <1>1, <1>4, <1>5 DEF Flush
<1>6. CASE \E t \in timers : TimerFire(t)
  BY <1>1, <1>4, <1>6 DEF TimerFire
<1>7. CASE Aclose \/ Tick \/ \E t \in timers : TimerWake(t) \/ CancelDelivered(t)
  BY <1>1, <1>7 DEF Aclose, Tick, TimerWake, CancelDelivered
<1>8. CASE UNCHANGED vars
  BY <1>1, <1>8 DEF vars
<1>9. QED
  BY <1>3, <1>5, <1>6, <1>7, <1>8 DEF Next

\* Every closed batch is within the hard limits or is one oversized item.
THEOREM ClosedBatchesFit == Spec => []BatchesFit
<1>1. Init => BatchesFit
  BY DEF Init, BatchesFit
<1>2. QED
  BY <1>1, TypeCorrect, CountInvariant, ArrivalInvariant, BatchesFitStep, PTL DEF Spec

-----------------------------------------------------------------------------
(* Reducer implements Batcher: the initial state maps to the initial state *)
(* and every step maps to a step or leaves the mapped variables alone.     *)

\* _pack_and_split of a batch S is a Close of the batching stage.
LEMMA PackAndSplitCloses ==
    ASSUME TypeOK, NEW S \in SUBSET Item, S # {}, NEW arr \in [Item -> Nat],
           \A i, j \in S : arr[i] = arr[j] => i = j,
           NEW via, NEW base, PackAndSplit(S, arr, via, base), dropped' = dropped
    PROVE  Stage!Close(S)
<1> DEFINE done == Packed(S, arr)
           n == Len(out) + 1
           Left == {out[k].items : k \in DOMAIN out}
<1>1. done \in (SUBSET S) \ {{}}
  BY PackedNonEmpty
<1>2. out' = Append(out, [items |-> done, via |-> via]) /\ active' = S \ done
  BY DEF PackAndSplit
<1>3. out \in Seq(Batch)
  BY DEF TypeOK
<1>4. /\ DOMAIN out' = DOMAIN out \cup {n}
      /\ \A k \in DOMAIN out : out'[k] = out[k]
      /\ out'[n] = [items |-> done, via |-> via]
  BY <1>2, <1>3
<1>5. out'[n].items = done
  BY <1>4
<1>6. ASSUME NEW i \in done, NEW j \in S \ done PROVE Deadline[i] <= Deadline[j]
  <2>1. Before(i, j, arr) /\ i \in Item /\ j \in Item
    BY <1>1, <1>6, PackedIsPrefix
  <2>2. QED
    BY <2>1, ReducerAssumption DEF Before
<1> HIDE DEF done, n
<1>7. {out'[k].items : k \in DOMAIN out'} = Left \cup {done}
  BY <1>4, <1>5
<1>8. QED
  BY <1>1, <1>2, <1>6, <1>7 DEF Stage!Close

\* One step of the reducer, seen as a step of the batching stage.
LEMMA StepImplements ==
    ASSUME TypeOK, Conservation, ArrivalInv, ArrivalInv', [Next]_vars
    PROVE  [Stage!Next]_(Stage!vars)
<1>1. ASSUME UNCHANGED <<active, out, dropped>> PROVE UNCHANGED Stage!vars
  BY <1>1 DEF Stage!vars
<1>2. ASSUME NEW i \in Item, Add(i) PROVE Stage!Next
  <2> DEFINE S == active \cup {i}
             arr == [arrival EXCEPT ![i] = arrivals + 1]
  <2>1. S \in SUBSET Item /\ S # {} /\ arr \in [Item -> Nat]
    BY DEF TypeOK
  <2>2. /\ arrival[i] = 0 /\ arrival' = arr /\ dropped' = dropped
        /\ \/ PackAndSplit(S, arr, "add", timers)
           \/ active' = S /\ out' = out
    BY <1>2 DEF Add
  <2>3. i \notin Stage!Known
    BY <2>2 DEF Stage!Known, Conservation, Added
  <2>4. S \subseteq Added'
    BY <2>1, <2>2 DEF TypeOK, ArrivalInv, Added
  <2>5. \A k, j \in S : arr[k] = arr[j] => k = j
    BY <2>2, <2>4 DEF ArrivalInv
  <2>6. CASE PackAndSplit(S, arr, "add", timers)
    <3>1. Stage!Close(S)
      BY <2>1, <2>2, <2>5, <2>6, PackAndSplitCloses DEF Stage!Close, PackAndSplit
    <3>2. QED
      BY <2>3, <3>1 DEF Stage!Next, Stage!AcceptAndClose
  <2>7. CASE active' = S /\ out' = out
    <3>1. Stage!Accept(i)
      BY <2>2, <2>3, <2>7 DEF Stage!Accept
    <3>2. QED
      BY <3>1 DEF Stage!Next
  <2>8. QED
    BY <2>2, <2>6, <2>7
<1>3. ASSUME NEW via, NEW base, PackAndSplit(active, arrival, via, base),
             active # {}, dropped' = dropped
      PROVE  Stage!Next
  <2>1. active \in SUBSET Item /\ arrival \in [Item -> Nat]
    BY DEF TypeOK
  <2>2. \A k, j \in active : arrival[k] = arrival[j] => k = j
    BY DEF ArrivalInv
  <2>3. Stage!Close(active)
    BY <1>3, <2>1, <2>2, PackAndSplitCloses DEF Stage!Close, PackAndSplit
  <2>4. QED
    BY <2>3 DEF Stage!Next
<1>4. CASE Flush
  BY <1>1, <1>3, <1>4 DEF Flush
<1>5. CASE Aclose
  <2>1. Stage!Discard
    BY <1>5 DEF Aclose, Stage!Discard
  <2>2. QED
    BY <2>1 DEF Stage!Next
<1>6. CASE \E t \in timers : TimerFire(t)
  BY <1>1, <1>3, <1>6 DEF TimerFire
<1>7. CASE Tick \/ UNCHANGED vars \/ \E t \in timers : TimerWake(t) \/ CancelDelivered(t)
  BY <1>1, <1>7 DEF Tick, TimerWake, CancelDelivered, vars
<1>8. QED
  BY <1>2, <1>4, <1>5, <1>6, <1>7 DEF Next

\* ImplementsBatcher: whatever the limits, the size estimate, the predicate
\* and the deadlines, a reducer is a batching stage.
THEOREM ReducerImplementsBatcher == Spec => ImplementsBatcher
<1>1. Init => Stage!Init
  BY DEF Init, Stage!Init
<1>2. QED
  BY <1>1, StepImplements, TypeCorrect, ItemsConserved, ArrivalInvariant, PTL
     DEF Spec, ImplementsBatcher, Stage!Spec
=============================================================================
