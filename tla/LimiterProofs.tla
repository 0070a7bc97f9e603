--------------------------- MODULE LimiterProofs ---------------------------
(* Proofs about Limiter, for every set of callers and every limit. *)
EXTENDS Limiter, FiniteSetTheorems, TLAPS

Inv == TypeOK /\ SlotsAccounted /\ NoLostWakeup

LEMMA RoomBounds ==
  ASSUME NEW used \in Nat, NEW newLimit \in Nat, NEW ws \in Seq(Caller)
  PROVE  LET k == Room(used, newLimit, ws) IN
         /\ k \in 0..Len(ws)
         /\ k < Len(ws) => used + k >= newLimit
         /\ k > 0 => used + k <= newLimit
  BY DEF Room

\* Distinct callers are as many as the places they stand at.
LEMMA HeadsCounted ==
  ASSUME NEW ws \in Seq(Caller), Distinct(ws), NEW k \in 0..Len(ws)
  PROVE  LET heads == {ws[i] : i \in 1..k} IN
         IsFiniteSet(heads) /\ Cardinality(heads) = k
<1> DEFINE heads == {ws[i] : i \in 1..k}
           place == [i \in 1..k |-> ws[i]]
<1>1. place \in Bijection(1..k, heads)
  <2>1. place \in [1..k -> heads] OBVIOUS
  <2>2. ASSUME NEW i \in 1..k, NEW j \in 1..k, place[i] = place[j] PROVE i = j
    BY <2>2 DEF Distinct
  <2>3. \A x \in heads : \E i \in 1..k : place[i] = x OBVIOUS
  <2> QED BY <2>1, <2>2, <2>3 DEF Bijection, Injection, Surjection, IsInjective
<1>2. ExistsBijection(1..k, heads)
  BY <1>1 DEF ExistsBijection
<1>3. IsFiniteSet(1..k) /\ Cardinality(1..k) = k
  BY FS_Interval
<1> QED BY <1>2, <1>3, FS_Bijection

LEMMA DisjointUnionCounted ==
  ASSUME NEW S, NEW T, IsFiniteSet(S), IsFiniteSet(T), S \cap T = {}
  PROVE  Cardinality(S \cup T) = Cardinality(S) + Cardinality(T)
<1>1. Cardinality(S) \in Nat /\ Cardinality(T) \in Nat
  BY FS_CardinalityType
<1>2. Cardinality({}) = 0
  BY FS_EmptySet
<1>3. Cardinality(S \cap T) = 0
  BY <1>2
<1>4. Cardinality(S \cup T) = Cardinality(S) + Cardinality(T) - Cardinality(S \cap T)
  BY FS_Union
<1> QED BY <1>1, <1>3, <1>4

\* What admitLocked does to the queue, whatever its caller did before.
LEMMA Admits ==
  ASSUME NEW used \in Nat, NEW newLimit \in Nat,
         NEW ws \in Seq(Caller), Distinct(ws),
         NEW asleep \in SUBSET Caller, \A i \in DOMAIN ws : ws[i] \notin asleep,
         AdmitLocked(used, newLimit, ws, asleep)
  PROVE  /\ inUse' \in Nat
         /\ waiters' \in Seq(Caller) /\ Distinct(waiters')
         /\ woken' \subseteq Caller \ Waiting'
         /\ Waiting' \cup woken' = {ws[i] : i \in DOMAIN ws} \cup asleep
         /\ asleep \subseteq woken'
         /\ Cardinality(woken') + used = Cardinality(asleep) + inUse'
         /\ waiters' # <<>> => inUse' >= newLimit
         /\ inUse' > used => inUse' <= newLimit
<1> DEFINE k == Room(used, newLimit, ws)
           heads == {ws[i] : i \in 1..k}
<1>1. /\ k \in 0..Len(ws)
      /\ k < Len(ws) => used + k >= newLimit
      /\ k > 0 => used + k <= newLimit
  BY RoomBounds
<1>2. /\ inUse' = used + k
      /\ waiters' = SubSeq(ws, k + 1, Len(ws))
      /\ woken' = asleep \cup heads
  BY DEF AdmitLocked
<1> HIDE DEF k
<1>3. /\ waiters' \in Seq(Caller)
      /\ Len(waiters') = Len(ws) - k
      /\ \A i \in 1..(Len(ws) - k) : waiters'[i] = ws[i + k]
  BY <1>1, <1>2
<1>12. /\ Len(ws) \in Nat /\ DOMAIN ws = 1..Len(ws)
       /\ k \in Nat /\ DOMAIN waiters' = 1..(Len(ws) - k)
  BY <1>1, <1>3
<1>4. Distinct(waiters')
  <2> SUFFICES ASSUME NEW i \in DOMAIN waiters', NEW j \in DOMAIN waiters',
                      waiters'[i] = waiters'[j]
               PROVE  i = j
    BY DEF Distinct
  <2>1. i \in 1..(Len(ws) - k) /\ j \in 1..(Len(ws) - k)
    BY <1>12
  <2>2. ws[i + k] = ws[j + k]
    BY <1>3, <2>1
  <2>3. i + k \in DOMAIN ws /\ j + k \in DOMAIN ws
    BY <1>1, <1>12, <2>1
  <2>4. i + k = j + k
    BY <2>2, <2>3 DEF Distinct
  <2> QED BY <1>12, <2>1, <2>4
<1>5. Waiting' = {ws[i] : i \in (k + 1)..Len(ws)}
  <2>1. ASSUME NEW i \in (k + 1)..Len(ws)
        PROVE  i - k \in DOMAIN waiters' /\ waiters'[i - k] = ws[i]
    <3>1. i - k \in 1..(Len(ws) - k) /\ (i - k) + k = i
      BY <1>12
    <3> QED BY <1>3, <1>12, <3>1
  <2>2. ASSUME NEW i \in DOMAIN waiters'
        PROVE  i + k \in (k + 1)..Len(ws) /\ waiters'[i] = ws[i + k]
    <3>1. i \in 1..(Len(ws) - k)
      BY <1>12
    <3> QED BY <1>3, <1>12, <3>1
  <2> QED BY <2>1, <2>2 DEF Waiting
<1>6. heads \cap Waiting' = {} /\ heads \cap asleep = {} /\ heads \subseteq Caller
  BY <1>1, <1>5 DEF Distinct
<1>7. Waiting' \cap asleep = {}
  BY <1>1, <1>5
<1>8. Waiting' \cup heads = {ws[i] : i \in DOMAIN ws}
  BY <1>1, <1>5
<1>9. Cardinality(woken') = Cardinality(asleep) + k
  <2>1. IsFiniteSet(asleep)
    BY CallerAssumption, FS_Subset
  <2>2. IsFiniteSet(heads) /\ Cardinality(heads) = k
    BY <1>1, HeadsCounted
  <2> QED BY <1>2, <1>6, <2>1, <2>2, DisjointUnionCounted
<1>10. Cardinality(asleep) \in Nat
  BY CallerAssumption, FS_Subset, FS_CardinalityType
<1>11. waiters' # <<>> => k < Len(ws)
  BY <1>1, <1>3
<1>13. woken' \subseteq Caller \ Waiting'
  BY <1>2, <1>6, <1>7
<1>14. Waiting' \cup woken' = {ws[i] : i \in DOMAIN ws} \cup asleep
  BY <1>2, <1>8
<1>15. Cardinality(woken') + used = Cardinality(asleep) + inUse'
  BY <1>2, <1>9, <1>10, <1>12
<1>16. waiters' # <<>> => inUse' >= newLimit
  BY <1>1, <1>2, <1>11
<1>17. inUse' \in Nat /\ (inUse' > used => inUse' <= newLimit)
  BY <1>1, <1>2, <1>12
<1> QED BY <1>2, <1>3, <1>4, <1>13, <1>14, <1>15, <1>16, <1>17

\* abandon takes exactly its own place out of the queue.
LEMMA WithoutRemoves ==
  ASSUME NEW ws \in Seq(Caller), Distinct(ws), NEW c \in {ws[i] : i \in DOMAIN ws}
  PROVE  /\ Without(ws, c) \in Seq(Caller) /\ Distinct(Without(ws, c))
         /\ {Without(ws, c)[i] : i \in DOMAIN Without(ws, c)}
              = {ws[i] : i \in DOMAIN ws} \ {c}
<1> DEFINE k == CHOOSE i \in DOMAIN ws : ws[i] = c
           rest == [i \in 1..(Len(ws) - 1) |-> IF i < k THEN ws[i] ELSE ws[i + 1]]
<1>1. k \in DOMAIN ws /\ ws[k] = c
  OBVIOUS
<1>2. Without(ws, c) = rest
  BY DEF Without
<1> HIDE DEF k
<1>3. Len(ws) \in Nat /\ DOMAIN ws = 1..Len(ws) /\ Len(ws) - 1 \in Nat
  BY <1>1
<1>4. rest \in [1..(Len(ws) - 1) -> Caller]
  BY <1>1, <1>3
<1>5. rest \in Seq(Caller) /\ DOMAIN rest = 1..(Len(ws) - 1)
  BY <1>3, <1>4
<1>6. Distinct(rest)
  <2> SUFFICES ASSUME NEW i \in DOMAIN rest, NEW j \in DOMAIN rest, rest[i] = rest[j]
               PROVE  i = j
    BY DEF Distinct
  <2>1. /\ i \in Nat /\ j \in Nat
        /\ i \in DOMAIN ws /\ j \in DOMAIN ws
        /\ i + 1 \in DOMAIN ws /\ j + 1 \in DOMAIN ws
    BY <1>3, <1>5
  <2>2. rest[i] = (IF i < k THEN ws[i] ELSE ws[i + 1]) /\ rest[j] = (IF j < k THEN ws[j] ELSE ws[j + 1])
    BY <1>5
  <2> QED BY <1>1, <1>3, <2>1, <2>2 DEF Distinct
<1>7. ASSUME NEW i \in DOMAIN rest PROVE rest[i] # c /\ rest[i] \in {ws[n] : n \in DOMAIN ws}
  <2>1. i \in Nat /\ i \in DOMAIN ws /\ i + 1 \in DOMAIN ws /\ i + 1 \in Nat
    BY <1>3, <1>5, <1>7
  <2>2. rest[i] = IF i < k THEN ws[i] ELSE ws[i + 1]
    BY <1>5, <1>7
  <2> QED BY <1>1, <1>3, <2>1, <2>2 DEF Distinct
<1>8. ASSUME NEW n \in DOMAIN ws, ws[n] # c
      PROVE  \E i \in DOMAIN rest : rest[i] = ws[n]
  <2>1. n \in Nat /\ k \in Nat /\ n # k
    BY <1>1, <1>3, <1>8
  <2>2. CASE n < k
    BY <1>1, <1>3, <1>5, <2>1, <2>2
  <2>3. CASE n > k
    <3>1. n - 1 \in DOMAIN rest /\ ~(n - 1 < k) /\ (n - 1) + 1 = n
      BY <1>1, <1>3, <1>5, <2>1, <2>3
    <3> QED BY <1>5, <3>1
  <2> QED BY <2>1, <2>2, <2>3
<1> QED BY <1>2, <1>5, <1>6, <1>7, <1>8

----------------------------------------------------------------------------
\* The invariants the limiter's methods keep together.

LEMMA Counts ==
  ASSUME TypeOK
  PROVE  /\ IsFiniteSet(holding) /\ IsFiniteSet(woken)
         /\ Cardinality(holding) \in Nat /\ Cardinality(woken) \in Nat
  BY CallerAssumption, FS_Subset, FS_CardinalityType DEF TypeOK

LEMMA InitInv == Init => Inv
  BY LimitAssumption, FS_EmptySet
     DEF Init, Inv, TypeOK, SlotsAccounted, NoLostWakeup, Distinct, Waiting

LEMMA AcquireKeepsInv ==
  ASSUME Inv, NEW c \in Caller, Acquire(c)
  PROVE  Inv'
<1> USE DEF Inv
<1>1. /\ c \notin Waiting /\ c \notin woken /\ c \notin leaving /\ c \notin holding
  BY DEF Acquire, Idle
<1>2. inUse \in Nat /\ limit \in Nat /\ limit \in 1..MaxLimit
  BY LimitAssumption DEF TypeOK
<1>3. CASE inUse < limit
  <2>1. /\ inUse' = inUse + 1 /\ holding' = holding \cup {c}
        /\ waiters' = waiters /\ limit' = limit /\ woken' = woken /\ leaving' = leaving
    BY <1>3 DEF Acquire
  <2>2. Waiting' = Waiting
    BY <2>1 DEF Waiting
  <2>3. TypeOK'
    BY <1>1, <1>2, <2>1, <2>2 DEF TypeOK
  <2>4. Cardinality(holding') = Cardinality(holding) + 1
    BY <1>1, <2>1, Counts, FS_AddElement
  <2>5. SlotsAccounted'
    BY <1>2, <2>1, <2>4, Counts DEF SlotsAccounted
  <2>6. NoLostWakeup'
    BY <1>2, <1>3, <2>1 DEF NoLostWakeup
  <2> QED BY <2>3, <2>5, <2>6
<1>4. CASE ~(inUse < limit)
  <2>1. /\ inUse' = inUse /\ holding' = holding
        /\ waiters' = Append(waiters, c)
        /\ limit' = limit /\ woken' = woken /\ leaving' = leaving
    BY <1>4 DEF Acquire
  <2>2. waiters \in Seq(Caller) /\ Distinct(waiters)
    BY DEF TypeOK
  <2>3. /\ waiters' \in Seq(Caller) /\ Len(waiters) \in Nat
        /\ DOMAIN waiters = 1..Len(waiters) /\ DOMAIN waiters' = 1..(Len(waiters) + 1)
        /\ \A i \in 1..Len(waiters) : waiters'[i] = waiters[i]
        /\ waiters'[Len(waiters) + 1] = c
    BY <2>1, <2>2
  <2>4. Waiting' = Waiting \cup {c}
    BY <2>3 DEF Waiting
  <2>5. \A i \in 1..Len(waiters) : waiters[i] # c
    BY <1>1, <2>3 DEF Waiting
  <2>6. Distinct(waiters')
    <3> SUFFICES ASSUME NEW i \in DOMAIN waiters', NEW j \in DOMAIN waiters',
                        waiters'[i] = waiters'[j]
                 PROVE  i = j
      BY DEF Distinct
    <3>1. (i \in 1..Len(waiters) \/ i = Len(waiters) + 1)
          /\ (j \in 1..Len(waiters) \/ j = Len(waiters) + 1)
      BY <2>3
    <3> QED BY <2>2, <2>3, <2>5, <3>1 DEF Distinct
  <2>7. TypeOK'
    BY <1>1, <2>1, <2>3, <2>4, <2>6 DEF TypeOK
  <2> QED BY <1>2, <1>4, <2>1, <2>7 DEF SlotsAccounted, NoLostWakeup
<1> QED BY <1>3, <1>4

LEMMA WakeKeepsInv ==
  ASSUME Inv, NEW c \in Caller, Wake(c)
  PROVE  Inv'
<1> USE DEF Inv
<1>1. /\ c \in woken /\ c \notin leaving /\ c \notin holding
      /\ woken' = woken \ {c} /\ holding' = holding \cup {c}
      /\ limit' = limit /\ inUse' = inUse /\ waiters' = waiters /\ leaving' = leaving
  BY DEF Wake, TypeOK
<1>2. Waiting' = Waiting
  BY <1>1 DEF Waiting
<1>3. TypeOK'
  BY <1>1, <1>2 DEF TypeOK
<1>4. /\ Cardinality(holding') = Cardinality(holding) + 1
      /\ Cardinality(woken') = Cardinality(woken) - 1
  BY <1>1, Counts, FS_AddElement, FS_RemoveElement
<1> QED BY <1>1, <1>3, <1>4, Counts DEF SlotsAccounted, NoLostWakeup, TypeOK

LEMMA CancelKeepsInv ==
  ASSUME Inv, NEW c \in Caller, Cancel(c)
  PROVE  Inv'
<1>1. /\ c \in Waiting \cup woken /\ leaving' = leaving \cup {c}
      /\ UNCHANGED <<limit, inUse, waiters, woken, holding>> /\ Waiting' = Waiting
  BY DEF Cancel, Waiting
<1> QED BY <1>1 DEF Inv, TypeOK, SlotsAccounted, NoLostWakeup

\* A step that frees a slot, or changes the limit, and then hands on the room.
LEMMA AdmittingKeepsInv ==
  ASSUME Inv, NEW used \in Nat, NEW newLimit \in 1..MaxLimit, limit' = newLimit,
         NEW asleep \in SUBSET woken,
         AdmitLocked(used, newLimit, waiters, asleep),
         used = Cardinality(holding') + Cardinality(asleep),
         holding' \subseteq holding,
         leaving' = leaving \ (woken \ asleep)
  PROVE  Inv'
<1> USE DEF Inv
<1>1. waiters \in Seq(Caller) /\ Distinct(waiters) /\ newLimit \in Nat
  BY LimitAssumption DEF TypeOK
<1>2. asleep \in SUBSET Caller /\ (\A i \in DOMAIN waiters : waiters[i] \notin asleep)
  BY DEF TypeOK, Waiting
<1>3. /\ inUse' \in Nat
      /\ waiters' \in Seq(Caller) /\ Distinct(waiters')
      /\ woken' \subseteq Caller \ Waiting'
      /\ Waiting' \cup woken' = {waiters[i] : i \in DOMAIN waiters} \cup asleep
      /\ Cardinality(woken') + used = Cardinality(asleep) + inUse'
      /\ waiters' # <<>> => inUse' >= newLimit
  BY <1>1, <1>2, Admits
<1>4. Waiting' \cup woken' = Waiting \cup asleep
  BY <1>3 DEF Waiting
<1>5. TypeOK'
  BY <1>3, <1>4 DEF TypeOK
<1>6. /\ IsFiniteSet(holding') /\ IsFiniteSet(woken') /\ IsFiniteSet(asleep)
  BY <1>2, <1>5, CallerAssumption, FS_Subset DEF TypeOK
<1>7. /\ Cardinality(holding') \in Nat /\ Cardinality(woken') \in Nat
      /\ Cardinality(asleep) \in Nat
  BY <1>6, FS_CardinalityType
<1>8. SlotsAccounted'
  BY <1>3, <1>7 DEF SlotsAccounted
<1> QED BY <1>3, <1>5, <1>8 DEF NoLostWakeup

LEMMA AbandonKeepsInv ==
  ASSUME Inv, NEW c \in Caller, Abandon(c)
  PROVE  Inv'
<1> USE DEF Inv
<1>1. c \in leaving /\ leaving' = leaving \ {c} /\ limit' = limit /\ holding' = holding
  BY DEF Abandon
<1>2. CASE c \in Waiting
  <2>1. waiters' = Without(waiters, c) /\ inUse' = inUse /\ woken' = woken
    BY <1>2 DEF Abandon
  <2>2. waiters \in Seq(Caller) /\ Distinct(waiters) /\ c \in {waiters[i] : i \in DOMAIN waiters}
    BY <1>2 DEF TypeOK, Waiting
  <2>3. /\ waiters' \in Seq(Caller) /\ Distinct(waiters')
        /\ Waiting' = Waiting \ {c}
    BY <2>1, <2>2, WithoutRemoves DEF Waiting
  <2>4. TypeOK'
    BY <1>1, <2>1, <2>3 DEF TypeOK
  <2>5. waiters # <<>>
    BY <2>2
  <2> QED BY <1>1, <2>1, <2>4, <2>5 DEF SlotsAccounted, NoLostWakeup
<1>3. CASE c \notin Waiting
  <2>1. AdmitLocked(Given(inUse), limit, waiters, woken \ {c})
    BY <1>3 DEF Abandon
  <2>2. c \in woken /\ limit \in 1..MaxLimit /\ inUse \in Nat
    BY <1>1, <1>3 DEF TypeOK
  <2>3. Cardinality(woken \ {c}) = Cardinality(woken) - 1
    BY <2>2, Counts, FS_RemoveElement
  <2>4. IsFiniteSet(woken \ {c}) /\ Cardinality(woken \ {c}) \in Nat
    BY Counts, FS_RemoveElement, FS_CardinalityType
  <2>5. Given(inUse) \in Nat /\ Given(inUse) = Cardinality(holding') + Cardinality(woken \ {c})
    BY <1>1, <2>2, <2>3, <2>4, Counts DEF Given, SlotsAccounted
  <2>6. woken \ {c} \in SUBSET woken /\ leaving' = leaving \ (woken \ (woken \ {c}))
    BY <1>1, <2>2
  <2> QED BY <1>1, <2>1, <2>2, <2>5, <2>6, AdmittingKeepsInv
<1> QED BY <1>2, <1>3

LEMMA ReleaseKeepsInv ==
  ASSUME Inv, NEW c \in Caller, Release(c)
  PROVE  Inv'
<1> USE DEF Inv
<1>1. /\ c \in holding /\ holding' = holding \ {c}
      /\ limit' = limit /\ leaving' = leaving
      /\ AdmitLocked(Given(inUse), limit, waiters, woken)
  BY DEF Release
<1>2. limit \in 1..MaxLimit /\ inUse \in Nat
  BY DEF TypeOK
<1>3. Cardinality(holding') = Cardinality(holding) - 1
  BY <1>1, Counts, FS_RemoveElement
<1>4. IsFiniteSet(holding') /\ Cardinality(holding') \in Nat
  BY <1>1, Counts, FS_RemoveElement, FS_CardinalityType
<1>5. Given(inUse) \in Nat /\ Given(inUse) = Cardinality(holding') + Cardinality(woken)
  BY <1>2, <1>3, <1>4, Counts DEF Given, SlotsAccounted
<1>6. woken \in SUBSET woken /\ leaving' = leaving \ (woken \ woken) /\ holding' \subseteq holding
  BY <1>1
<1> QED BY <1>1, <1>2, <1>5, <1>6, AdmittingKeepsInv

LEMMA SetLimitKeepsInv ==
  ASSUME Inv, NEW n \in 1..MaxLimit, SetLimit(n)
  PROVE  Inv'
<1> USE DEF Inv
<1>1. /\ limit' = n /\ AdmitLocked(inUse, n, waiters, woken)
      /\ leaving' = leaving /\ holding' = holding
  BY DEF SetLimit
<1>2. inUse \in Nat /\ inUse = Cardinality(holding') + Cardinality(woken)
  BY <1>1 DEF TypeOK, SlotsAccounted
<1>3. woken \in SUBSET woken /\ leaving' = leaving \ (woken \ woken) /\ holding' \subseteq holding
  BY <1>1
<1> QED BY <1>1, <1>2, <1>3, AdmittingKeepsInv

LEMMA InvStep == Inv /\ [Next]_limiterVars => Inv'
<1> SUFFICES ASSUME Inv, [Next]_limiterVars PROVE Inv'
  OBVIOUS
<1>1. ASSUME NEW c \in Caller, Acquire(c) PROVE Inv'
  BY <1>1, AcquireKeepsInv
<1>2. ASSUME NEW c \in Caller, Wake(c) PROVE Inv'
  BY <1>2, WakeKeepsInv
<1>3. ASSUME NEW c \in Caller, Cancel(c) PROVE Inv'
  BY <1>3, CancelKeepsInv
<1>4. ASSUME NEW c \in Caller, Abandon(c) PROVE Inv'
  BY <1>4, AbandonKeepsInv
<1>5. ASSUME NEW c \in Caller, Release(c) PROVE Inv'
  BY <1>5, ReleaseKeepsInv
<1>6. ASSUME NEW n \in 1..MaxLimit, SetLimit(n) PROVE Inv'
  BY <1>6, SetLimitKeepsInv
<1>7. CASE UNCHANGED limiterVars
  BY <1>7 DEF limiterVars, Inv, TypeOK, SlotsAccounted, NoLostWakeup, Waiting
<1> QED BY <1>1, <1>2, <1>3, <1>4, <1>5, <1>6, <1>7 DEF Next

LEMMA InvHolds == Spec => []Inv
  BY InitInv, InvStep, PTL DEF Spec

\* The limiter's state keeps its shape: nobody is queued twice, or queued and
\* admitted at once.
THEOREM TypeCorrect == Spec => []TypeOK
<1>1. Inv => TypeOK
  BY DEF Inv
<1> QED BY <1>1, InvHolds, PTL

\* No slot leaks and none is held twice, for any number of callers and
\* whatever cancellations and resizes race.
THEOREM NoSlotLeaks == Spec => []SlotsAccounted
<1>1. Inv => SlotsAccounted
  BY DEF Inv
<1> QED BY <1>1, InvHolds, PTL

\* Nobody waits beside a free slot.
THEOREM WakeupsAreNeverLost == Spec => []NoLostWakeup
<1>1. Inv => NoLostWakeup
  BY DEF Inv
<1> QED BY <1>1, InvHolds, PTL

----------------------------------------------------------------------------
\* What a step never does.

LEMMA StepNeverOvercommits ==
  ASSUME Inv, Next
  PROVE  inUse' > inUse => inUse' <= limit'
<1>1. /\ waiters \in Seq(Caller) /\ Distinct(waiters)
      /\ inUse \in Nat /\ limit \in Nat /\ Given(inUse) \in Nat /\ Given(inUse) <= inUse
  BY LimitAssumption DEF Inv, TypeOK, Given
<1>2. \A asleep \in SUBSET woken :
        asleep \in SUBSET Caller /\ \A i \in DOMAIN waiters : waiters[i] \notin asleep
  BY DEF Inv, TypeOK, Waiting
<1>3. ASSUME NEW c \in Caller, Acquire(c) PROVE inUse' > inUse => inUse' <= limit'
  BY <1>1, <1>3 DEF Acquire
<1>4. ASSUME NEW c \in Caller, Wake(c) \/ Cancel(c) PROVE inUse' = inUse
  BY <1>4 DEF Wake, Cancel
<1>5. ASSUME NEW c \in Caller, Abandon(c) PROVE inUse' > inUse => inUse' <= limit'
  <2>1. CASE c \in Waiting
    BY <1>1, <1>5, <2>1 DEF Abandon
  <2>2. CASE c \notin Waiting
    <3>1. AdmitLocked(Given(inUse), limit, waiters, woken \ {c}) /\ limit' = limit
      BY <1>5, <2>2 DEF Abandon
    <3>2. woken \ {c} \in SUBSET woken
      OBVIOUS
    <3>3. inUse' \in Nat /\ (inUse' > Given(inUse) => inUse' <= limit)
      BY <1>1, <1>2, <3>1, <3>2, Admits
    <3> QED BY <1>1, <3>1, <3>3
  <2> QED BY <2>1, <2>2
<1>6. ASSUME NEW c \in Caller, Release(c) PROVE inUse' > inUse => inUse' <= limit'
  <2>1. AdmitLocked(Given(inUse), limit, waiters, woken) /\ limit' = limit
    BY <1>6 DEF Release
  <2>2. inUse' \in Nat /\ (inUse' > Given(inUse) => inUse' <= limit)
    BY <1>1, <1>2, <2>1, Admits
  <2> QED BY <1>1, <2>1, <2>2
<1>7. ASSUME NEW n \in 1..MaxLimit, SetLimit(n) PROVE inUse' > inUse => inUse' <= limit'
  <2>1. AdmitLocked(inUse, n, waiters, woken) /\ limit' = n /\ n \in Nat
    BY <1>7, LimitAssumption DEF SetLimit
  <2> QED BY <1>1, <1>2, <2>1, Admits
<1>8. ASSUME inUse' = inUse PROVE ~(inUse' > inUse)
  BY <1>1, <1>8
<1> QED BY <1>3, <1>4, <1>5, <1>6, <1>7, <1>8 DEF Next

\* The limiter gives no slot out above the limit in force, for every limit and
\* however it is changed.
THEOREM NeverOvercommits == Spec => NoOvercommit
<1>1. Inv /\ [Next]_limiterVars => [inUse' > inUse => inUse' <= limit']_limiterVars
  BY StepNeverOvercommits
<1> QED BY <1>1, InvHolds, PTL DEF Spec, NoOvercommit

Ordered(c) ==
  \A i \in DOMAIN waiters :
    (\E j \in DOMAIN waiters' : waiters'[j] = waiters[i]) =>
      \E k \in 1..(i - 1) : waiters[k] = c

\* admitLocked wakes a prefix of the queue.
LEMMA AdmitsInOrder ==
  ASSUME Inv, NEW used \in Nat, NEW newLimit \in Nat, NEW asleep \in SUBSET woken,
         AdmitLocked(used, newLimit, waiters, asleep),
         NEW c \in woken' \ woken
  PROVE  Ordered(c)
<1> DEFINE k == Room(used, newLimit, waiters)
<1>1. waiters \in Seq(Caller) /\ Distinct(waiters)
  BY DEF Inv, TypeOK
<1>2. /\ k \in 0..Len(waiters)
      /\ waiters' = SubSeq(waiters, k + 1, Len(waiters))
      /\ woken' = asleep \cup {waiters[i] : i \in 1..k}
  BY <1>1, RoomBounds DEF AdmitLocked
<1> HIDE DEF k
<1>3. PICK m \in 1..k : c = waiters[m]
  BY <1>2
<1>4. /\ Len(waiters) \in Nat /\ DOMAIN waiters = 1..Len(waiters) /\ k \in Nat
      /\ DOMAIN waiters' = 1..(Len(waiters) - k)
      /\ \A j \in 1..(Len(waiters) - k) : waiters'[j] = waiters[j + k]
  BY <1>1, <1>2
<1> SUFFICES ASSUME NEW i \in DOMAIN waiters, NEW j \in DOMAIN waiters', waiters'[j] = waiters[i]
             PROVE  m \in 1..(i - 1)
  BY <1>3 DEF Ordered
<1>5. j \in 1..(Len(waiters) - k) /\ j + k \in DOMAIN waiters
  BY <1>4
<1>6. waiters[j + k] = waiters[i]
  BY <1>4, <1>5
<1>7. i = j + k
  BY <1>1, <1>5, <1>6 DEF Distinct
<1> QED BY <1>3, <1>4, <1>5, <1>7

LEMMA StepInOrder ==
  ASSUME Inv, Next, NEW c \in (holding' \cup woken') \ (holding \cup woken)
  PROVE  Ordered(c)
<1>1. inUse \in Nat /\ limit \in Nat /\ Given(inUse) \in Nat
  BY LimitAssumption DEF Inv, TypeOK, Given
<1>2. ASSUME NEW d \in Caller, Acquire(d) PROVE Ordered(c)
  <2>1. inUse < limit
    BY <1>2 DEF Acquire
  <2>2. waiters = <<>>
    BY <1>1, <2>1 DEF Inv, NoLostWakeup
  <2> QED BY <2>2 DEF Ordered
<1>3. ASSUME NEW d \in Caller, Wake(d) \/ Cancel(d) PROVE Ordered(c)
  BY <1>3 DEF Wake, Cancel
<1>4. ASSUME NEW d \in Caller, Abandon(d) PROVE Ordered(c)
  <2>1. CASE d \in Waiting
    BY <1>4, <2>1 DEF Abandon
  <2>2. CASE d \notin Waiting
    <3>1. AdmitLocked(Given(inUse), limit, waiters, woken \ {d}) /\ holding' = holding
      BY <1>4, <2>2 DEF Abandon
    <3> QED BY <1>1, <3>1, AdmitsInOrder
  <2> QED BY <2>1, <2>2
<1>5. ASSUME NEW d \in Caller, Release(d) PROVE Ordered(c)
  <2>1. AdmitLocked(Given(inUse), limit, waiters, woken) /\ holding' \subseteq holding
    BY <1>5 DEF Release
  <2> QED BY <1>1, <2>1, AdmitsInOrder
<1>6. ASSUME NEW n \in 1..MaxLimit, SetLimit(n) PROVE Ordered(c)
  <2>1. AdmitLocked(inUse, n, waiters, woken) /\ holding' = holding /\ n \in Nat
    BY <1>6, LimitAssumption DEF SetLimit
  <2> QED BY <1>1, <2>1, AdmitsInOrder
<1> QED BY <1>2, <1>3, <1>4, <1>5, <1>6 DEF Next

\* Slots go to the longest waiting, and no newcomer overtakes the queue.
THEOREM FirstComeFirstServed == Spec => LongestWaitingFirst
<1> DEFINE A == \A c \in (holding' \cup woken') \ (holding \cup woken) : Ordered(c)
<1>1. Inv /\ [Next]_limiterVars => [A]_limiterVars
  BY StepInOrder
<1>2. LongestWaitingFirst <=> [][A]_limiterVars
  BY DEF LongestWaitingFirst, Ordered
<1> QED BY <1>1, <1>2, InvHolds, PTL DEF Spec
=============================================================================
