------------------------- MODULE OdomComposerProofs -------------------------
(***************************************************************************)
(* Proofs about OdomComposer, for every set of streams, wrap, tolerance,   *)
(* deadline and capacity.  Order, completeness and the bounds hold         *)
(* whatever the histories are, and what decides when an epoch is ready is  *)
(* not looked into for them; that the members are the best there will be   *)
(* is proved at the end, from what the histories keep.                     *)
(***************************************************************************)
EXTENDS OdomComposer, SequenceTheorems, FiniteSetTheorems, TLAPS

-----------------------------------------------------------------------------
(* Timestamps.  The signed difference of two of them is the difference of  *)
(* the times they stand for, as long as these are less than half a wrap    *)
(* apart.                                                                  *)

(* A number written as quotient and remainder has that remainder. *)
LEMMA Remainder ==
  ASSUME NEW q \in Int, NEW r \in 0 .. (Wrap - 1)
  PROVE  (Wrap * q + r) % Wrap = r
BY WrapAssumption

(* The two cases of the signed difference: forwards, as it comes, *)
LEMMA DeltaForward ==
  ASSUME NEW x \in Int, NEW y \in Int, NEW d \in Int, (x - y) % Wrap = d, 2 * d < Wrap
  PROVE  SignedDelta(x, y) = d
BY WrapAssumption DEF SignedDelta

(* and backwards, where the difference comes out one wrap too large. *)
LEMMA DeltaBackward ==
  ASSUME NEW x \in Int, NEW y \in Int, NEW d \in Int,
         (x - y) % Wrap = d + Wrap, 2 * (d + Wrap) >= Wrap
  PROVE  SignedDelta(x, y) = d
BY WrapAssumption DEF SignedDelta

-----------------------------------------------------------------------------
(* The front of a queue.                                                   *)

(* A set of naturals has a least element: among the intervals that end in  *)
(* one of them one is minimal under inclusion.                             *)
LEMMA LeastOf ==
  ASSUME NEW S \in SUBSET Nat, S # {}
  PROVE  \E least \in S : \A n \in S : least <= n
<1> DEFINE upTo == {0 .. n : n \in S}
<1>1. upTo \subseteq FiniteSubsetsOf(Nat) /\ upTo # {}
  <2>1. \A n \in S : IsFiniteSet(0 .. n)
        BY FS_Interval
  <2>2. \A n \in S : 0 .. n \in FiniteSubsetsOf(Nat)
        BY <2>1 DEF FiniteSubsetsOf
  <2> QED
      BY <2>2
<1>2. \E interval \in upTo :
        \A other \in upTo : <<other, interval>> \notin StrictSubsetOrdering(Nat)
  <2>1. IsWellFoundedOn(StrictSubsetOrdering(Nat), FiniteSubsetsOf(Nat))
        BY FS_StrictSubsetOrderingWellFounded
  <2> HIDE DEF upTo
  <2> QED
      BY <1>1, <2>1, WFMin
<1>3. PICK least \in S :
        \A other \in upTo : <<other, 0 .. least>> \notin StrictSubsetOrdering(Nat)
      BY <1>2
<1>4. SUFFICES ASSUME NEW n \in S, n < least PROVE FALSE
      BY <1>3
<1>5. 0 .. n \subseteq 0 .. least /\ 0 .. n # 0 .. least
  <2>1. least \in 0 .. least /\ least \notin 0 .. n
        BY <1>4
  <2>2. 0 .. n \subseteq 0 .. least
        BY <1>4
  <2> QED
      BY <2>1, <2>2
<1>6. <<0 .. n, 0 .. least>> \in StrictSubsetOrdering(Nat)
  <2>1. 0 .. n \in SUBSET Nat /\ 0 .. least \in SUBSET Nat
        OBVIOUS
  <2> QED
      BY <1>5, <2>1 DEF StrictSubsetOrdering
<1> QED
    BY <1>3, <1>6

(* Leading is the length of the longest prefix of 1 .. n in the set. *)
LEMMA LeadingIs ==
  ASSUME NEW set, NEW n \in Nat
  PROVE  /\ Leading(set, n) \in 0 .. n
         /\ 1 .. Leading(set, n) \subseteq set
         /\ Leading(set, n) < n => Leading(set, n) + 1 \notin set
<1> DEFINE outside == {i \in 1 .. n : i \notin set}
           good(k) == 1 .. k \subseteq set /\ (k < n => k + 1 \notin set)
<1>1. \E k \in 0 .. n : good(k)
  <2>1. CASE outside = {}
        BY <2>1
  <2>2. CASE outside # {}
    <3>1. PICK least \in outside : \A i \in outside : least <= i
      <4>1. outside \in SUBSET Nat
            OBVIOUS
      <4> HIDE DEF outside
      <4> QED
          BY <2>2, <4>1, LeastOf
    <3>2. least - 1 \in 0 .. n /\ good(least - 1)
          BY <3>1
    <3> QED
        BY <3>2
  <2> QED
      BY <2>1, <2>2
<1>2. Leading(set, n) = CHOOSE k \in 0 .. n : good(k)
      BY DEF Leading
<1>3. Leading(set, n) \in 0 .. n /\ good(Leading(set, n))
  <2> HIDE DEF good
  <2> QED
      BY <1>1, <1>2
<1> QED
    BY <1>3

-----------------------------------------------------------------------------
(* A call of try_compose_odometry, and of odom_epoch, on any state.        *)

Fields == {"pending", "lastOdom", "drops", "lost", "sent", "refused"}

Sound(state) ==
  /\ DOMAIN state = Fields
  /\ state.pending \in Seq(Entries)
  /\ state.lastOdom \in Int \cup {None} /\ state.refused \in Int \cup {None}
  /\ state.drops \in Nat /\ state.lost \in Nat

(* Which epochs of a state are ready, and how many of them a call retires. *)
ReadyOnes(state, histories, force) ==
  {i \in DOMAIN state.pending : (force /\ i = 1) \/ Ready(histories, state.pending[i])}

LEMMA RetiringIs ==
  ASSUME NEW state, Sound(state), NEW histories, NEW force
  PROVE  LET n == Retiring(state, histories, force)
         IN  /\ n \in 0 .. Len(state.pending)
             /\ 1 .. n \subseteq ReadyOnes(state, histories, force)
             /\ n < Len(state.pending) => n + 1 \notin ReadyOnes(state, histories, force)
<1>1. Len(state.pending) \in Nat
      BY LenProperties DEF Sound
<1>2. Retiring(state, histories, force) =
        Leading(ReadyOnes(state, histories, force), Len(state.pending))
      BY DEF Retiring, ReadyOnes
<1> QED
    BY <1>1, <1>2, LeadingIs

(* Its effect on the queue: the ready ones from the front are taken out.   *)
LEMMA ComposeIs ==
  ASSUME NEW state, Sound(state), NEW histories, NEW force
  PROVE  LET n == Retiring(state, histories, force)
             next == Compose(state, histories, force)
         IN  /\ DOMAIN next = Fields
             /\ next.pending = SubSeq(state.pending, n + 1, Len(state.pending))
             /\ next.lastOdom = IF n = 0 THEN state.lastOdom ELSE state.pending[n].time
             /\ next.refused = state.refused
<1> DOMAIN state = Fields
    BY DEF Sound
<1> QED
    BY DEF Compose, Fields

(* Its effect on the counters: with some epochs lost, at least as many and *)
(* at most so many members are counted as each of them may lack.           *)
LEMMA ComposeCounts ==
  ASSUME NEW state, Sound(state), NEW histories, NEW force
  PROVE  LET next == Compose(state, histories, force)
         IN  \E epochs \in Nat, members \in Nat :
               /\ next.lost = state.lost + epochs /\ next.drops = state.drops + members
               /\ epochs <= members /\ members <= epochs * Cardinality(Required)
<1> DEFINE n == Retiring(state, histories, force)
           missing(i) == Missing(histories, state.pending[i])
           whole == {i \in 1 .. n : missing(i) = {}}
           losing == (1 .. n) \ whole
           pairs == {lack \in (1 .. n) \X Members : lack[2] \in missing(lack[1])}
           next == Compose(state, histories, force)
<1>1. n \in Nat
      BY RetiringIs, LenProperties DEF Sound
<1>2. next.lost = state.lost + n - Cardinality(whole) /\ next.drops = state.drops + Cardinality(pairs)
  <2> DOMAIN state = Fields
      BY DEF Sound
  <2> QED
      BY DEF Compose, Fields
<1>3. \A i : missing(i) \subseteq Required
      BY DEF Missing
<1>4. IsFiniteSet(Required) /\ Cardinality(Required) \in Nat
      BY ComposerAssumption, FS_Subset, FS_CardinalityType
<1>5. /\ IsFiniteSet(1 .. n) /\ Cardinality(1 .. n) = n
      /\ IsFiniteSet(whole) /\ IsFiniteSet(losing)
  <2>1. IsFiniteSet(1 .. n) /\ Cardinality(1 .. n) = n
        BY <1>1, FS_Interval
  <2> QED
      BY <2>1, FS_Subset
<1>6. Cardinality(losing) = n - Cardinality(whole) /\ Cardinality(losing) \in Nat
  <2>1. Cardinality(losing) = Cardinality(1 .. n) - Cardinality((1 .. n) \cap whole)
        BY <1>5, FS_Difference
  <2>2. (1 .. n) \cap whole = whole
        OBVIOUS
  <2> QED
      BY <1>5, <2>1, <2>2, FS_CardinalityType
<1>7. /\ IsFiniteSet(pairs) /\ Cardinality(pairs) \in Nat
      /\ Cardinality(pairs) <= Cardinality(losing) * Cardinality(Required)
  <2>1. pairs \subseteq losing \X Required
        BY <1>3
  <2>2. /\ IsFiniteSet(losing \X Required)
        /\ Cardinality(losing \X Required) = Cardinality(losing) * Cardinality(Required)
        BY <1>4, <1>5, FS_Product
  <2> HIDE DEF pairs, losing
  <2>3. IsFiniteSet(pairs) /\ Cardinality(pairs) <= Cardinality(losing \X Required)
        BY <2>1, <2>2, FS_Subset
  <2> QED
      BY <2>2, <2>3, FS_CardinalityType
<1>8. Cardinality(losing) <= Cardinality(pairs)
  <2> DEFINE lacked == [i \in losing |-> <<i, CHOOSE member \in Members : member \in missing(i)>>]
  <2>1. \A i \in losing : \E member \in Members : member \in missing(i)
        BY <1>3, ComposerAssumption
  <2>2. lacked \in [losing -> pairs]
    <3>1. \A i \in losing : lacked[i] \in pairs
      <4> SUFFICES ASSUME NEW i \in losing PROVE lacked[i] \in pairs
          OBVIOUS
      <4> DEFINE one == CHOOSE member \in Members : member \in missing(i)
      <4>1. one \in Members /\ one \in missing(i)
            BY <2>1
      <4>2. lacked[i] = <<i, one>> /\ i \in 1 .. n
            OBVIOUS
      <4> QED
          BY <4>1, <4>2
    <3> QED
        BY <3>1
  <2>3. \A i, j \in losing : lacked[i] = lacked[j] => i = j
        OBVIOUS
  <2>4. lacked \in Injection(losing, pairs)
        BY <2>2, <2>3 DEF Injection, IsInjective
  <2> HIDE DEF pairs, losing, lacked
  <2> QED
      BY <1>7, <2>4, FS_Injection
<1> HIDE DEF pairs, losing, whole, next, n
<1>9. state.lost \in Nat /\ state.drops \in Nat /\ Cardinality(whole) \in Int
      BY <1>5, FS_CardinalityType DEF Sound
<1>10. next.lost = state.lost + Cardinality(losing)
       BY <1>1, <1>2, <1>6, <1>9
<1> QED
    BY <1>2, <1>6, <1>7, <1>8, <1>10 DEF next

(* The rest of a queue whose first n entries are gone. *)
LEMMA RestOf ==
  ASSUME NEW queue \in Seq(Entries), NEW n \in 0 .. Len(queue)
  PROVE  LET rest == SubSeq(queue, n + 1, Len(queue))
         IN  /\ rest \in Seq(Entries) /\ DOMAIN rest = 1 .. Len(queue) - n
             /\ Len(rest) = Len(queue) - n
             /\ \A i \in 1 .. Len(queue) - n : rest[i] = queue[n + i]
<1> DEFINE rest == SubSeq(queue, n + 1, Len(queue))
<1>1. Len(queue) \in Nat /\ \A i \in 1 .. Len(queue) : queue[i] \in Entries
      BY LenProperties, ElementOfSeq
<1>2. /\ rest \in Seq(Entries)
      /\ Len(rest) = IF n + 1 <= Len(queue) THEN Len(queue) - (n + 1) + 1 ELSE 0
      /\ \A i \in 1 .. Len(queue) - (n + 1) + 1 : rest[i] = queue[(n + 1) + i - 1]
  <2>1. n + 1 \in Int /\ Len(queue) \in Int /\ \A i \in (n + 1) .. Len(queue) : queue[i] \in Entries
        BY <1>1
  <2> QED
      BY <2>1, SubSeqProperties
<1>3. Len(rest) = Len(queue) - n /\ \A i \in 1 .. Len(queue) - n : rest[i] = queue[n + i]
      BY <1>1, <1>2
<1>4. DOMAIN rest = 1 .. Len(rest)
      BY <1>2, LenProperties
<1> QED
    BY <1>2, <1>3, <1>4

(* A queue with one entry more. *)
Longer(longer, queue, at, entry) ==
  /\ longer \in Seq(Entries) /\ DOMAIN longer = 1 .. Len(queue) + 1
  /\ Len(longer) = Len(queue) + 1
  /\ \A i \in 1 .. Len(queue) + 1 :
       longer[i] = IF i < at THEN queue[i] ELSE IF i = at THEN entry ELSE queue[i - 1]

LEMMA InsertAtIs ==
  ASSUME NEW queue \in Seq(Entries), NEW at \in Nat, at >= 1, at <= Len(queue) + 1, NEW entry \in Entries,
         NEW longer, longer = InsertAt(queue, at, entry)
  PROVE  Longer(longer, queue, at, entry)
<1> DEFINE before == SubSeq(queue, 1, at - 1)
           after == SubSeq(queue, at, Len(queue))
<1>1. Len(queue) \in Nat /\ \A i \in 1 .. Len(queue) : queue[i] \in Entries
      BY LenProperties, ElementOfSeq
<1>2. /\ before \in Seq(Entries) /\ Len(before) = at - 1
      /\ \A i \in 1 .. at - 1 : before[i] = queue[i]
  <2>1. at - 1 \in Int /\ \A i \in 1 .. at - 1 : queue[i] \in Entries
        BY <1>1
  <2>2. /\ before \in Seq(Entries)
        /\ Len(before) = IF 1 <= at - 1 THEN (at - 1) - 1 + 1 ELSE 0
        /\ \A i \in 1 .. (at - 1) - 1 + 1 : before[i] = queue[1 + i - 1]
        BY <2>1, SubSeqProperties
  <2>3. at \in Int /\ at >= 1 /\ (at - 1) - 1 + 1 = at - 1
        BY <1>1
  <2> HIDE DEF before
  <2>4. \A i \in 1 .. at - 1 : before[i] = queue[i]
    <3>1. \A i \in 1 .. at - 1 : 1 + i - 1 = i
          BY <2>3
    <3> QED
        BY <2>2, <2>3, <3>1
  <2> QED
      BY <2>2, <2>3, <2>4
<1>3. /\ after \in Seq(Entries) /\ Len(after) = Len(queue) - (at - 1)
      /\ \A i \in 1 .. Len(queue) - (at - 1) : after[i] = queue[(at - 1) + i]
  <2>1. at - 1 \in 0 .. Len(queue) /\ (at - 1) + 1 = at
        BY <1>1
  <2> QED
      BY <2>1, RestOf
<1>4. /\ <<entry>> \in Seq(Entries) /\ Len(<<entry>>) = 1 /\ <<entry>>[1] = entry
      OBVIOUS
<1> DEFINE front == before \o <<entry>>
<1> HIDE DEF before, after
<1>5. /\ front \in Seq(Entries) /\ Len(front) = at
      /\ \A i \in 1 .. at : front[i] = IF i < at THEN queue[i] ELSE entry
  <2>1. /\ front \in Seq(Entries) /\ Len(front) = Len(before) + Len(<<entry>>)
        /\ \A i \in 1 .. Len(before) + Len(<<entry>>) :
             front[i] = IF i <= Len(before) THEN before[i] ELSE <<entry>>[i - Len(before)]
        BY <1>2, <1>4, ConcatProperties
  <2> HIDE DEF front
  <2> QED
      BY <1>1, <1>2, <1>4, <2>1
<1>6. longer = front \o after
      BY DEF InsertAt, before, after
<1> HIDE DEF front
<1>7. /\ longer \in Seq(Entries) /\ Len(longer) = Len(front) + Len(after)
      /\ \A i \in 1 .. Len(front) + Len(after) :
           longer[i] = IF i <= Len(front) THEN front[i] ELSE after[i - Len(front)]
      BY <1>3, <1>5, <1>6, ConcatProperties
<1>8. /\ Len(longer) = Len(queue) + 1
      /\ \A i \in 1 .. Len(queue) + 1 :
           longer[i] = IF i < at THEN queue[i] ELSE IF i = at THEN entry ELSE queue[i - 1]
  <2>1. Len(front) + Len(after) = Len(queue) + 1
        BY <1>1, <1>3, <1>5
  <2>2. ASSUME NEW i \in 1 .. Len(queue) + 1
        PROVE  longer[i] = IF i < at THEN queue[i] ELSE IF i = at THEN entry ELSE queue[i - 1]
    <3>1. CASE i <= at
          BY <1>1, <1>5, <1>7, <2>1, <2>2, <3>1
    <3>2. CASE i > at
      <4>1. longer[i] = after[i - at] /\ i - at \in 1 .. Len(queue) - (at - 1)
            BY <1>1, <1>5, <1>7, <2>1, <2>2, <3>2
      <4>2. (at - 1) + (i - at) = i - 1
            BY <1>1, <2>2
      <4> QED
          BY <1>1, <1>3, <2>2, <3>2, <4>1, <4>2
    <3> QED
        BY <1>1, <2>2, <3>1, <3>2
  <2> QED
      BY <1>7, <2>1, <2>2
<1>9. DOMAIN longer = 1 .. Len(longer)
      BY <1>7, LenProperties
<1> QED
    BY <1>7, <1>8, <1>9 DEF Longer

(* Where odom_epoch inserts: in front of the first epoch that looks later. *)
InsertsAt(state, time, at) ==
  /\ Insert(state, time) =
       [state EXCEPT !.pending = InsertAt(state.pending, at, Entry(time))]
  /\ \A i \in 1 .. at - 1 : SignedDelta(time, state.pending[i].time) >= 0
  /\ at <= Len(state.pending) => ~(SignedDelta(time, state.pending[at].time) >= 0)

LEMMA InsertIs ==
  ASSUME NEW state, Sound(state), NEW time \in Int
  PROVE  \E at \in 1 .. Len(state.pending) + 1 : InsertsAt(state, time, at)
<1> DEFINE queue == state.pending
           earlier == {i \in DOMAIN queue : SignedDelta(time, queue[i].time) >= 0}
           later == DOMAIN queue \ earlier
           at == IF earlier = DOMAIN queue THEN Len(queue) + 1 ELSE Min(later)
<1>1. DOMAIN queue = 1 .. Len(queue) /\ Len(queue) \in Nat
      BY LenProperties DEF Sound
<1>2. Insert(state, time) = [state EXCEPT !.pending = InsertAt(state.pending, at, Entry(time))]
      BY DEF Insert
<1>3. /\ at \in 1 .. Len(queue) + 1 /\ 1 .. at - 1 \subseteq earlier
      /\ at <= Len(queue) => at \notin earlier
  <2>1. CASE earlier = DOMAIN queue
    <3>1. at = Len(queue) + 1
          BY <2>1
    <3> HIDE DEF at
    <3> QED
        BY <1>1, <2>1, <3>1
  <2>2. CASE earlier # DOMAIN queue
    <3>1. later \in SUBSET Nat /\ later # {}
          BY <1>1, <2>2
    <3>2. Min(later) \in later /\ \A i \in later : Min(later) <= i
      <4>1. \E least \in later : \A i \in later : least <= i
        <5> HIDE DEF later
        <5> QED
            BY <3>1, LeastOf
      <4> QED
          BY <4>1 DEF Min
    <3>3. at = Min(later)
          BY <2>2
    <3> HIDE DEF at
    <3>4. at \in 1 .. Len(queue) /\ at \notin earlier /\ \A i \in later : at <= i
          BY <1>1, <3>2, <3>3
    <3>5. \A i \in 1 .. at - 1 : i \in DOMAIN queue /\ i \notin later
          BY <1>1, <3>4
    <3> QED
        BY <1>1, <3>4, <3>5
  <2> QED
      BY <2>1, <2>2
<1> HIDE DEF at
<1>4. \A i \in 1 .. at - 1 : SignedDelta(time, state.pending[i].time) >= 0
      BY <1>3
<1>5. at <= Len(queue) => ~(SignedDelta(time, state.pending[at].time) >= 0)
      BY <1>1, <1>3
<1>6. InsertsAt(state, time, at)
      BY <1>2, <1>4, <1>5 DEF InsertsAt
<1> QED
    BY <1>3, <1>6

(* A forced call makes room. *)
LEMMA ForcedMakesRoom ==
  ASSUME NEW state, Sound(state), NEW histories, Len(state.pending) > 0
  PROVE  Retiring(state, histories, TRUE) > 0
<1>1. DOMAIN state.pending = 1 .. Len(state.pending) /\ Len(state.pending) \in Nat
      BY LenProperties DEF Sound
<1>2. 1 \in ReadyOnes(state, histories, TRUE)
      BY <1>1 DEF ReadyOnes
<1> DEFINE n == Retiring(state, histories, TRUE)
<1>3. n \in 0 .. Len(state.pending) /\ (n < Len(state.pending) => n + 1 \notin ReadyOnes(state, histories, TRUE))
      BY RetiringIs
<1>4. n # 0
  <2>1. SUFFICES ASSUME n = 0 PROVE FALSE
        OBVIOUS
  <2>2. 0 + 1 = 1 /\ 0 < Len(state.pending)
        BY <1>1
  <2>3. 0 + 1 \notin ReadyOnes(state, histories, TRUE)
        BY <1>3, <2>1, <2>2
  <2> QED
      BY <1>2, <2>2, <2>3
<1> DEFINE size == Len(state.pending)
<1>5. size \in Nat /\ n \in 0 .. size
      BY <1>1, <1>3
<1> HIDE DEF n, size
<1>6. n > 0
      BY <1>4, <1>5
<1> QED
    BY <1>6 DEF n

LEMMA ComposeSound ==
  ASSUME NEW state, Sound(state), NEW histories, NEW force
  PROVE  LET n == Retiring(state, histories, force)
             next == Compose(state, histories, force)
         IN  /\ Sound(next) /\ Len(next.pending) = Len(state.pending) - n
             /\ DOMAIN next.pending = 1 .. Len(state.pending) - n
             /\ \A i \in 1 .. Len(state.pending) - n : next.pending[i] = state.pending[n + i]
<1> DEFINE n == Retiring(state, histories, force)
           next == Compose(state, histories, force)
<1>1. n \in 0 .. Len(state.pending)
      BY RetiringIs
<1>2. /\ next.pending \in Seq(Entries) /\ Len(next.pending) = Len(state.pending) - n
      /\ DOMAIN next.pending = 1 .. Len(state.pending) - n
      /\ \A i \in 1 .. Len(state.pending) - n : next.pending[i] = state.pending[n + i]
  <2>1. next.pending = SubSeq(state.pending, n + 1, Len(state.pending))
        BY ComposeIs
  <2>2. state.pending \in Seq(Entries)
        BY DEF Sound
  <2> HIDE DEF n, next
  <2> QED
      BY <1>1, <2>1, <2>2, RestOf
<1>3. next.lastOdom \in Int \cup {None}
  <2>1. n # 0 => state.pending[n] \in Entries
        BY <1>1, ElementOfSeq, LenProperties DEF Sound
  <2> QED
      BY <2>1, ComposeIs DEF Sound, Entries
<1>4. next.drops \in Nat /\ next.lost \in Nat
  <2>1. PICK epochs \in Nat, members \in Nat :
          next.lost = state.lost + epochs /\ next.drops = state.drops + members
        BY ComposeCounts
  <2> HIDE DEF next
  <2> QED
      BY <2>1 DEF Sound
<1>5. DOMAIN next = Fields /\ next.refused \in Int \cup {None}
      BY ComposeIs DEF Sound
<1> QED
    BY <1>2, <1>3, <1>4, <1>5 DEF Sound

LEMMA QueueTyped ==
  ASSUME NEW state, Sound(state)
  PROVE  /\ Len(state.pending) \in Nat /\ DOMAIN state.pending = 1 .. Len(state.pending)
         /\ \A i \in 1 .. Len(state.pending) :
              state.pending[i].time \in Int /\ state.pending[i].received \in Int
<1> DEFINE queue == state.pending
<1>1. queue \in Seq(Entries)
      BY DEF Sound
<1> HIDE DEF queue
<1>2. Len(queue) \in Nat /\ DOMAIN queue = 1 .. Len(queue) /\ \A i \in 1 .. Len(queue) : queue[i] \in Entries
      BY <1>1, LenProperties, ElementOfSeq
<1>3. \A entry \in Entries : entry.time \in Int /\ entry.received \in Int
      BY DEF Entries
<1> QED
    BY <1>2, <1>3 DEF queue

(* A state that differs in its queue, or in what it refused. *)
LEMMA InsertSound ==
  ASSUME NEW state, Sound(state), clock \in Int, NEW time \in Int, NEW at \in 1 .. Len(state.pending) + 1
  PROVE  LET next == [state EXCEPT !.pending = InsertAt(state.pending, at, Entry(time))]
         IN  /\ Sound(next) /\ Len(next.pending) = Len(state.pending) + 1
             /\ DOMAIN next.pending = 1 .. Len(state.pending) + 1
             /\ \A i \in 1 .. Len(state.pending) + 1 :
                  next.pending[i] = IF i < at THEN state.pending[i]
                                    ELSE IF i = at THEN Entry(time) ELSE state.pending[i - 1]
             /\ next.lastOdom = state.lastOdom /\ next.refused = state.refused
             /\ next.drops = state.drops /\ next.lost = state.lost
<1> DEFINE next == [state EXCEPT !.pending = InsertAt(state.pending, at, Entry(time))]
<1>1. Entry(time) \in Entries
      BY DEF Entry, Entries
<1>2. state.pending \in Seq(Entries) /\ DOMAIN state = Fields
      BY DEF Sound
<1>3. /\ DOMAIN next = Fields
      /\ next.pending = InsertAt(state.pending, at, Entry(time))
      /\ next.lastOdom = state.lastOdom /\ next.refused = state.refused
      /\ next.drops = state.drops /\ next.lost = state.lost
      BY <1>2 DEF Fields
<1> HIDE DEF next
<1>4. /\ next.pending \in Seq(Entries) /\ Len(next.pending) = Len(state.pending) + 1
      /\ DOMAIN next.pending = 1 .. Len(state.pending) + 1
      /\ \A i \in 1 .. Len(state.pending) + 1 :
           next.pending[i] = IF i < at THEN state.pending[i]
                             ELSE IF i = at THEN Entry(time) ELSE state.pending[i - 1]
  <2> DEFINE longer == next.pending
             queue == state.pending
             entry == Entry(time)
  <2>1. /\ queue \in Seq(Entries) /\ entry \in Entries
        /\ at \in Nat /\ at >= 1 /\ at <= Len(queue) + 1
        BY <1>1, <1>2, QueueTyped
  <2>2. longer = InsertAt(queue, at, entry)
        BY <1>3
  <2> HIDE DEF longer, queue, entry
  <2>3. Longer(longer, queue, at, entry)
        BY <2>1, <2>2, InsertAtIs
  <2> QED
      BY <2>3 DEF Longer, longer, queue, entry
<1>5. Sound(next)
      BY <1>3, <1>4 DEF Sound
<1> QED
    BY <1>3, <1>4, <1>5 DEF next

LEMMA RefuseIs ==
  ASSUME NEW state, Sound(state), NEW time \in Int
  PROVE  LET next == Refuse(state, time)
         IN  /\ Sound(next) /\ next.pending = state.pending /\ next.lastOdom = state.lastOdom
             /\ next.refused = time /\ next.drops = state.drops /\ next.lost = state.lost
<1> DEFINE next == Refuse(state, time)
<1>1. DOMAIN state = Fields
      BY DEF Sound
<1>2. /\ DOMAIN next = Fields /\ next.pending = state.pending /\ next.lastOdom = state.lastOdom
      /\ next.refused = time /\ next.drops = state.drops /\ next.lost = state.lost
      BY <1>1 DEF Refuse, Fields
<1> HIDE DEF next
<1> QED
    BY <1>2 DEF Sound, next

(* The ways odom_epoch takes a NAV log: it is refused, known, or inserted, *)
(* the last perhaps after making room.                                     *)
EpochOutcome(state, histories, time) ==
  LET room == IF Len(state.pending) < MaxEpochs THEN state ELSE Compose(state, histories, TRUE)
      next == OdomEpoch(state, histories, time)
  IN  \/ NotAfter(time, state.lastOdom) /\ next = Refuse(state, time)
      \/ next = state
      \/ /\ ~Known(state, time) /\ ~(Len(state.pending) < MaxEpochs)
         /\ NotAfter(time, room.lastOdom) /\ next = Refuse(room, time)
      \/ /\ ~Known(state, time) /\ ~NotAfter(time, room.lastOdom)
         /\ next = Insert(room, time)

LEMMA OdomEpochIs ==
  ASSUME NEW state, NEW histories, NEW time
  PROVE  EpochOutcome(state, histories, time)
BY DEF EpochOutcome, OdomEpoch

LEMMA RoomIs ==
  ASSUME NEW state, Sound(state), Len(state.pending) <= MaxEpochs, NEW histories,
         ~(Len(state.pending) < MaxEpochs)
  PROVE  Len(Compose(state, histories, TRUE).pending) < MaxEpochs
<1> DEFINE size == Len(state.pending)
           n == Retiring(state, histories, TRUE)
           left == Len(Compose(state, histories, TRUE).pending)
<1>1. size \in Nat /\ MaxEpochs \in Nat /\ MaxEpochs > 0
      BY ComposerAssumption, LenProperties DEF Sound
<1>2. size > 0
      BY <1>1
<1>3. n \in 0 .. size
      BY RetiringIs
<1>4. n > 0
      BY <1>2, ForcedMakesRoom
<1>5. left = size - n
      BY ComposeSound
<1>6. size <= MaxEpochs
      OBVIOUS
<1> HIDE DEF size, n, left
<1>7. left < MaxEpochs
      BY <1>1, <1>3, <1>4, <1>5, <1>6
<1> QED
    BY <1>7 DEF left

LEMMA EpochSound ==
  ASSUME NEW state, Sound(state), Len(state.pending) <= MaxEpochs,
         clock \in Int, NEW histories, NEW time \in Int
  PROVE  /\ Sound(OdomEpoch(state, histories, time))
         /\ Len(OdomEpoch(state, histories, time).pending) <= MaxEpochs
<1> DEFINE room == IF Len(state.pending) < MaxEpochs THEN state ELSE Compose(state, histories, TRUE)
           next == OdomEpoch(state, histories, time)
<1>1. Len(state.pending) \in Nat /\ MaxEpochs \in Nat
      BY ComposerAssumption, LenProperties DEF Sound
<1>2. Sound(room) /\ Len(room.pending) < MaxEpochs
  <2>1. CASE Len(state.pending) < MaxEpochs
        BY <2>1
  <2>2. CASE ~(Len(state.pending) < MaxEpochs)
        BY <2>2, RoomIs, ComposeSound
  <2> QED
      BY <2>1, <2>2
<1>3. /\ Sound(Insert(room, time)) /\ Len(Insert(room, time).pending) = Len(room.pending) + 1
  <2> HIDE DEF room
  <2>1. PICK at \in 1 .. Len(room.pending) + 1 : InsertsAt(room, time, at)
        BY <1>2, InsertIs
  <2> QED
      BY <1>2, <2>1, InsertSound DEF InsertsAt
<1>4. /\ Sound(Refuse(room, time)) /\ Refuse(room, time).pending = room.pending
      /\ Sound(Refuse(state, time)) /\ Refuse(state, time).pending = state.pending
  <2> HIDE DEF room
  <2> QED
      BY <1>2, RefuseIs
<1>5. next \in {Refuse(state, time), state, Refuse(room, time), Insert(room, time)}
      BY OdomEpochIs DEF EpochOutcome
<1>6. Len(room.pending) \in Nat
      BY <1>2, LenProperties DEF Sound
<1> HIDE DEF room, next
<1> QED
    BY <1>1, <1>2, <1>3, <1>4, <1>5, <1>6 DEF next

-----------------------------------------------------------------------------
(* The drop counter of a state.                                            *)

Counted(state) ==
  state.lost <= state.drops /\ state.drops <= state.lost * Cardinality(Required)

LEMMA Streams == IsFiniteSet(Required) /\ Cardinality(Required) \in Nat
BY ComposerAssumption, FS_Subset, FS_CardinalityType

LEMMA ComposeCounted ==
  ASSUME NEW state, Sound(state), Counted(state), NEW histories, NEW force
  PROVE  Counted(Compose(state, histories, force))
<1> DEFINE next == Compose(state, histories, force)
           c == Cardinality(Required)
<1>1. PICK epochs \in Nat, members \in Nat :
        /\ next.lost = state.lost + epochs /\ next.drops = state.drops + members
        /\ epochs <= members /\ members <= epochs * c
      BY ComposeCounts
<1>2. c \in Nat
      BY Streams
<1>3. state.lost \in Nat /\ state.drops \in Nat /\ state.lost <= state.drops /\ state.drops <= state.lost * c
      BY DEF Sound, Counted
<1> HIDE DEF next, c
<1>4. (state.lost + epochs) * c = state.lost * c + epochs * c
      BY <1>1, <1>2, <1>3
<1>5. state.lost * c \in Int /\ epochs * c \in Int
      BY <1>2, <1>3
<1>6. next.lost <= next.drops /\ next.drops <= next.lost * c
      BY <1>1, <1>3, <1>4, <1>5
<1> QED
    BY <1>6 DEF next, c, Counted

LEMMA EpochCounted ==
  ASSUME NEW state, Sound(state), Counted(state), clock \in Int, NEW histories, NEW time \in Int
  PROVE  Counted(OdomEpoch(state, histories, time))
<1> DEFINE room == IF Len(state.pending) < MaxEpochs THEN state ELSE Compose(state, histories, TRUE)
           next == OdomEpoch(state, histories, time)
<1>1. Sound(room) /\ Counted(room)
      BY ComposeSound, ComposeCounted
<1>2. next \in {Refuse(state, time), state, Refuse(room, time), Insert(room, time)}
      BY OdomEpochIs DEF EpochOutcome
<1> HIDE DEF room
<1>3. Counted(Refuse(state, time)) /\ Counted(Refuse(room, time))
      BY <1>1, RefuseIs DEF Counted
<1>4. Counted(Insert(room, time))
  <2>1. PICK at \in 1 .. Len(room.pending) + 1 : InsertsAt(room, time, at)
        BY <1>1, InsertIs
  <2>2. Insert(room, time).drops = room.drops /\ Insert(room, time).lost = room.lost
        BY <1>1, <2>1, InsertSound DEF InsertsAt
  <2> QED
      BY <1>1, <2>2 DEF Counted
<1> HIDE DEF next
<1>5. Counted(next)
      BY <1>1, <1>2, <1>3, <1>4
<1> QED
    BY <1>5 DEF next

-----------------------------------------------------------------------------
(* The histories.                                                          *)

(* A log of a stream that fits in its history. *)
Fits(log) == log \in Seq(Entries) /\ Len(log) <= MaxHistory

LEMMA FreshFits ==
  ASSUME NEW log, Fits(log)
  PROVE  Fits(Fresh(log))
<1> DEFINE old == {i \in DOMAIN log : clock - log[i].received > MaxAge}
           n == Leading(old, Len(log))
<1>1. log \in Seq(Entries) /\ Len(log) \in Nat /\ Len(log) <= MaxHistory
      BY LenProperties DEF Fits
<1>2. n \in 0 .. Len(log)
      BY <1>1, LeadingIs
<1>3. Fresh(log) = SubSeq(log, n + 1, Len(log))
      BY DEF Fresh, DropFront
<1> HIDE DEF n
<1>4. Fresh(log) \in Seq(Entries) /\ Len(Fresh(log)) = Len(log) - n
      BY <1>1, <1>2, <1>3, RestOf
<1> QED
    BY <1>1, <1>2, <1>4, ComposerAssumption DEF Fits

LEMMA RememberingFits ==
  ASSUME \A member \in Members : Fits(history[member]), clock \in Int,
         NEW member \in Members, NEW time \in Int
  PROVE  \A one \in Members : Fits(Remembering(member, time)[one])
<1> DEFINE old == Histories[member]
           log == Append(old, Entry(time))
<1>1. \A one \in Members : Fits(Histories[one])
      BY FreshFits DEF Histories
<1>2. Fits(IF Len(log) > MaxHistory THEN Tail(log) ELSE log)
  <2>1. Entry(time) \in Entries
        BY DEF Entry, Entries
  <2>2. old \in Seq(Entries) /\ Len(old) \in Nat /\ Len(old) <= MaxHistory
        BY <1>1, LenProperties DEF Fits
  <2> HIDE DEF old
  <2>3. log \in Seq(Entries) /\ Len(log) = Len(old) + 1
        BY <2>1, <2>2, AppendProperties
  <2> HIDE DEF log
  <2>4. Len(log) > MaxHistory => Tail(log) \in Seq(Entries) /\ Len(Tail(log)) = Len(log) - 1
    <3>1. Len(log) # 0
          BY <2>2, <2>3
    <3>2. log # <<>>
          BY <2>3, <3>1, EmptySeq
    <3> QED
        BY <2>3, <3>2, HeadTailProperties
  <2> QED
      BY <2>2, <2>3, <2>4, ComposerAssumption DEF Fits
<1>3. Remembering(member, time) =
        [Histories EXCEPT ![member] = IF Len(log) > MaxHistory THEN Tail(log) ELSE log]
      BY DEF Remembering
<1>4. DOMAIN Histories = Members
      BY DEF Histories
<1> HIDE DEF log
<1> QED
    BY <1>1, <1>2, <1>3, <1>4

-----------------------------------------------------------------------------
(* Order.  As long as the epochs are less than half a wrap old, comparing  *)
(* their timestamps compares their times.                                  *)

LEMMA DeltaIs ==
  ASSUME NEW a \in Int, NEW b \in Int, 2 * (a - b) < Wrap, 2 * (b - a) < Wrap
  PROVE  SignedDelta(a, b) = a - b
<1>1. CASE a >= b
  <2>1. (Wrap * 0 + (a - b)) % Wrap = a - b
        BY <1>1, Remainder, WrapAssumption
  <2>2. (a - b) % Wrap = a - b /\ a - b \in Int
        BY <2>1, WrapAssumption
  <2> QED
      BY <2>2, DeltaForward, Zenon
<1>2. CASE a < b
  <2>1. (Wrap * (-1) + (a - b + Wrap)) % Wrap = a - b + Wrap
        BY <1>2, Remainder, WrapAssumption
  <2>2. (a - b) % Wrap = (a - b) + Wrap /\ a - b \in Int
        BY <2>1, WrapAssumption
  <2>3. 2 * ((a - b) + Wrap) >= Wrap
        BY WrapAssumption
  <2> QED
      BY <2>2, <2>3, DeltaBackward, Zenon
<1> QED
    BY <1>1, <1>2

(* Both at most half a wrap before now: closer than that to each other. *)
LEMMA DeltaOfYoung ==
  ASSUME clock \in Int, NEW a \in Int, NEW b \in Int, a <= clock, b <= clock,
         2 * (clock - a) < Wrap, 2 * (clock - b) < Wrap
  PROVE  SignedDelta(a, b) = a - b
<1>1. 2 * (a - b) < Wrap /\ 2 * (b - a) < Wrap
      BY WrapAssumption
<1> QED
    BY <1>1, DeltaIs

(* The queue is in time order, and behind the latest retired epoch. *)
Ordered(queue, last) ==
  /\ \A i, j \in DOMAIN queue : i < j => queue[i].time < queue[j].time
  /\ last # None => \A i \in DOMAIN queue : last < queue[i].time

(* Its epochs came at most MaxDelay late, and none before the start. *)
Timed(queue, last) ==
  /\ Start <= clock
  /\ \A i \in DOMAIN queue :
       /\ queue[i].time <= queue[i].received /\ queue[i].received - queue[i].time <= MaxDelay
       /\ queue[i].received <= clock /\ Start - MaxDelay <= queue[i].time
  /\ last # None => last <= clock /\ Start - MaxDelay <= last

Young(queue, last) ==
  /\ \A i \in DOMAIN queue : 2 * (clock - queue[i].time) < Wrap
  /\ last # None => 2 * (clock - last) < Wrap

(* What was refused was late. *)
Late(state) == state.refused # None => state.lastOdom # None /\ state.refused <= state.lastOdom

Good(state) ==
  /\ Ordered(state.pending, state.lastOdom)
  /\ Timed(state.pending, state.lastOdom)
  /\ Young(state.pending, state.lastOdom)
  /\ Late(state)

(* From one state to the next, epochs are retired in order and `new' come. *)
Times(state) == {state.pending[i].time : i \in DOMAIN state.pending}
Passed(time, last) == last # None /\ time <= last

Advances(state, next, new) ==
  /\ next.lastOdom = state.lastOdom
     \/ (next.lastOdom # None /\ ~Passed(next.lastOdom, state.lastOdom))
  /\ \A time \in Times(state) \ Times(next) : Passed(time, next.lastOdom)
  /\ Times(next) \subseteq Times(state) \cup new

LEMMA AdvancesSame ==
  ASSUME NEW state, NEW next, NEW new,
         next.lastOdom = state.lastOdom, next.pending = state.pending
  PROVE  Advances(state, next, new)
BY DEF Advances, Times

LEMMA AdvancesOn ==
  ASSUME NEW first, Sound(first), NEW second, Sound(second), NEW third, Sound(third),
         NEW new, NEW more, Advances(first, second, new), Advances(second, third, more)
  PROVE  Advances(first, third, new \cup more)
<1>1. /\ first.lastOdom \in Int \cup {None} /\ second.lastOdom \in Int \cup {None}
      /\ third.lastOdom \in Int \cup {None} /\ None \notin Int
      BY ComposerAssumption DEF Sound
<1>2. \A time \in Times(first) : time \in Int
      BY QueueTyped DEF Times
<1>3. third.lastOdom = first.lastOdom
      \/ (third.lastOdom # None /\ ~Passed(third.lastOdom, first.lastOdom))
      BY <1>1 DEF Advances, Passed
<1>4. \A time \in Int : Passed(time, second.lastOdom) => Passed(time, third.lastOdom)
      BY <1>1 DEF Advances, Passed
<1>5. \A time \in Times(first) \ Times(third) : Passed(time, third.lastOdom)
      BY <1>2, <1>4 DEF Advances
<1>6. Times(third) \subseteq Times(first) \cup (new \cup more)
      BY DEF Advances
<1> QED
    BY <1>3, <1>5, <1>6 DEF Advances

LEMMA ComposeGood ==
  ASSUME NEW state, Sound(state), Good(state), clock \in Int, NEW histories, NEW force
  PROVE  /\ Good(Compose(state, histories, force))
         /\ Advances(state, Compose(state, histories, force), {})
<1> DEFINE n == Retiring(state, histories, force)
           next == Compose(state, histories, force)
           size == Len(state.pending)
<1>1. /\ size \in Nat /\ n \in 0 .. size /\ DOMAIN state.pending = 1 .. size
      /\ \A i \in 1 .. size : state.pending[i].time \in Int /\ state.pending[i].received \in Int
      BY RetiringIs, QueueTyped
<1>2. /\ DOMAIN next.pending = 1 .. size - n
      /\ \A i \in 1 .. size - n : next.pending[i] = state.pending[n + i]
      BY ComposeSound
<1>3. next.lastOdom = (IF n = 0 THEN state.lastOdom ELSE state.pending[n].time) /\ next.refused = state.refused
      BY ComposeIs
<1>4. state.lastOdom \in Int \cup {None} /\ state.refused \in Int \cup {None} /\ None \notin Int
      BY ComposerAssumption DEF Sound
<1> HIDE DEF n, next, size
<1>5. n # 0 => n \in 1 .. size /\ next.lastOdom \in Int /\ next.lastOdom = state.pending[n].time
      BY <1>1, <1>3
<1>6. \A i \in 1 .. size - n : n + i \in 1 .. size
      BY <1>1
<1>7. n # 0 => next.lastOdom # None /\ ~Passed(next.lastOdom, state.lastOdom)
  <2>1. state.lastOdom # None => \A i \in 1 .. size : state.lastOdom < state.pending[i].time
        BY <1>1 DEF Good, Ordered
  <2>2. ASSUME n # 0, state.lastOdom # None PROVE ~(state.pending[n].time <= state.lastOdom)
    <3>1. n \in 1 .. size /\ state.lastOdom \in Int
          BY <1>4, <1>5, <2>2
    <3>2. state.lastOdom < state.pending[n].time /\ state.pending[n].time \in Int
          BY <1>1, <2>1, <2>2, <3>1
    <3> QED
        BY <3>1, <3>2
  <2> QED
      BY <1>4, <1>5, <2>2 DEF Passed
<1>8. Ordered(next.pending, next.lastOdom)
  <2>1. \A i, j \in 1 .. size - n : i < j => next.pending[i].time < next.pending[j].time
    <3>1. \A i, j \in 1 .. size : i < j => state.pending[i].time < state.pending[j].time
          BY <1>1 DEF Good, Ordered
    <3>2. ASSUME NEW i \in 1 .. size - n, NEW j \in 1 .. size - n, i < j
          PROVE  next.pending[i].time < next.pending[j].time
      <4>1. n + i \in 1 .. size /\ n + j \in 1 .. size /\ n + i < n + j
            BY <1>1, <1>6, <3>2
      <4>2. next.pending[i] = state.pending[n + i] /\ next.pending[j] = state.pending[n + j]
            BY <1>2, <3>2
      <4> QED
          BY <3>1, <4>1, <4>2
    <3> QED
        BY <3>2
  <2>2. ASSUME next.lastOdom # None, NEW i \in 1 .. size - n
        PROVE  next.lastOdom < next.pending[i].time
    <3>1. CASE n = 0
          BY <1>1, <1>2, <1>3, <1>6, <2>2, <3>1 DEF Good, Ordered
    <3>2. CASE n # 0
      <4>1. n < n + i /\ n \in 1 .. size /\ n + i \in 1 .. size
            BY <1>1, <1>5, <1>6, <3>2
      <4> QED
          BY <1>1, <1>2, <1>5, <3>2, <4>1 DEF Good, Ordered
    <3> QED
        BY <3>1, <3>2
  <2> QED
      BY <1>2, <2>1, <2>2 DEF Ordered
<1>9. Timed(next.pending, next.lastOdom)
  <2>1. n # 0 => next.lastOdom <= clock /\ Start - MaxDelay <= next.lastOdom
    <3>1. ASSUME n # 0 PROVE next.lastOdom <= clock /\ Start - MaxDelay <= next.lastOdom
      <4>1. /\ state.pending[n].time <= state.pending[n].received
            /\ state.pending[n].received <= clock /\ Start - MaxDelay <= state.pending[n].time
            BY <1>1, <1>5, <3>1 DEF Good, Timed
      <4>2. state.pending[n].time \in Int /\ state.pending[n].received \in Int
            BY <1>1, <1>5, <3>1
      <4> QED
          BY <1>5, <3>1, <4>1, <4>2
    <3> QED
        BY <3>1
  <2>2. n = 0 /\ next.lastOdom # None => next.lastOdom <= clock /\ Start - MaxDelay <= next.lastOdom
        BY <1>3 DEF Good, Timed
  <2> QED
      BY <1>1, <1>2, <1>6, <2>1, <2>2 DEF Good, Timed
<1>10. Young(next.pending, next.lastOdom)
       BY <1>1, <1>2, <1>3, <1>5, <1>6 DEF Good, Young
<1>11. Late(next)
  <2>1. CASE n = 0
        BY <1>3, <2>1 DEF Good, Late
  <2>2. CASE n # 0
        BY <1>3, <1>4, <1>5, <1>7, <2>2 DEF Good, Late, Passed
  <2> QED
      BY <2>1, <2>2
<1>12. Advances(state, next, {})
  <2>1. Times(next) \subseteq Times(state)
        BY <1>1, <1>2, <1>6 DEF Times
  <2>2. ASSUME NEW k \in 1 .. size, state.pending[k].time \notin Times(next)
        PROVE  Passed(state.pending[k].time, next.lastOdom)
    <3>1. k <= n
      <4>1. SUFFICES ASSUME k > n PROVE FALSE
            BY <1>1
      <4>2. k - n \in 1 .. size - n /\ n + (k - n) = k
            BY <1>1, <4>1
      <4>3. next.pending[k - n] = state.pending[k]
            BY <1>2, <4>2
      <4> QED
          BY <1>2, <2>2, <4>2, <4>3 DEF Times
    <3>2. n # 0 /\ state.pending[k].time <= state.pending[n].time
      <4>1. n # 0 /\ n \in 1 .. size /\ (k = n \/ k < n)
            BY <1>1, <3>1
      <4>2. \A i, j \in 1 .. size : i < j => state.pending[i].time < state.pending[j].time
            BY <1>1 DEF Good, Ordered
      <4>3. CASE k = n
            BY <1>1, <4>1, <4>3
      <4>4. CASE k < n
        <5>1. state.pending[k].time < state.pending[n].time
              BY <4>1, <4>2, <4>4
        <5> QED
            BY <1>1, <4>1, <5>1
      <4> QED
          BY <4>1, <4>3, <4>4
    <3> QED
        BY <1>5, <1>7, <3>2 DEF Passed
  <2>3. \A time \in Times(state) \ Times(next) : Passed(time, next.lastOdom)
        BY <1>1, <2>2 DEF Times
  <2>4. next.lastOdom = state.lastOdom
        \/ (next.lastOdom # None /\ ~Passed(next.lastOdom, state.lastOdom))
        BY <1>3, <1>7
  <2> QED
      BY <2>1, <2>3, <2>4 DEF Advances
<1> QED
    BY <1>8, <1>9, <1>10, <1>11, <1>12 DEF Good, next

(* An epoch odom_epoch refuses is late, *)
LEMMA RefuseGood ==
  ASSUME NEW state, Sound(state), Good(state), clock \in Int,
         NEW time \in Int, time <= clock, 2 * (clock - time) < Wrap, NotAfter(time, state.lastOdom)
  PROVE  Good(Refuse(state, time)) /\ Advances(state, Refuse(state, time), {})
<1> DEFINE next == Refuse(state, time)
<1>1. /\ next.pending = state.pending /\ next.lastOdom = state.lastOdom /\ next.refused = time
      BY RefuseIs
<1> HIDE DEF next
<1>2. state.lastOdom # None /\ SignedDelta(time, state.lastOdom) <= 0
      BY DEF NotAfter
<1>3. /\ state.lastOdom \in Int /\ state.lastOdom <= clock /\ 2 * (clock - state.lastOdom) < Wrap
      BY <1>2 DEF Sound, Good, Timed, Young
<1>4. time - state.lastOdom <= 0
  <2>1. SignedDelta(time, state.lastOdom) = time - state.lastOdom
        BY <1>3, DeltaOfYoung
  <2> QED
      BY <1>2, <2>1
<1>5. Late(next)
      BY <1>1, <1>2, <1>3, <1>4 DEF Late
<1>6. Good(next)
      BY <1>1, <1>5 DEF Good
<1> QED
    BY <1>1, <1>6, AdvancesSame DEF next

(* and one it inserts takes its place in the order. *)
LEMMA InsertGood ==
  ASSUME NEW state, Sound(state), Good(state), clock \in Int,
         NEW time \in Int, time <= clock, clock - time <= MaxDelay,
         ~NotAfter(time, state.lastOdom), ~Known(state, time)
  PROVE  Good(Insert(state, time)) /\ Advances(state, Insert(state, time), {time})
<1> DEFINE next == Insert(state, time)
           size == Len(state.pending)
           old(i) == state.pending[i].time
<1>1. PICK at \in 1 .. size + 1 : InsertsAt(state, time, at)
      BY InsertIs
<1>2. /\ DOMAIN next.pending = 1 .. size + 1
      /\ \A i \in 1 .. size + 1 :
           next.pending[i] = IF i < at THEN state.pending[i]
                             ELSE IF i = at THEN Entry(time) ELSE state.pending[i - 1]
      /\ next.lastOdom = state.lastOdom /\ next.refused = state.refused
      BY <1>1, InsertSound DEF InsertsAt
<1>3. /\ size \in Nat /\ DOMAIN state.pending = 1 .. size
      /\ \A i \in 1 .. size : old(i) \in Int /\ state.pending[i].received \in Int
      BY QueueTyped
<1>4. 2 * (clock - time) < Wrap /\ MaxDelay \in Nat
      BY ComposerAssumption, WrapAssumption
<1>5. Entry(time).time = time /\ Entry(time).received = clock
      BY DEF Entry
<1>6. \A i \in 1 .. size : old(i) # time
      BY <1>3 DEF Known
<1>7. ASSUME NEW i \in 1 .. size PROVE SignedDelta(time, old(i)) = time - old(i)
  <2>1. old(i) \in Int /\ old(i) <= clock /\ 2 * (clock - old(i)) < Wrap
    <3>1. /\ old(i) \in Int /\ state.pending[i].received \in Int
          /\ old(i) <= state.pending[i].received /\ state.pending[i].received <= clock
          /\ 2 * (clock - old(i)) < Wrap
          BY <1>3, <1>7 DEF Good, Timed, Young
    <3> HIDE DEF old
    <3> QED
        BY <3>1
  <2> QED
      BY <1>4, <2>1, DeltaOfYoung
<1>8. ASSUME NEW i \in 1 .. size, i < at PROVE old(i) < time
  <2>1. SignedDelta(time, old(i)) >= 0
        BY <1>1, <1>3, <1>8 DEF InsertsAt
  <2>2. time - old(i) >= 0 /\ old(i) # time /\ old(i) \in Int
        BY <1>3, <1>6, <1>7, <2>1
  <2> HIDE DEF old
  <2> QED
      BY <2>2
<1>9. \A i, j \in 1 .. size : i < j => old(i) < old(j)
      BY <1>3 DEF Good, Ordered
<1>10. ASSUME NEW i \in 1 .. size, i >= at PROVE time < old(i)
  <2>1. at \in 1 .. size
        BY <1>1, <1>3, <1>10
  <2>2. ~(SignedDelta(time, old(at)) >= 0)
        BY <1>1, <1>3, <2>1 DEF InsertsAt
  <2>3. ~(time - old(at) >= 0) /\ old(at) \in Int
        BY <1>3, <1>7, <2>1, <2>2
  <2>4. i = at \/ old(at) < old(i)
        BY <1>9, <1>10, <2>1
  <2>5. old(i) \in Int
        BY <1>3
  <2> HIDE DEF old
  <2> QED
      BY <2>3, <2>4, <2>5
<1>11. state.lastOdom # None => state.lastOdom < time
  <2>1. SUFFICES ASSUME state.lastOdom # None PROVE state.lastOdom < time
        OBVIOUS
  <2>2. /\ state.lastOdom \in Int /\ state.lastOdom <= clock /\ 2 * (clock - state.lastOdom) < Wrap
        BY <2>1 DEF Sound, Good, Timed, Young
  <2>3. SignedDelta(time, state.lastOdom) = time - state.lastOdom
        BY <1>4, <2>2, DeltaOfYoung
  <2>4. ~(SignedDelta(time, state.lastOdom) <= 0)
        BY <2>1 DEF NotAfter
  <2> QED
      BY <2>2, <2>3, <2>4
(* The entries of the longer queue are those of the shorter, and the new one. *)
<1>12. \A i \in 1 .. size + 1 :
         \/ i < at /\ i \in 1 .. size /\ next.pending[i] = state.pending[i]
         \/ i = at /\ next.pending[i] = Entry(time)
         \/ i > at /\ i - 1 \in 1 .. size /\ i - 1 >= at /\ next.pending[i] = state.pending[i - 1]
       BY <1>1, <1>2, <1>3
<1> HIDE DEF next, size
<1>13. Ordered(next.pending, next.lastOdom)
  <2>1. ASSUME NEW i \in 1 .. size + 1, NEW j \in 1 .. size + 1, i < j
        PROVE  next.pending[i].time < next.pending[j].time
    <3>1. CASE j < at
          BY <1>1, <1>3, <1>9, <1>12, <2>1, <3>1
    <3>2. CASE j = at
      <4>1. i \in 1 .. size /\ i < at /\ next.pending[i] = state.pending[i] /\ next.pending[j] = Entry(time)
            BY <1>1, <1>3, <1>12, <2>1, <3>2
      <4> QED
          BY <1>5, <1>8, <4>1
    <3>3. CASE j > at
      <4>1. j - 1 \in 1 .. size /\ j - 1 >= at /\ next.pending[j] = state.pending[j - 1]
            BY <1>1, <1>3, <1>12, <3>3
      <4>2. CASE i < at
        <5>1. i \in 1 .. size /\ next.pending[i] = state.pending[i] /\ i < j - 1
              BY <1>1, <1>3, <1>12, <2>1, <3>3, <4>2
        <5> QED
            BY <1>9, <4>1, <5>1
      <4>3. CASE i = at
        <5>1. next.pending[i] = Entry(time)
              BY <1>1, <1>3, <1>12, <4>3
        <5> QED
            BY <1>5, <1>10, <4>1, <5>1
      <4>4. CASE i > at
        <5>1. i - 1 \in 1 .. size /\ next.pending[i] = state.pending[i - 1] /\ i - 1 < j - 1
              BY <1>1, <1>3, <1>12, <2>1, <4>4
        <5> QED
            BY <1>9, <4>1, <5>1
      <4> QED
          BY <1>1, <1>3, <4>2, <4>3, <4>4
    <3> QED
        BY <1>1, <1>3, <3>1, <3>2, <3>3
  <2>2. ASSUME next.lastOdom # None, NEW i \in 1 .. size + 1
        PROVE  next.lastOdom < next.pending[i].time
    <3>1. \A k \in 1 .. size : state.lastOdom < old(k)
          BY <1>2, <1>3, <2>2 DEF Good, Ordered
    <3> QED
        BY <1>2, <1>5, <1>11, <1>12, <2>2, <3>1
  <2> QED
      BY <1>2, <2>1, <2>2 DEF Ordered
<1>14. Timed(next.pending, next.lastOdom)
  <2>1. \A k \in 1 .. size :
          /\ old(k) <= state.pending[k].received /\ state.pending[k].received - old(k) <= MaxDelay
          /\ state.pending[k].received <= clock /\ Start - MaxDelay <= old(k)
        BY <1>3 DEF Good, Timed
  <2>2. ASSUME NEW i \in 1 .. size + 1
        PROVE  /\ next.pending[i].time <= next.pending[i].received
               /\ next.pending[i].received - next.pending[i].time <= MaxDelay
               /\ next.pending[i].received <= clock /\ Start - MaxDelay <= next.pending[i].time
    <3>1. Start - MaxDelay <= time
      <4>1. Start <= clock
            BY DEF Good, Timed
      <4> QED
          BY <4>1, <1>4, ComposerAssumption
    <3> QED
        BY <1>5, <1>12, <2>1, <2>2, <3>1
  <2> QED
      BY <1>2, <2>2 DEF Good, Timed
<1>15. Young(next.pending, next.lastOdom)
  <2>1. \A k \in 1 .. size : 2 * (clock - old(k)) < Wrap
        BY <1>3 DEF Good, Young
  <2>2. \A i \in 1 .. size + 1 : 2 * (clock - next.pending[i].time) < Wrap
        BY <1>4, <1>5, <1>12, <2>1
  <2> QED
      BY <1>2, <2>2 DEF Good, Young
<1>16. Late(next)
       BY <1>2 DEF Good, Late
<1>17. Advances(state, next, {time})
  <2>1. \A i \in 1 .. size + 1 : next.pending[i].time \in Times(state) \cup {time}
        BY <1>3, <1>5, <1>12 DEF Times
  <2>2. ASSUME NEW k \in 1 .. size PROVE \E i \in 1 .. size + 1 : next.pending[i] = state.pending[k]
    <3>1. CASE k < at
      <4>1. k \in 1 .. size + 1
            BY <1>3
      <4> QED
          BY <1>2, <3>1, <4>1
    <3>2. CASE ~(k < at)
      <4>1. k + 1 \in 1 .. size + 1 /\ ~(k + 1 < at) /\ k + 1 # at /\ (k + 1) - 1 = k
            BY <1>1, <1>3, <3>2
      <4> QED
          BY <1>2, <4>1
    <3> QED
        BY <3>1, <3>2
  <2>3. Times(state) \subseteq Times(next)
    <3>1. SUFFICES ASSUME NEW t \in Times(state) PROVE t \in Times(next)
          OBVIOUS
    <3>2. PICK k \in 1 .. size : t = state.pending[k].time
          BY <1>3 DEF Times
    <3>3. PICK i \in 1 .. size + 1 : next.pending[i] = state.pending[k]
          BY <2>2
    <3> QED
        BY <1>2, <3>2, <3>3 DEF Times
  <2>4. Times(next) \subseteq Times(state) \cup {time}
        BY <1>2, <2>1 DEF Times
  <2> QED
      BY <1>2, <2>3, <2>4 DEF Advances
<1> QED
    BY <1>13, <1>14, <1>15, <1>16, <1>17 DEF Good, next

LEMMA AdvancesWith ==
  ASSUME NEW state, NEW next, NEW new, NEW more, Advances(state, next, new)
  PROVE  Advances(state, next, new \cup more)
BY DEF Advances

(* A call brings no epoch back. *)
LEMMA KnownStays ==
  ASSUME NEW state, Sound(state), NEW histories, NEW force, NEW time,
         Known(Compose(state, histories, force), time)
  PROVE  Known(state, time)
<1> DEFINE n == Retiring(state, histories, force)
           next == Compose(state, histories, force)
           size == Len(state.pending)
<1>1. /\ size \in Nat /\ n \in 0 .. size /\ DOMAIN state.pending = 1 .. size
      BY RetiringIs, QueueTyped
<1>2. /\ DOMAIN next.pending = 1 .. size - n
      /\ \A i \in 1 .. size - n : next.pending[i] = state.pending[n + i]
      BY ComposeSound
<1>3. Known(next, time)
      OBVIOUS
<1> HIDE DEF n, next, size
<1>4. \A i \in 1 .. size - n : n + i \in 1 .. size
      BY <1>1
<1> QED
    BY <1>1, <1>2, <1>3, <1>4 DEF Known

LEMMA EpochGood ==
  ASSUME NEW state, Sound(state), Good(state), clock \in Int, NEW histories,
         NEW time \in Int, time <= clock, clock - time <= MaxDelay
  PROVE  /\ Good(OdomEpoch(state, histories, time))
         /\ Advances(state, OdomEpoch(state, histories, time), {time})
<1> DEFINE room == IF Len(state.pending) < MaxEpochs THEN state ELSE Compose(state, histories, TRUE)
           next == OdomEpoch(state, histories, time)
<1>1. 2 * (clock - time) < Wrap
      BY ComposerAssumption, WrapAssumption
<1>2. Sound(room) /\ Good(room) /\ Advances(state, room, {})
      BY ComposeSound, ComposeGood, AdvancesSame
<1>3. ~Known(state, time) => ~Known(room, time)
      BY KnownStays
<1>4. \/ NotAfter(time, state.lastOdom) /\ next = Refuse(state, time)
      \/ next = state
      \/ NotAfter(time, room.lastOdom) /\ next = Refuse(room, time)
      \/ ~Known(room, time) /\ ~NotAfter(time, room.lastOdom) /\ next = Insert(room, time)
      BY <1>3, OdomEpochIs DEF EpochOutcome
<1> HIDE DEF room, next
<1>5. CASE NotAfter(time, state.lastOdom) /\ next = Refuse(state, time)
  <2>1. Good(next) /\ Advances(state, next, {})
        BY <1>1, <1>5, RefuseGood
  <2>2. Advances(state, next, {} \cup {time})
        BY <2>1, AdvancesWith
  <2>3. {} \cup {time} = {time}
        OBVIOUS
  <2> QED
      BY <2>1, <2>2, <2>3 DEF next
<1>6. CASE next = state
      BY <1>6, AdvancesSame DEF next
<1>7. CASE NotAfter(time, room.lastOdom) /\ next = Refuse(room, time)
  <2>1. Good(next) /\ Advances(room, next, {}) /\ Sound(next)
        BY <1>1, <1>2, <1>7, RefuseGood, RefuseIs
  <2>2. Advances(room, next, {} \cup {time})
        BY <2>1, AdvancesWith
  <2>3. Advances(state, next, {} \cup ({} \cup {time}))
        BY <1>2, <2>1, <2>2, AdvancesOn
  <2>4. {} \cup ({} \cup {time}) = {time}
        OBVIOUS
  <2> QED
      BY <2>1, <2>3, <2>4 DEF next
<1>8. CASE ~Known(room, time) /\ ~NotAfter(time, room.lastOdom) /\ next = Insert(room, time)
  <2>1. Good(next) /\ Advances(room, next, {time})
        BY <1>2, <1>8, InsertGood
  <2>2. Sound(next)
    <3>1. PICK at \in 1 .. Len(room.pending) + 1 : InsertsAt(room, time, at)
          BY <1>2, InsertIs
    <3> QED
        BY <1>2, <1>8, <3>1, InsertSound DEF InsertsAt
  <2>3. Advances(state, next, {} \cup {time})
        BY <1>2, <2>1, <2>2, AdvancesOn
  <2>4. {} \cup {time} = {time}
        OBVIOUS
  <2> QED
      BY <2>1, <2>3, <2>4 DEF next
<1> QED
    BY <1>4, <1>5, <1>6, <1>7, <1>8

(* After a call that is not forced, what still waits has not waited long:  *)
(* the first epoch's deadline is not over, and the others are later.       *)
Prompt(state) == \A i \in DOMAIN state.pending : clock - state.pending[i].received < Wait + MaxDelay

LEMMA ComposePrompt ==
  ASSUME NEW state, Sound(state), Good(state), clock \in Int, NEW histories, NEW force, ~force
  PROVE  Prompt(Compose(state, histories, force))
<1> DEFINE n == Retiring(state, histories, force)
           next == Compose(state, histories, force)
           size == Len(state.pending)
<1>1. /\ size \in Nat /\ n \in 0 .. size /\ DOMAIN state.pending = 1 .. size
      /\ \A i \in 1 .. size : state.pending[i].time \in Int /\ state.pending[i].received \in Int
      BY RetiringIs, QueueTyped
<1>2. /\ DOMAIN next.pending = 1 .. size - n
      /\ \A i \in 1 .. size - n : next.pending[i] = state.pending[n + i]
      BY ComposeSound
<1>3. n < size => n + 1 \notin ReadyOnes(state, histories, force)
      BY RetiringIs
<1>4. Wait \in Nat /\ MaxDelay \in Nat
      BY ComposerAssumption
<1>5. ASSUME NEW i \in 1 .. size - n
      PROVE  clock - next.pending[i].received < Wait + MaxDelay
  <2> DEFINE head == state.pending[n + 1]
             other == state.pending[n + i]
  <2> HIDE DEF n, size
  <2>1. n < size /\ n + 1 \in 1 .. size /\ n + i \in 1 .. size /\ (i = 1 \/ n + 1 < n + i)
        BY <1>1, <1>5
  <2>2. ~Ready(histories, head)
        BY <1>1, <1>3, <2>1 DEF ReadyOnes
  <2>3. ~(clock - head.received >= Wait)
        BY <2>2 DEF Ready, Expired
  <2>4. /\ head.time \in Int /\ head.received \in Int /\ other.time \in Int /\ other.received \in Int
        BY <1>1, <2>1
  <2>5. head.received - head.time <= MaxDelay /\ other.time <= other.received
        BY <1>1, <2>1 DEF Good, Timed
  <2>6. head.time <= other.time
    <3>1. CASE i = 1
          BY <2>4, <3>1
    <3>2. CASE n + 1 < n + i
      <4>1. head.time < other.time
            BY <1>1, <2>1, <3>2 DEF Good, Ordered
      <4> HIDE DEF head, other
      <4> QED
          BY <2>4, <4>1
    <3> QED
        BY <2>1, <3>1, <3>2
  <2>7. next.pending[i] = other
        BY <1>2, <1>5 DEF n, size
  <2> HIDE DEF head, other, next
  <2> QED
      BY <1>4, <2>3, <2>4, <2>5, <2>6, <2>7
<1> HIDE DEF n, next, size
<1>6. Prompt(next)
      BY <1>2, <1>5 DEF Prompt
<1> QED
    BY <1>6 DEF next

-----------------------------------------------------------------------------
(* The steps of the program: calls of odom_epoch and try_compose_odometry  *)
(* one after the other, on the state.                                      *)

(* A state the calls lead to, with the epochs that came on the way. *)
Reaches(state, new) ==
  /\ Sound(state) /\ Len(state.pending) <= MaxEpochs
  /\ Counted(State) => Counted(state)
  /\ Good(State) => Good(state) /\ Advances(State, state, new)

LEMMA ReachesState == ASSUME TypeOK PROVE Reaches(State, {})
<1>1. Sound(State) /\ Len(State.pending) <= MaxEpochs
      BY DEF TypeOK, Sound, State, Fields
<1> QED
    BY <1>1, AdvancesSame DEF Reaches

LEMMA ReachesCompose ==
  ASSUME TypeOK, NEW state, NEW new, Reaches(state, new), NEW histories, NEW force
  PROVE  Reaches(Compose(state, histories, force), new)
<1> DEFINE next == Compose(state, histories, force)
           size == Len(state.pending)
           n == Retiring(state, histories, force)
           left == Len(next.pending)
<1>1. Sound(State) /\ clock \in Int /\ MaxEpochs \in Nat
      BY ReachesState, ComposerAssumption DEF Reaches, TypeOK
<1>2. Sound(state) /\ size <= MaxEpochs
      BY DEF Reaches
<1>3. size \in Nat /\ n \in 0 .. size
      BY <1>2, RetiringIs, QueueTyped
<1>4. left = size - n /\ Sound(next)
      BY <1>2, ComposeSound
<1>5. left <= MaxEpochs
  <2> HIDE DEF left, size, n
  <2> QED
      BY <1>1, <1>2, <1>3, <1>4
<1>6. Counted(State) => Counted(next)
      BY <1>2, ComposeCounted DEF Reaches
<1>7. ASSUME Good(State) PROVE Good(next) /\ Advances(State, next, new)
  <2>1. Good(next) /\ Advances(state, next, {})
        BY <1>1, <1>2, <1>7, ComposeGood DEF Reaches
  <2>2. Advances(State, next, new \cup {})
        BY <1>1, <1>2, <1>4, <1>7, <2>1, AdvancesOn DEF Reaches
  <2>3. new \cup {} = new
        OBVIOUS
  <2> QED
      BY <2>1, <2>2, <2>3
<1> QED
    BY <1>4, <1>5, <1>6, <1>7 DEF Reaches

LEMMA ReachesEpoch ==
  ASSUME TypeOK, NEW state, Reaches(state, {}), NEW histories, NEW delay \in 0 .. MaxDelay
  PROVE  Reaches(OdomEpoch(state, histories, clock - delay), {clock - delay})
<1> DEFINE time == clock - delay
           next == OdomEpoch(state, histories, time)
<1>1. Sound(State) /\ clock \in Int /\ MaxDelay \in Nat
      BY ReachesState, ComposerAssumption DEF Reaches, TypeOK
<1>2. time \in Int /\ time <= clock /\ clock - time <= MaxDelay
      BY <1>1
<1> HIDE DEF time
<1>3. Sound(state) /\ Len(state.pending) <= MaxEpochs
      BY DEF Reaches
<1>4. Sound(next) /\ Len(next.pending) <= MaxEpochs
      BY <1>1, <1>2, <1>3, EpochSound
<1>5. Counted(State) => Counted(next)
      BY <1>1, <1>2, <1>3, EpochCounted DEF Reaches
<1>6. ASSUME Good(State) PROVE Good(next) /\ Advances(State, next, {time})
  <2>1. Good(next) /\ Advances(state, next, {time})
        BY <1>1, <1>2, <1>3, <1>6, EpochGood DEF Reaches
  <2>2. Advances(State, next, {} \cup {time})
        BY <1>1, <1>3, <1>4, <1>6, <2>1, AdvancesOn DEF Reaches
  <2>3. {} \cup {time} = {time}
        OBVIOUS
  <2> QED
      BY <2>1, <2>2, <2>3
<1>7. Reaches(next, {time})
      BY <1>4, <1>5, <1>6 DEF Reaches
<1> QED
    BY <1>7 DEF time

(* Where a step that is neither Tick nor Reset leads. *)
Resulting(state) ==
  /\ \E new : Reaches(state, {new})
  /\ Good(State) => Prompt(state)

LEMMA LastCall ==
  ASSUME TypeOK, NEW state, NEW new, Reaches(state, {new}) \/ Reaches(state, {}),
         NEW histories, NEW force, ~force
  PROVE  Resulting(Compose(state, histories, force))
<1>1. Reaches(state, {new})
  <2>1. ASSUME Reaches(state, {}) PROVE Reaches(state, {new})
    <3>1. Good(State) => Advances(State, state, {} \cup {new})
          BY <2>1, AdvancesWith DEF Reaches
    <3>2. {} \cup {new} = {new}
          OBVIOUS
    <3> QED
        BY <2>1, <3>1, <3>2 DEF Reaches
  <2> QED
      BY <2>1
<1>2. Reaches(Compose(state, histories, force), {new})
      BY <1>1, ReachesCompose
<1>3. Good(State) => Prompt(Compose(state, histories, force))
  <2>1. Sound(state) /\ clock \in Int /\ (Good(State) => Good(state))
        BY <1>1 DEF Reaches, TypeOK
  <2> QED
      BY <2>1, ComposePrompt
<1> QED
    BY <1>2, <1>3 DEF Resulting

LEMMA StepCases ==
  ASSUME TypeOK, Next, ~Tick, ~Reset
  PROVE  /\ UNCHANGED clock
         /\ \E state : Resulting(state) /\ Becomes(state)
         /\ \A member \in Members : Fits(history'[member])
<1>1. \A member \in Members : Fits(history[member])
      BY DEF TypeOK, Fits
<1>2. clock \in Int /\ MaxDelay \in Int /\ MaxLag \in Int
      BY ComposerAssumption DEF TypeOK
<1>3. \A member \in Members : Fits(Histories[member])
      BY <1>1, FreshFits DEF Histories
<1>4. Reaches(Flushed, {})
      BY ReachesState, ReachesCompose DEF Flushed
<1>5. CASE FlushPending
  <2>1. Resulting(Flushed)
        BY ReachesState, LastCall DEF Flushed
  <2> QED
      BY <1>3, <1>5, <2>1 DEF FlushPending
<1>6. ASSUME NEW delay \in 0 .. MaxDelay, NavLog(delay)
      PROVE  /\ UNCHANGED clock
             /\ \E state : Resulting(state) /\ Becomes(state)
             /\ \A member \in Members : Fits(history'[member])
  <2>1. Reaches(OdomEpoch(Flushed, Histories, clock - delay), {clock - delay})
        BY <1>4, ReachesEpoch
  <2>2. Resulting(Compose(OdomEpoch(Flushed, Histories, clock - delay), Histories, FALSE))
        BY <2>1, LastCall
  <2> QED
      BY <1>3, <1>6, <2>2 DEF NavLog
<1>7. ASSUME NEW member \in Members, NEW lag \in 0 .. MaxLag, MemberLog(member, lag)
      PROVE  /\ UNCHANGED clock
             /\ \E state : Resulting(state) /\ Becomes(state)
             /\ \A one \in Members : Fits(history'[one])
  <2>1. Resulting(Compose(Flushed, Remembering(member, clock - lag), FALSE))
        BY <1>4, LastCall
  <2>2. clock - lag \in Int
        BY <1>2
  <2>3. \A one \in Members : Fits(Remembering(member, clock - lag)[one])
        BY <1>1, <1>2, <2>2, RememberingFits
  <2> QED
      BY <1>7, <2>1, <2>3 DEF MemberLog
<1> QED
    BY <1>5, <1>6, <1>7 DEF Next

-----------------------------------------------------------------------------
(* The theorems.                                                           *)

LEMMA TypeInit == Init => TypeOK
<1> SUFFICES ASSUME Init PROVE TypeOK
    OBVIOUS
<1>1. <<>> \in Seq(Entries) /\ Len(<<>>) = 0
      OBVIOUS
<1>2. \A member \in Members : history[member] = <<>>
      BY DEF Init
<1> QED
    BY <1>1, <1>2, ComposerAssumption DEF Init, TypeOK

LEMMA TypeNext == TypeOK /\ [Next]_vars => TypeOK'
<1> SUFFICES ASSUME TypeOK, [Next]_vars PROVE TypeOK'
    OBVIOUS
<1>1. CASE Tick
      BY <1>1, ComposerAssumption DEF TypeOK, Tick
<1>2. CASE Reset
  <2>1. <<>> \in Seq(Entries) /\ Len(<<>>) = 0
        OBVIOUS
  <2>2. \A member \in Members : history'[member] = <<>>
        BY <1>2 DEF Reset
  <2> QED
      BY <1>2, <2>1, <2>2, ComposerAssumption DEF TypeOK, Reset
<1>3. CASE Next /\ ~Tick /\ ~Reset
  <2>1. PICK state : Resulting(state) /\ Becomes(state)
        BY <1>3, StepCases
  <2>2. Sound(state) /\ Len(state.pending) <= MaxEpochs
        BY <2>1 DEF Resulting, Reaches
  <2>3. UNCHANGED clock /\ \A member \in Members : Fits(history'[member])
        BY <1>3, StepCases
  <2> QED
      BY <2>1, <2>2, <2>3 DEF TypeOK, Becomes, Sound, Fits
<1>4. CASE UNCHANGED vars
      BY <1>4 DEF TypeOK, vars, composer
<1> QED
    BY <1>1, <1>2, <1>3, <1>4

(* The histories and the queue of epochs keep within their capacities      *)
(* (prune_raw_imu_history, odom_epoch), and every value its type.          *)
THEOREM TypeCorrect == Spec => []TypeOK
BY TypeInit, TypeNext, PTL DEF Spec

(* The drop counter moves exactly when an epoch is lost                    *)
(* (try_compose_odometry).                                                 *)
THEOREM DropsAreSeen == Spec => []DropsSeen
<1>1. Init => DropsSeen
      BY Streams DEF Init, DropsSeen
<1>2. TypeOK /\ DropsSeen /\ [Next]_vars => DropsSeen'
  <2> SUFFICES ASSUME TypeOK, DropsSeen, [Next]_vars PROVE DropsSeen'
      OBVIOUS
  <2>1. CASE Tick
        BY <2>1 DEF DropsSeen, Tick
  <2>2. CASE Reset
        BY <2>2, Streams DEF DropsSeen, Reset
  <2>3. CASE Next /\ ~Tick /\ ~Reset
    <3>1. PICK state : Resulting(state) /\ Becomes(state)
          BY <2>3, StepCases
    <3>2. Counted(State)
          BY DEF Counted, State, DropsSeen
    <3>3. Counted(state)
          BY <3>1, <3>2 DEF Resulting, Reaches
    <3> QED
        BY <3>1, <3>3 DEF Becomes, Counted, DropsSeen
  <2>4. CASE UNCHANGED vars
        BY <2>4 DEF DropsSeen, vars, composer
  <2> QED
      BY <2>1, <2>2, <2>3, <2>4
<1> QED
    BY <1>1, <1>2, TypeCorrect, PTL DEF Spec

(* The session hypothesis: no epoch that waits, nor the latest retired     *)
(* one, is half a wrap of the timestamps old.                              *)
Recent == Young(pending, lastOdom)

(* The inductive invariant under it. *)
OrderInv == Ordered(pending, lastOdom) /\ Timed(pending, lastOdom) /\ OnlyLateRefused

LEMMA OrderInit == Init => OrderInv
BY ComposerAssumption DEF Init, OrderInv, Ordered, Timed, OnlyLateRefused

LEMMA StateGood == ASSUME OrderInv, Recent PROVE Good(State)
BY DEF OrderInv, Recent, Good, Late, State

(* Where a step leads from a session of recent epochs. *)
LEMMA GoodStep ==
  ASSUME TypeOK, OrderInv, Recent, Next, ~Tick, ~Reset
  PROVE  /\ UNCHANGED clock
         /\ \E state, new :
              /\ Becomes(state) /\ Sound(state) /\ Good(state) /\ Prompt(state)
              /\ Advances(State, state, {new})
<1>1. Good(State)
      BY StateGood
<1>2. PICK state : Resulting(state) /\ Becomes(state)
      BY StepCases
<1>3. PICK new : Reaches(state, {new})
      BY <1>2 DEF Resulting
<1> QED
    BY <1>1, <1>2, <1>3, StepCases DEF Resulting, Reaches

LEMMA OrderNext == TypeOK /\ OrderInv /\ Recent /\ [Next]_vars => OrderInv'
<1> SUFFICES ASSUME TypeOK, OrderInv, Recent, [Next]_vars PROVE OrderInv'
    OBVIOUS
<1>1. CASE Tick
  <2>1. /\ pending' = pending /\ lastOdom' = lastOdom /\ refused' = None /\ clock' = clock + 1
        BY <1>1 DEF Tick
  <2>2. Ordered(pending, lastOdom)'
        BY <2>1 DEF OrderInv, Ordered
  <2>3. Timed(pending, lastOdom)'
    <3>1. clock \in Int /\ lastOdom \in Int \cup {None} /\ pending \in Seq(Entries)
          BY DEF TypeOK
    <3>2. \A i \in DOMAIN pending : pending[i].received \in Int
          BY ReachesState, QueueTyped DEF Reaches, State
    <3>3. \A i \in DOMAIN pending : pending[i].received <= clock + 1
          BY <3>1, <3>2 DEF OrderInv, Timed
    <3>4. Start <= clock + 1 /\ (lastOdom # None => lastOdom <= clock + 1)
          BY <3>1, ComposerAssumption DEF OrderInv, Timed
    <3> QED
        BY <2>1, <3>3, <3>4 DEF OrderInv, Timed
  <2> QED
      BY <2>1, <2>2, <2>3 DEF OrderInv, OnlyLateRefused
<1>2. CASE Reset
      BY <1>2 DEF Reset, OrderInv, Ordered, Timed, OnlyLateRefused
<1>3. CASE Next /\ ~Tick /\ ~Reset
  <2>1. PICK state : Becomes(state) /\ Good(state)
        BY <1>3, GoodStep
  <2>2. UNCHANGED clock
        BY <1>3, GoodStep
  <2>3. pending' = state.pending /\ lastOdom' = state.lastOdom /\ refused' = state.refused
        BY <2>1 DEF Becomes
  <2>4. Ordered(pending, lastOdom)'
        BY <2>1, <2>3 DEF Good, Ordered
  <2>5. Timed(pending, lastOdom)'
        BY <2>1, <2>2, <2>3 DEF Good, Timed
  <2>6. OnlyLateRefused'
        BY <2>1, <2>3 DEF Good, Late, OnlyLateRefused
  <2> QED
      BY <2>4, <2>5, <2>6 DEF OrderInv
<1>4. CASE UNCHANGED vars
      BY <1>4 DEF vars, composer, OrderInv, Ordered, Timed, OnlyLateRefused
<1> QED
    BY <1>1, <1>2, <1>3, <1>4

LEMMA OrderAlways == Spec /\ []Recent => []OrderInv
BY OrderInit, OrderNext, TypeCorrect, PTL DEF Spec

(* In a session without half a wrap between its epochs, a NAV log is       *)
(* refused only if its epoch or a later one was retired (odom_epoch).      *)
THEOREM OnlyLateAreRefused == Spec /\ []Recent => []OnlyLateRefused
<1>1. OrderInv => OnlyLateRefused
      BY DEF OrderInv
<1> QED
    BY <1>1, OrderAlways, PTL

(* In such a session epochs are neither lost nor reordered, whatever the   *)
(* order they arrive in and however often the queue overflows: the         *)
(* composer implements OrderedEpochs.                                      *)
THEOREM EpochsInOrder == Spec /\ []Recent => QueueSpec
<1>1. Init => Queue!Init
      BY DEF Init, Queue!Init
<1>2. TypeOK /\ OrderInv /\ Recent /\ OrderInv' /\ [Next]_vars
        => [Queue!Advance \/ Queue!Abandon]_<<{pending[i].time : i \in DOMAIN pending}, lastOdom>>
  <2> SUFFICES ASSUME TypeOK, OrderInv, Recent, OrderInv', Next
               PROVE  \/ Queue!Advance \/ Queue!Abandon
                      \/ pending' = pending /\ lastOdom' = lastOdom
      BY DEF vars, composer
  <2>1. CASE Tick
        BY <2>1 DEF Tick
  <2>2. CASE Reset
        BY <2>2 DEF Reset, Queue!Abandon
  <2>3. CASE ~Tick /\ ~Reset
    <3>1. PICK state, new :
            Becomes(state) /\ Sound(state) /\ Good(state) /\ Advances(State, state, {new})
          BY <2>3, GoodStep
    <3> DEFINE waiting == {pending[i].time : i \in DOMAIN pending}
               next == {pending'[i].time : i \in DOMAIN pending'}
    <3>2. Times(State) = waiting /\ Times(state) = next /\ State.lastOdom = lastOdom /\ state.lastOdom = lastOdom'
          BY <3>1 DEF Times, State, Becomes
    <3>3. next \ waiting \subseteq {new}
          BY <3>1, <3>2 DEF Advances
    <3>4. Cardinality(next \ waiting) <= 1
      <4>1. IsFiniteSet({new}) /\ Cardinality({new}) = 1
            BY FS_Singleton
      <4> HIDE DEF next, waiting
      <4> QED
          BY <3>3, <4>1, FS_Subset
    <3>5. \A time \in waiting \ next : lastOdom' # None /\ time <= lastOdom'
          BY <3>1, <3>2 DEF Advances, Passed
    <3>6. lastOdom' = lastOdom
          \/ (lastOdom' # None /\ ~(lastOdom # None /\ lastOdom' <= lastOdom))
          BY <3>1, <3>2 DEF Advances, Passed
    <3>7. \A time \in next : ~(lastOdom' # None /\ time <= lastOdom')
      <4>1. /\ state.lastOdom \in Int \cup {None}
            /\ \A i \in DOMAIN state.pending : state.pending[i].time \in Int
            BY <3>1, QueueTyped DEF Sound
      <4>2. state.lastOdom # None =>
              \A i \in DOMAIN state.pending : state.lastOdom < state.pending[i].time
            BY <3>1 DEF Good, Ordered
      <4>3. \A time \in Times(state) : ~(state.lastOdom # None /\ time <= state.lastOdom)
            BY <4>1, <4>2 DEF Times
      <4> QED
          BY <3>2, <4>3
    <3>8. Queue!Advance
      <4>1. \A time \in waiting \ next : Queue!Passed(time, lastOdom')
            BY <3>5 DEF Queue!Passed
      <4>2. lastOdom' = lastOdom \/ (lastOdom' # None /\ ~Queue!Passed(lastOdom', lastOdom))
            BY <3>6 DEF Queue!Passed
      <4>3. \A time \in next : ~Queue!Passed(time, lastOdom')
            BY <3>7 DEF Queue!Passed
      <4> QED
          BY <3>4, <4>1, <4>2, <4>3, Zenon DEF Queue!Advance, Queue!Cardinality, Cardinality
    <3> QED
        BY <3>8
  <2> QED
      BY <2>1, <2>2, <2>3
<1> QED
    BY <1>1, <1>2, OrderAlways, TypeCorrect, PTL DEF Spec, QueueSpec, Queue!Spec

(* In such a session every log and every poll of the timer retires what    *)
(* has waited for its deadline and the latest delay of a log               *)
(* (flush_pending, try_compose_odometry).                                  *)
THEOREM EpochsRetiredInTime == Spec /\ []Recent => RetiredInTime
<1>1. ASSUME TypeOK, OrderInv, Recent, Next
      PROVE  clock' = clock => \A i \in DOMAIN pending' : clock - pending'[i].received < Wait + MaxDelay
  <2>1. CASE Tick
    <3>1. clock \in Nat
          BY <1>1 DEF TypeOK
    <3> QED
        BY <2>1, <3>1 DEF Tick
  <2>2. CASE Reset
        BY <2>2 DEF Reset
  <2>3. CASE ~Tick /\ ~Reset
    <3>1. PICK state : Becomes(state) /\ Prompt(state)
          BY <1>1, <2>3, GoodStep
    <3> QED
        BY <3>1 DEF Becomes, Prompt
  <2> QED
      BY <2>1, <2>2, <2>3
<1> QED
    BY <1>1, OrderAlways, TypeCorrect, PTL DEF Spec, RetiredInTime

-----------------------------------------------------------------------------
(* The hypothesis can be met: every epoch of a behaviour that is over, with *)
(* the latest delay of a log, within half a wrap of the timestamps is      *)
(* recent.                                                                 *)
ShortSession == 2 * (MaxTime + MaxDelay - Start) < Wrap

ClockInv == clock <= MaxTime \/ clock = Start

LEMMA ClockNext == TypeOK /\ ClockInv /\ [Next]_vars => ClockInv'
<1> SUFFICES ASSUME TypeOK, ClockInv, [Next]_vars PROVE ClockInv'
    OBVIOUS
<1>1. CASE Tick
      BY <1>1, ComposerAssumption DEF TypeOK, Tick, ClockInv
<1>2. CASE UNCHANGED clock
      BY <1>2 DEF ClockInv
<1>3. Tick \/ UNCHANGED clock
      BY StepCases DEF Reset, vars
<1> QED
    BY <1>1, <1>2, <1>3

LEMMA ShortIsRecent == ASSUME ShortSession, TypeOK, OrderInv, ClockInv PROVE Recent
<1>1. /\ clock \in Int /\ Start \in Int /\ MaxTime \in Int /\ MaxDelay \in Nat /\ Wrap \in Int
      /\ 2 * MaxDelay < Wrap
      BY ComposerAssumption, WrapAssumption DEF TypeOK
<1>2. ASSUME NEW time \in Int, Start - MaxDelay <= time PROVE 2 * (clock - time) < Wrap
      BY <1>1, <1>2 DEF ShortSession, ClockInv
<1>3. \A i \in DOMAIN pending : pending[i].time \in Int
      BY ReachesState, QueueTyped DEF Reaches, State
<1>4. lastOdom \in Int \cup {None}
      BY DEF TypeOK
<1> QED
    BY <1>2, <1>3, <1>4 DEF Recent, Young, OrderInv, Timed

THEOREM ShortSessionsAreRecent == ASSUME ShortSession PROVE Spec => []Recent
<1>1. Init => ClockInv
      BY DEF Init, ClockInv
<1>2. TypeOK /\ OrderInv /\ ClockInv /\ [Next]_vars => OrderInv' /\ ClockInv'
      BY ShortIsRecent, OrderNext, ClockNext
<1>3. TypeOK /\ OrderInv /\ ClockInv => Recent
      BY ShortIsRecent
<1> QED
    BY <1>1, <1>2, <1>3, OrderInit, TypeCorrect, PTL DEF Spec

(* In a short session an epoch is refused only if it is late, none is lost *)
(* or reordered, and each is retired in time, with no further hypothesis.  *)
COROLLARY ShortSessionsInOrder ==
  ASSUME ShortSession
  PROVE  Spec => []OnlyLateRefused /\ QueueSpec /\ RetiredInTime
BY ShortSessionsAreRecent, OnlyLateAreRefused, EpochsInOrder, EpochsRetiredInTime, PTL

-----------------------------------------------------------------------------
(* The members.  A history long enough for the delays of its logs always   *)
(* ends at least as late as the latest log that was dropped from it.       *)

(* Its logs came in this order, late by at most MaxLag, from different times. *)
Kept(log) ==
  /\ log \in Seq(Entries)
  /\ \A i \in DOMAIN log :
       /\ log[i].time <= log[i].received /\ log[i].received <= log[i].time + MaxLag
       /\ log[i].received <= clock
  /\ \A i, j \in DOMAIN log :
       i < j => log[i].received <= log[j].received /\ log[i].time # log[j].time

(* It reaches this time, or that is longer ago than a history goes back. *)
Covers(log, time) == (\E i \in DOMAIN log : log[i].time >= time) \/ time < clock - MaxAge

(* Nothing in it is older than a history goes back. *)
Current(log) == \A i \in DOMAIN log : clock - log[i].received <= MaxAge

(* What is left of a history, or is made of it, covers what it covered. *)
Succeeds(later, log) ==
  Kept(later) /\ Current(later) /\ \A time \in Int : Covers(log, time) => Covers(later, time)

LEMMA LogTyped ==
  ASSUME NEW log \in Seq(Entries)
  PROVE  /\ Len(log) \in Nat /\ DOMAIN log = 1 .. Len(log)
         /\ \A i \in 1 .. Len(log) : log[i].time \in Int /\ log[i].received \in Int
<1>1. Len(log) \in Nat /\ DOMAIN log = 1 .. Len(log) /\ \A i \in 1 .. Len(log) : log[i] \in Entries
      BY LenProperties, ElementOfSeq
<1>2. \A entry \in Entries : entry.time \in Int /\ entry.received \in Int
      BY DEF Entries
<1> QED
    BY <1>1, <1>2

(* A history without its first n logs. *)
Ends(rest, log, n) ==
  /\ DOMAIN rest = 1 .. Len(log) - n /\ Len(rest) = Len(log) - n
  /\ \A i \in 1 .. Len(log) - n : rest[i] = log[n + i]

LEMMA RestKept ==
  ASSUME NEW log, Kept(log), NEW n \in 0 .. Len(log), NEW rest, rest = SubSeq(log, n + 1, Len(log))
  PROVE  Kept(rest) /\ Ends(rest, log, n)
<1>1. log \in Seq(Entries) /\ Len(log) \in Nat /\ DOMAIN log = 1 .. Len(log)
      BY LogTyped DEF Kept
<1>2. /\ rest \in Seq(Entries) /\ DOMAIN rest = 1 .. Len(log) - n /\ Len(rest) = Len(log) - n
      /\ \A i \in 1 .. Len(log) - n : rest[i] = log[n + i]
      BY <1>1, RestOf
<1>3. \A i \in 1 .. Len(log) - n : n + i \in 1 .. Len(log)
      BY <1>1
<1>4. \A i \in DOMAIN rest :
        /\ rest[i].time <= rest[i].received /\ rest[i].received <= rest[i].time + MaxLag
        /\ rest[i].received <= clock
      BY <1>1, <1>2, <1>3 DEF Kept
<1>5. ASSUME NEW i \in DOMAIN rest, NEW j \in DOMAIN rest, i < j
      PROVE  rest[i].received <= rest[j].received /\ rest[i].time # rest[j].time
  <2>1. n + i \in DOMAIN log /\ n + j \in DOMAIN log /\ n + i < n + j
        BY <1>1, <1>2, <1>3, <1>5
  <2>2. rest[i] = log[n + i] /\ rest[j] = log[n + j]
        BY <1>2, <1>5
  <2> QED
      BY <2>1, <2>2 DEF Kept
<1>6. Kept(rest)
      BY <1>2, <1>4, <1>5 DEF Kept
<1> QED
    BY <1>2, <1>6 DEF Ends

(* prune_raw_imu_history and its like: what is old is forgotten. *)
LEMMA FreshSucceeds ==
  ASSUME NEW log, Kept(log), clock \in Int
  PROVE  /\ Succeeds(Fresh(log), log)
         /\ Len(Fresh(log)) <= Len(log) /\ ToSet(Fresh(log)) \subseteq ToSet(log)
<1> DEFINE old == {i \in DOMAIN log : clock - log[i].received > MaxAge}
           n == Leading(old, Len(log))
           rest == Fresh(log)
<1>1. /\ Len(log) \in Nat /\ DOMAIN log = 1 .. Len(log) /\ MaxAge \in Nat
      /\ \A i \in 1 .. Len(log) : log[i].time \in Int /\ log[i].received \in Int
      BY LogTyped, ComposerAssumption DEF Kept
<1>2. n \in 0 .. Len(log) /\ 1 .. n \subseteq old /\ (n < Len(log) => n + 1 \notin old)
      BY <1>1, LeadingIs
<1>3. rest = SubSeq(log, n + 1, Len(log))
      BY DEF Fresh, DropFront
<1> HIDE DEF n, rest
<1>4. /\ Kept(rest) /\ DOMAIN rest = 1 .. Len(log) - n /\ Len(rest) = Len(log) - n
      /\ \A i \in 1 .. Len(log) - n : rest[i] = log[n + i]
  <2>1. Kept(rest) /\ Ends(rest, log, n)
        BY <1>2, <1>3, RestKept
  <2> QED
      BY <2>1 DEF Ends
<1>5. \A i \in 1 .. Len(log) - n : n + i \in 1 .. Len(log)
      BY <1>1, <1>2
<1>6. Current(rest)
  <2>1. ASSUME NEW i \in 1 .. Len(log) - n PROVE clock - log[n + i].received <= MaxAge
    <3> DEFINE size == Len(log)
    <3>0. size \in Nat /\ n \in 0 .. size /\ i \in 1 .. size - n
          BY <1>1, <1>2, <2>1
    <3> HIDE DEF size
    <3>1. n < size /\ n + 1 \in 1 .. size /\ n + i \in 1 .. size /\ (i = 1 \/ n + 1 < n + i)
          BY <3>0
    <3> USE DEF size
    <3>2. ~(clock - log[n + 1].received > MaxAge)
          BY <1>1, <1>2, <3>1
    <3>3. i = 1 \/ log[n + 1].received <= log[n + i].received
          BY <1>1, <3>1 DEF Kept
    <3>4. log[n + 1].received \in Int /\ log[n + i].received \in Int
          BY <1>1, <3>1
    <3> QED
        BY <1>1, <3>2, <3>3, <3>4
  <2> QED
      BY <1>4, <2>1 DEF Current
<1>7. ASSUME NEW time \in Int, Covers(log, time) PROVE Covers(rest, time)
  <2>1. CASE time < clock - MaxAge
        BY <2>1 DEF Covers
  <2>2. CASE \E i \in DOMAIN log : log[i].time >= time
    <3>1. PICK i \in 1 .. Len(log) : log[i].time >= time
          BY <1>1, <2>2
    <3>2. CASE i \in 1 .. n
      <4>1. clock - log[i].received > MaxAge
            BY <1>2, <3>2
      <4>2. log[i].time <= log[i].received /\ log[i].time \in Int /\ log[i].received \in Int
            BY <1>1, <3>1 DEF Kept
      <4>3. time < clock - MaxAge
            BY <1>1, <3>1, <4>1, <4>2
      <4> QED
          BY <4>3 DEF Covers
    <3>3. CASE i \notin 1 .. n
      <4>1. i - n \in 1 .. Len(log) - n /\ n + (i - n) = i
            BY <1>1, <1>2, <3>1, <3>3
      <4>2. rest[i - n] = log[i]
            BY <1>4, <4>1
      <4> QED
          BY <1>4, <3>1, <4>1, <4>2 DEF Covers
    <3> QED
        BY <3>2, <3>3
  <2> QED
      BY <1>7, <2>1, <2>2 DEF Covers
<1>8. ToSet(rest) \subseteq ToSet(log)
      BY <1>1, <1>4, <1>5 DEF ToSet
<1>9. Len(rest) <= Len(log)
      BY <1>1, <1>2, <1>4
<1> QED
    BY <1>4, <1>6, <1>7, <1>8, <1>9 DEF Succeeds, rest

(* A history with one log more, before any is dropped for it. *)
LEMMA AppendSucceeds ==
  ASSUME NEW log, Kept(log), Current(log), clock \in Int, NEW lag \in 0 .. MaxLag,
         \A i \in DOMAIN log : log[i].time # clock - lag,
         NEW longer, longer = Append(log, Entry(clock - lag))
  PROVE  /\ Succeeds(longer, log) /\ Len(longer) = Len(log) + 1
         /\ DOMAIN longer = 1 .. Len(log) + 1
         /\ longer[Len(log) + 1] = Entry(clock - lag)
         /\ \A i \in 1 .. Len(log) : longer[i] = log[i]
<1> DEFINE entry == Entry(clock - lag)
<1>1. /\ log \in Seq(Entries) /\ Len(log) \in Nat /\ DOMAIN log = 1 .. Len(log)
      /\ MaxLag \in Nat /\ MaxAge \in Nat /\ lag \in Int
      /\ \A i \in 1 .. Len(log) : log[i].time \in Int /\ log[i].received \in Int
      BY LogTyped, ComposerAssumption DEF Kept
<1>2. /\ entry \in Entries /\ entry.time = clock - lag /\ entry.received = clock
      BY <1>1 DEF Entry, Entries
<1> HIDE DEF entry
<1>3. /\ longer \in Seq(Entries) /\ Len(longer) = Len(log) + 1
      /\ longer[Len(log) + 1] = entry
      /\ \A i \in 1 .. Len(log) : longer[i] = log[i]
      BY <1>1, <1>2, AppendProperties DEF entry
<1>4. DOMAIN longer = 1 .. Len(log) + 1
      BY <1>3, LenProperties
<1>5. \A i \in 1 .. Len(log) + 1 : i \in 1 .. Len(log) \/ i = Len(log) + 1
      BY <1>1
<1>6. \A i \in 1 .. Len(log) : i \in 1 .. Len(log) + 1
      BY <1>1
<1>7. \A i \in 1 .. Len(log) :
        /\ log[i].time <= log[i].received /\ log[i].received <= log[i].time + MaxLag
        /\ log[i].received <= clock /\ clock - log[i].received <= MaxAge
        /\ log[i].time # clock - lag
      BY <1>1 DEF Kept, Current
<1>8. /\ entry.time <= entry.received /\ entry.received <= entry.time + MaxLag
      /\ entry.received <= clock /\ clock - entry.received <= MaxAge
      BY <1>1, <1>2
<1>9. Current(longer)
      BY <1>3, <1>4, <1>5, <1>7, <1>8 DEF Current
<1>10. ASSUME NEW i \in 1 .. Len(log) + 1, NEW j \in 1 .. Len(log) + 1, i < j
       PROVE  longer[i].received <= longer[j].received /\ longer[i].time # longer[j].time
  <2>1. i \in 1 .. Len(log)
        BY <1>1, <1>10
  <2>2. CASE j \in 1 .. Len(log)
    <3>1. log[i].received <= log[j].received /\ log[i].time # log[j].time
          BY <1>1, <1>10, <2>1, <2>2 DEF Kept
    <3> QED
        BY <1>3, <2>1, <2>2, <3>1
  <2>3. CASE j = Len(log) + 1
        BY <1>2, <1>3, <1>7, <2>1, <2>3
  <2> QED
      BY <1>5, <1>10, <2>2, <2>3
<1>11. Kept(longer)
  <2>1. \A i \in DOMAIN longer :
          /\ longer[i].time <= longer[i].received /\ longer[i].received <= longer[i].time + MaxLag
          /\ longer[i].received <= clock
        BY <1>3, <1>4, <1>5, <1>7, <1>8
  <2> QED
      BY <1>3, <1>4, <1>10, <2>1 DEF Kept
<1>12. \A time \in Int : Covers(log, time) => Covers(longer, time)
       BY <1>1, <1>3, <1>4, <1>6 DEF Covers
<1> QED
    BY <1>3, <1>4, <1>9, <1>11, <1>12 DEF Succeeds, entry

(* A full history drops its first log for a new one: of those that remain, *)
(* taken at different times and none more than MaxLag before it, one is    *)
(* not before it.                                                          *)
LEMMA TailSucceeds ==
  ASSUME NEW log, Kept(log), Current(log), clock \in Int,
         MaxLag < MaxHistory, Len(log) = MaxHistory + 1, NEW rest, rest = Tail(log)
  PROVE  /\ Succeeds(rest, log) /\ Len(rest) = MaxHistory /\ DOMAIN rest = 1 .. MaxHistory
         /\ \A i \in 1 .. MaxHistory : rest[i] = log[1 + i]
<1>1. /\ log \in Seq(Entries) /\ DOMAIN log = 1 .. MaxHistory + 1
      /\ MaxHistory \in Nat /\ MaxHistory > 0 /\ MaxLag \in Nat /\ MaxAge \in Nat
      /\ \A i \in 1 .. MaxHistory + 1 : log[i].time \in Int /\ log[i].received \in Int
      BY LogTyped, ComposerAssumption DEF Kept
<1>2. rest = SubSeq(log, 1 + 1, Len(log)) /\ 1 \in 0 .. Len(log)
  <2>1. Len(log) # 0
        BY <1>1
  <2>2. log # <<>>
        BY <1>1, <2>1, EmptySeq
  <2>3. rest = SubSeq(log, 2, Len(log))
        BY <1>1, <2>2, TailIsSubSeq
  <2> QED
      BY <1>1, <2>3
<1>3. Kept(rest) /\ Ends(rest, log, 1)
      BY <1>2, RestKept
<1>4. /\ DOMAIN rest = 1 .. MaxHistory /\ Len(rest) = MaxHistory
      /\ \A i \in 1 .. MaxHistory : rest[i] = log[1 + i] /\ 1 + i \in 1 .. MaxHistory + 1
      BY <1>1, <1>3 DEF Ends
<1>5. Current(rest)
      BY <1>1, <1>4 DEF Current
<1>6. \E i \in 1 .. MaxHistory : rest[i].time >= log[1].time
  <2> SUFFICES ASSUME \A i \in 1 .. MaxHistory : rest[i].time < log[1].time PROVE FALSE
      BY <1>1, <1>4
  <2> DEFINE head == log[1].time
             room == head - MaxLag .. head - 1
             timing == [i \in 1 .. MaxHistory |-> rest[i].time]
  <2>1. ASSUME NEW i \in 1 .. MaxHistory PROVE rest[i].time \in room
    <3>1. rest[i] = log[1 + i] /\ 1 + i \in 1 .. MaxHistory + 1 /\ 1 \in 1 .. MaxHistory + 1 /\ 1 < 1 + i
          BY <1>1, <1>4
    <3>2. log[1].received <= log[1 + i].received /\ log[1].time <= log[1].received
          /\ log[1 + i].received <= log[1 + i].time + MaxLag
          BY <1>1, <3>1 DEF Kept
    <3>3. /\ log[1].time \in Int /\ log[1].received \in Int
          /\ log[1 + i].time \in Int /\ log[1 + i].received \in Int
          BY <1>1, <3>1
    <3>4. log[1 + i].time < log[1].time
          BY <3>1
    <3> QED
        BY <1>1, <3>1, <3>2, <3>3, <3>4
  <2>2. ASSUME NEW i \in 1 .. MaxHistory, NEW j \in 1 .. MaxHistory, rest[i].time = rest[j].time
        PROVE  i = j
    <3>1. \A k, l \in 1 .. MaxHistory : k < l => rest[k].time # rest[l].time
          BY <1>3, <1>4 DEF Kept
    <3> QED
        BY <1>1, <2>2, <3>1
  <2>3. timing \in Injection(1 .. MaxHistory, room)
        BY <2>1, <2>2 DEF Injection, IsInjective
  <2>4. head \in Int
        BY <1>1
  <2> HIDE DEF head, timing
  <2>5. IsFiniteSet(room) /\ Cardinality(room) = MaxLag
    <3>1. IsFiniteSet(room) /\ Cardinality(room) = IF head - MaxLag > head - 1 THEN 0
                                                    ELSE (head - 1) - (head - MaxLag) + 1
      <4>1. head - MaxLag \in Int /\ head - 1 \in Int
            BY <1>1, <2>4
      <4> QED
          BY <4>1, FS_Interval
    <3> HIDE DEF room
    <3> QED
        BY <1>1, <2>4, <3>1
  <2>6. Cardinality(1 .. MaxHistory) = MaxHistory
        BY <1>1, FS_Interval
  <2> HIDE DEF room
  <2>7. Cardinality(1 .. MaxHistory) <= Cardinality(room)
        BY <2>3, <2>5, FS_Injection
  <2> QED
      BY <1>1, <2>5, <2>6, <2>7
<1>7. ASSUME NEW time \in Int, Covers(log, time) PROVE Covers(rest, time)
  <2>1. CASE time < clock - MaxAge
        BY <2>1 DEF Covers
  <2>2. CASE \E i \in DOMAIN log : log[i].time >= time
    <3>1. PICK i \in 1 .. MaxHistory + 1 : log[i].time >= time
          BY <1>1, <2>2
    <3>2. CASE i = 1
      <4>1. PICK j \in 1 .. MaxHistory : rest[j].time >= log[1].time
            BY <1>6
      <4>2. /\ log[1].time \in Int /\ rest[j].time \in Int
            BY <1>1, <1>4, <4>1
      <4>3. log[1].time >= time
            BY <3>1, <3>2
      <4>4. rest[j].time >= time
        <5> DEFINE there == rest[j].time
                   head == log[1].time
        <5>1. there >= head /\ head >= time /\ there \in Int /\ head \in Int
              BY <4>1, <4>2, <4>3
        <5> HIDE DEF there, head
        <5>2. there >= time
              BY <5>1
        <5> QED
            BY <5>2 DEF there
      <4> QED
          BY <1>4, <4>1, <4>4 DEF Covers
    <3>3. CASE i # 1
      <4>1. i - 1 \in 1 .. MaxHistory /\ 1 + (i - 1) = i
            BY <1>1, <3>1, <3>3
      <4>2. rest[i - 1] = log[i]
            BY <1>4, <4>1
      <4> QED
          BY <1>4, <3>1, <4>1, <4>2 DEF Covers
    <3> QED
        BY <3>2, <3>3
  <2> QED
      BY <1>7, <2>1, <2>2 DEF Covers
<1> QED
    BY <1>3, <1>4, <1>5, <1>7 DEF Succeeds

LEMMA SucceedsOn ==
  ASSUME NEW first, NEW second, NEW third, Succeeds(second, first), Succeeds(third, second)
  PROVE  Succeeds(third, first)
BY DEF Succeeds

LEMMA HistoriesSucceed ==
  ASSUME clock \in Int, \A one \in Members : Kept(history[one])
  PROVE  \A one \in Members :
           Succeeds(Histories[one], history[one]) /\ ToSet(Histories[one]) \subseteq ToSet(history[one])
BY FreshSucceeds DEF Histories

(* The histories a log of a stream leads to. *)
LEMMA RememberingSucceeds ==
  ASSUME clock \in Int, MaxLag < MaxHistory,
         \A one \in Members : Kept(history[one]) /\ Len(history[one]) <= MaxHistory,
         NEW member \in Members, NEW lag \in 0 .. MaxLag,
         \A i \in DOMAIN history[member] : history[member][i].time # clock - lag,
         NEW later, later = Remembering(member, clock - lag)
  PROVE  /\ \A one \in Members : Succeeds(later[one], Histories[one])
         /\ \A one \in Members \ {member} : ToSet(later[one]) \subseteq ToSet(history[one])
         /\ later[member][Len(later[member])] = Entry(clock - lag)
<1> DEFINE fresh == Fresh(history[member])
           longer == Append(fresh, Entry(clock - lag))
           rest == Tail(longer)
<1>1. /\ Kept(fresh) /\ Current(fresh) /\ Succeeds(fresh, history[member])
      /\ Len(fresh) <= MaxHistory /\ Len(fresh) \in Nat /\ DOMAIN fresh = 1 .. Len(fresh)
      /\ ToSet(fresh) \subseteq ToSet(history[member])
  <2>1. /\ Succeeds(fresh, history[member]) /\ Len(fresh) <= Len(history[member])
        /\ ToSet(fresh) \subseteq ToSet(history[member])
        BY FreshSucceeds
  <2>2. Kept(fresh) /\ Current(fresh)
        BY <2>1 DEF Succeeds
  <2>3. Len(history[member]) \in Nat /\ Len(history[member]) <= MaxHistory
        BY LogTyped DEF Kept
  <2>4. Len(fresh) \in Nat /\ DOMAIN fresh = 1 .. Len(fresh)
        BY <2>2, LogTyped DEF Kept
  <2> HIDE DEF fresh
  <2> QED
      BY <2>1, <2>2, <2>3, <2>4, ComposerAssumption
<1>2. \A i \in DOMAIN fresh : fresh[i].time # clock - lag
      BY <1>1 DEF ToSet
<1> HIDE DEF fresh
<1>3. /\ Succeeds(longer, fresh) /\ Len(longer) = Len(fresh) + 1 /\ DOMAIN longer = 1 .. Len(fresh) + 1
      /\ longer[Len(fresh) + 1] = Entry(clock - lag)
      BY <1>1, <1>2, AppendSucceeds
<1>4. later = [Histories EXCEPT ![member] = IF Len(longer) > MaxHistory THEN rest ELSE longer]
      BY DEF Remembering, Histories, fresh
<1>5. DOMAIN Histories = Members
      BY DEF Histories
<1> HIDE DEF longer, rest
<1>6. later[member] = (IF Len(longer) > MaxHistory THEN rest ELSE longer)
      BY <1>4, <1>5
<1>7. Len(longer) > MaxHistory =>
        Succeeds(rest, longer) /\ rest[Len(rest)] = Entry(clock - lag)
  <2> SUFFICES ASSUME Len(longer) > MaxHistory
               PROVE  Succeeds(rest, longer) /\ rest[Len(rest)] = Entry(clock - lag)
      OBVIOUS
  <2>1. MaxHistory \in Nat /\ MaxHistory > 0 /\ Len(fresh) = MaxHistory /\ Len(longer) = MaxHistory + 1
    <3> DEFINE size == Len(fresh)
               total == Len(longer)
    <3>1. /\ total > MaxHistory /\ total = size + 1 /\ size \in Nat /\ size <= MaxHistory
          /\ MaxHistory \in Nat /\ MaxHistory > 0
          BY <1>1, <1>3, ComposerAssumption
    <3> HIDE DEF size, total
    <3>2. size = MaxHistory /\ total = MaxHistory + 1
          BY <3>1
    <3> QED
        BY <3>1, <3>2 DEF size, total
  <2>2. Kept(longer) /\ Current(longer)
        BY <1>3 DEF Succeeds
  <2>3. /\ Succeeds(rest, longer) /\ Len(rest) = MaxHistory
        /\ \A i \in 1 .. MaxHistory : rest[i] = longer[1 + i]
    <3>1. clock \in Int
          OBVIOUS
    <3> QED
        BY <2>1, <2>2, <3>1, TailSucceeds DEF rest
  <2>4. rest[MaxHistory] = longer[1 + MaxHistory] /\ 1 + MaxHistory = Len(fresh) + 1
        BY <2>1, <2>3
  <2> QED
      BY <1>3, <2>3, <2>4
<1>8. Succeeds(later[member], Histories[member])
  <2>1. Histories[member] = fresh
        BY DEF Histories, fresh
  <2> QED
      BY <1>3, <1>6, <1>7, <2>1, SucceedsOn
<1>9. later[member][Len(later[member])] = Entry(clock - lag)
      BY <1>3, <1>6, <1>7
<1>10. \A one \in Members \ {member} : later[one] = Histories[one]
       BY <1>4, <1>5
<1>11. \A one \in Members \ {member} : Succeeds(later[one], Histories[one])
       BY <1>10, HistoriesSucceed DEF Succeeds
<1> QED
    BY <1>8, <1>9, <1>10, <1>11, HistoriesSucceed

-----------------------------------------------------------------------------
(* What is published.                                                      *)

(* Nearest is no more than the distance of any log of the history. *)
LEMMA NearestIs ==
  ASSUME NEW log, NEW time, Within(log, time, Tolerance),
         NEW i \in DOMAIN log, Distance(log[i].time, time) \in Nat
  PROVE  Nearest(log, time) \in Nat /\ Nearest(log, time) <= Distance(log[i].time, time)
<1> DEFINE good(radius) ==
             /\ radius <= Tolerance => Within(log, time, radius)
             /\ \A nearer \in 0 .. (radius - 1) : ~Within(log, time, nearer)
           reach == {radius \in 0 .. Tolerance : Within(log, time, radius)}
<1>1. Tolerance \in Nat
      BY ComposerAssumption
<1>2. \E radius \in 0 .. (Tolerance + 1) : good(radius)
  <2>1. PICK least \in reach : \A radius \in reach : least <= radius
    <3>1. reach \in SUBSET Nat /\ reach # {}
          BY <1>1
    <3> HIDE DEF reach
    <3> QED
        BY <3>1, LeastOf
  <2>2. \A nearer \in 0 .. (least - 1) : ~Within(log, time, nearer)
    <3> SUFFICES ASSUME NEW nearer \in 0 .. (least - 1), Within(log, time, nearer) PROVE FALSE
        OBVIOUS
    <3>1. nearer \in reach /\ nearer < least
          BY <1>1, <2>1
    <3> QED
        BY <1>1, <2>1, <3>1
  <2> QED
      BY <1>1, <2>1, <2>2
<1>3. Nearest(log, time) = CHOOSE radius \in 0 .. (Tolerance + 1) : good(radius)
      BY DEF Nearest
<1>4. Nearest(log, time) \in 0 .. (Tolerance + 1) /\ good(Nearest(log, time))
  <2> HIDE DEF good
  <2> QED
      BY <1>2, <1>3
<1>5. Within(log, time, Distance(log[i].time, time))
      BY DEF Within
<1> DEFINE nearest == Nearest(log, time)
           far == Distance(log[i].time, time)
<1>6. ~(far \in 0 .. (nearest - 1))
      BY <1>4, <1>5
<1>7. nearest \in 0 .. (Tolerance + 1) /\ far \in Nat
      BY <1>4
<1> HIDE DEF nearest, far
<1>8. nearest \in Nat /\ nearest <= far
      BY <1>1, <1>6, <1>7
<1> QED
    BY <1>8 DEF nearest, far

(* A set of positions in a queue has a greatest one. *)
LEMMA GreatestOf ==
  ASSUME NEW n \in Nat, NEW S \in SUBSET (1 .. n), S # {}
  PROVE  Max(S) \in S
<1>0. \A i \in S : i \in 1 .. n /\ i \in Int /\ n - i \in Nat
  <2>1. \A i \in 1 .. n : i \in Int /\ n - i \in Nat
        OBVIOUS
  <2> QED
      BY <2>1
<1> DEFINE back == {n - i : i \in S}
<1>1. PICK least \in back : \A k \in back : least <= k
  <2>1. back \in SUBSET Nat /\ back # {}
        BY <1>0
  <2> HIDE DEF back
  <2> QED
      BY <2>1, LeastOf
<1>2. PICK greatest \in S : least = n - greatest
      BY <1>1
<1>3. \A i \in S : greatest >= i
  <2> SUFFICES ASSUME NEW i \in S PROVE greatest >= i
      OBVIOUS
  <2>1. n - greatest <= n - i
        BY <1>1, <1>2
  <2>2. i \in Int /\ greatest \in Int
        BY <1>0
  <2> QED
      BY <2>1, <2>2
<1> QED
    BY <1>3 DEF Max

(* What a call publishes is the last epoch it retires that lacks nothing.  *)
LEMMA ComposeSends ==
  ASSUME NEW state, Sound(state), NEW histories, NEW force
  PROVE  \/ Compose(state, histories, force).sent = state.sent
         \/ \E k \in 1 .. Retiring(state, histories, force) :
              /\ Missing(histories, state.pending[k]) = {}
              /\ Compose(state, histories, force).sent =
                   Odometry(histories, state.pending[k],
                            ~Expired(state.pending[k]) /\ ~(force /\ k = 1))
<1> DEFINE n == Retiring(state, histories, force)
           whole == {i \in 1 .. n : Missing(histories, state.pending[i]) = {}}
           next == Compose(state, histories, force)
<1>1. n \in Nat
      BY RetiringIs, LenProperties DEF Sound
<1>2. next.sent = IF whole = {} THEN state.sent
                  ELSE Odometry(histories, state.pending[Max(whole)],
                                ~Expired(state.pending[Max(whole)]) /\ ~(force /\ Max(whole) = 1))
  <2> DOMAIN state = Fields
      BY DEF Sound
  <2> QED
      BY DEF Compose, Fields
<1>3. whole # {} => Max(whole) \in whole
  <2>1. whole \in SUBSET (1 .. n)
        OBVIOUS
  <2> HIDE DEF whole, n
  <2> QED
      BY <1>1, <2>1, GreatestOf
<1> HIDE DEF next, n
<1> QED
    BY <1>2, <1>3 DEF next, n

(* A published epoch is no older than the session, and if it was published *)
(* early, every stream covers the distance of its member.                  *)
Best(odometry, logs) ==
  odometry # None =>
    /\ odometry.time \in Int /\ Start - MaxDelay <= odometry.time
    /\ odometry.early =>
         \A member \in Required :
           /\ odometry.distance[member] \in Nat
           /\ Covers(logs[member], odometry.time + odometry.distance[member])

(* A history goes back further than a log is late, and is long enough for  *)
(* the logs of so late a stream, and short for the wrap of the timestamps. *)
LongHistories == MaxLag < MaxHistory /\ MaxLag <= MaxAge /\ 2 * (MaxAge + MaxLag) < Wrap

(* The histories try_compose_odometry looks at. *)
Usable(logs) == \A member \in Members : Kept(logs[member]) /\ Current(logs[member])

(* An epoch every stream has reached: the first log that is not before it  *)
(* is at least as far as the nearest one.                                  *)
LEMMA SettledCovers ==
  ASSUME LongHistories, clock \in Int, NEW logs, Usable(logs), NEW epoch,
         epoch.time \in Int, epoch.time <= clock, 2 * (clock - epoch.time) < Wrap,
         Settled(logs, epoch), NEW member \in Required
  PROVE  /\ Nearest(logs[member], epoch.time) \in Nat
         /\ Covers(logs[member], epoch.time + Nearest(logs[member], epoch.time))
<1> DEFINE log == logs[member]
           time == epoch.time
<1>1. /\ member \in Members /\ MaxLag \in Nat /\ MaxAge \in Nat /\ Wrap \in Nat
      BY ComposerAssumption, WrapAssumption
<1>2. Kept(log) /\ Current(log) /\ DOMAIN log = 1 .. Len(log)
      /\ \A i \in 1 .. Len(log) : log[i].time \in Int /\ log[i].received \in Int
      BY <1>1, LogTyped DEF Usable, Kept
<1>3. Reached(log, time) /\ Within(log, time, Tolerance)
      BY <1>1 DEF Settled
<1>4. PICK i \in DOMAIN log : SignedDelta(log[i].time, time) >= 0
      BY <1>3 DEF Reached
<1> DEFINE found == log[i].time
<1>5. found \in Int /\ found <= clock /\ clock - found <= MaxAge + MaxLag
  <2>1. /\ log[i].time \in Int /\ log[i].received \in Int
        BY <1>2
  <2>2. /\ log[i].time <= log[i].received /\ log[i].received <= log[i].time + MaxLag
        /\ log[i].received <= clock /\ clock - log[i].received <= MaxAge
        BY <1>2 DEF Kept, Current
  <2> QED
      BY <1>1, <2>1, <2>2
<1>6. SignedDelta(found, time) = found - time
  <2> HIDE DEF found
  <2>1. 2 * (clock - found) < Wrap
        BY <1>1, <1>5 DEF LongHistories
  <2> QED
      BY <1>5, <2>1, DeltaOfYoung
<1>7. Distance(found, time) = found - time /\ found >= time
  <2> HIDE DEF found
  <2>1. found - time >= 0
        BY <1>4, <1>6 DEF found
  <2> QED
      BY <1>5, <1>6, <2>1 DEF Distance
<1>8. Distance(found, time) \in Nat
      BY <1>5, <1>7
<1>9. Nearest(log, time) \in Nat /\ Nearest(log, time) <= Distance(found, time)
  <2> HIDE DEF log, time
  <2> QED
      BY <1>3, <1>8, NearestIs
<1>10. found >= time + Nearest(log, time)
       BY <1>5, <1>7, <1>9
<1> QED
    BY <1>9, <1>10 DEF Covers

LEMMA ComposeBest ==
  ASSUME LongHistories, clock \in Int, NEW logs, Usable(logs),
         NEW state, Sound(state), Good(state), Best(state.sent, logs), NEW force
  PROVE  Best(Compose(state, logs, force).sent, logs)
<1> DEFINE next == Compose(state, logs, force)
           n == Retiring(state, logs, force)
<1>1. CASE next.sent = state.sent
      BY <1>1
<1>2. CASE next.sent # state.sent
  <2>1. PICK k \in 1 .. n :
          next.sent = Odometry(logs, state.pending[k],
                               ~Expired(state.pending[k]) /\ ~(force /\ k = 1))
        BY <1>2, ComposeSends
  <2> DEFINE epoch == state.pending[k]
  <2>2. k \in DOMAIN state.pending /\ k \in ReadyOnes(state, logs, force)
        BY RetiringIs, QueueTyped
  <2>3. epoch.time \in Int /\ epoch.received \in Int
        BY <2>2, QueueTyped
  <2>4. /\ epoch.time <= epoch.received /\ epoch.received <= clock
        /\ Start - MaxDelay <= epoch.time /\ 2 * (clock - epoch.time) < Wrap
        BY <2>2 DEF Good, Timed, Young
  <2>5. epoch.time <= clock
        BY <2>3, <2>4
  <2>6. (force /\ k = 1) \/ Expired(epoch) \/ Settled(logs, epoch)
        BY <2>2 DEF ReadyOnes, Ready
  <2> HIDE DEF next, n, epoch
  <2>7. /\ next.sent.time = epoch.time
        /\ next.sent.early = (~Expired(epoch) /\ ~(force /\ k = 1))
        /\ next.sent.distance = [member \in Required |-> Nearest(logs[member], epoch.time)]
        BY <2>1 DEF Odometry, epoch
  <2>8. next.sent.early =>
          \A member \in Required :
            /\ next.sent.distance[member] \in Nat
            /\ Covers(logs[member], next.sent.time + next.sent.distance[member])
    <3> SUFFICES ASSUME next.sent.early, NEW member \in Required
                 PROVE  /\ next.sent.distance[member] \in Nat
                        /\ Covers(logs[member], next.sent.time + next.sent.distance[member])
        OBVIOUS
    <3>1. Settled(logs, epoch)
          BY <2>6, <2>7
    <3>2. /\ Nearest(logs[member], epoch.time) \in Nat
          /\ Covers(logs[member], epoch.time + Nearest(logs[member], epoch.time))
          BY <2>3, <2>4, <2>5, <3>1, SettledCovers
    <3> QED
        BY <2>7, <3>2
  <2> QED
      BY <2>3, <2>4, <2>7, <2>8 DEF Best, next
<1> QED
    BY <1>1, <1>2

LEMMA EpochBest ==
  ASSUME LongHistories, clock \in Int, NEW logs, Usable(logs), NEW time \in Int,
         NEW state, Sound(state), Good(state), Best(state.sent, logs)
  PROVE  Best(OdomEpoch(state, logs, time).sent, logs)
<1> DEFINE room == IF Len(state.pending) < MaxEpochs THEN state ELSE Compose(state, logs, TRUE)
           next == OdomEpoch(state, logs, time)
<1>1. Sound(room) /\ Best(room.sent, logs)
  <2>1. ASSUME NEW force PROVE Best(Compose(state, logs, force).sent, logs)
        BY ComposeBest
  <2> QED
      BY <2>1, ComposeSound
<1>2. next \in {Refuse(state, time), state, Refuse(room, time), Insert(room, time)}
      BY OdomEpochIs DEF EpochOutcome
<1>3. DOMAIN state = Fields /\ DOMAIN room = Fields
      BY <1>1 DEF Sound
<1> HIDE DEF room, next
<1>4. /\ Refuse(state, time).sent = state.sent /\ Refuse(room, time).sent = room.sent
      /\ Insert(room, time).sent = room.sent
      BY <1>3 DEF Refuse, Insert, Fields
<1> QED
    BY <1>1, <1>2, <1>4 DEF next

(* The inductive invariant. *)
NearInv == (\A member \in Members : Kept(history[member])) /\ Best(sent, history)

(* Later histories cover for a published epoch what the earlier ones did. *)
LEMMA BestOn ==
  ASSUME NEW odometry, NEW logs, NEW later, Best(odometry, logs),
         \A member \in Members : Succeeds(later[member], logs[member])
  PROVE  Best(odometry, later)
<1>1. Required \subseteq Members
      BY ComposerAssumption
<1>2. ASSUME odometry # None, odometry.early, NEW member \in Required
      PROVE  Covers(later[member], odometry.time + odometry.distance[member])
  <2>1. /\ odometry.time \in Int /\ odometry.distance[member] \in Nat
        /\ Covers(logs[member], odometry.time + odometry.distance[member])
        BY <1>2 DEF Best
  <2>2. odometry.time + odometry.distance[member] \in Int
        BY <2>1
  <2> QED
      BY <1>1, <2>1, <2>2 DEF Succeeds
<1> QED
    BY <1>2 DEF Best

(* After the flush that every call begins with. *)
LEMMA FlushedBest ==
  ASSUME LongHistories, TypeOK, OrderInv, Recent, NearInv
  PROVE  /\ Usable(Histories) /\ Sound(Flushed) /\ Good(Flushed)
         /\ Best(Flushed.sent, Histories)
<1>1. clock \in Int /\ \A member \in Members : Kept(history[member])
      BY DEF TypeOK, NearInv
<1>2. \A member \in Members : Succeeds(Histories[member], history[member])
      BY <1>1, HistoriesSucceed
<1>3. Usable(Histories)
      BY <1>2 DEF Usable, Succeeds
<1>4. Sound(State) /\ Good(State) /\ State.sent = sent
      BY ReachesState, StateGood DEF Reaches, State
<1>5. Best(State.sent, Histories)
      BY <1>2, <1>4, BestOn DEF NearInv
<1>6. Reaches(Flushed, {})
      BY ReachesState, ReachesCompose DEF Flushed
<1>7. Sound(Flushed) /\ Good(Flushed)
      BY <1>4, <1>6 DEF Reaches
<1>8. ASSUME NEW force PROVE Best(Compose(State, Histories, force).sent, Histories)
      BY <1>1, <1>3, <1>4, <1>5, ComposeBest
<1> QED
    BY <1>3, <1>7, <1>8 DEF Flushed

(* What a log of a stream, in order or not, leads to. *)
LEMMA MemberBest ==
  ASSUME LongHistories, TypeOK, OrderInv, Recent, NearInv,
         NEW member \in Members, NEW lag \in 0 .. MaxLag, MemberLog(member, lag)
  PROVE  /\ \A one \in Members : Kept(history'[one])
         /\ Best(sent', history')
         /\ \A one \in Members \ {member} : ToSet(history'[one]) \subseteq ToSet(history[one])
         /\ history'[member][Len(history'[member])] = Entry(clock - lag)
<1> DEFINE later == Remembering(member, clock - lag)
<1>1. /\ clock \in Int /\ MaxLag < MaxHistory
      /\ \A one \in Members : Kept(history[one]) /\ Len(history[one]) <= MaxHistory
      BY DEF TypeOK, NearInv, LongHistories
<1>2. /\ \A i \in DOMAIN history[member] : history[member][i].time # clock - lag
      /\ history' = later /\ sent' = Compose(Flushed, later, FALSE).sent
      BY DEF MemberLog, Becomes
<1>3. /\ \A one \in Members : Succeeds(later[one], Histories[one])
      /\ \A one \in Members \ {member} : ToSet(later[one]) \subseteq ToSet(history[one])
      /\ later[member][Len(later[member])] = Entry(clock - lag)
      BY <1>1, <1>2, RememberingSucceeds
<1> HIDE DEF later
<1>4. Usable(later)
      BY <1>3 DEF Usable, Succeeds
<1>5. Sound(Flushed) /\ Good(Flushed) /\ Best(Flushed.sent, Histories)
      BY FlushedBest
<1>6. Best(Flushed.sent, later)
      BY <1>3, <1>5, BestOn
<1>7. ASSUME NEW force PROVE Best(Compose(Flushed, later, force).sent, later)
      BY <1>1, <1>4, <1>5, <1>6, ComposeBest
<1> QED
    BY <1>2, <1>3, <1>4, <1>7 DEF Usable

(* What any other call leads to. *)
LEMMA OtherBest ==
  ASSUME LongHistories, TypeOK, OrderInv, Recent, NearInv,
         FlushPending \/ \E delay \in 0 .. MaxDelay : NavLog(delay)
  PROVE  /\ \A one \in Members : Kept(history'[one])
         /\ Best(sent', history')
         /\ \A one \in Members : ToSet(history'[one]) \subseteq ToSet(history[one])
<1>1. clock \in Int /\ \A one \in Members : Kept(history[one])
      BY DEF TypeOK, NearInv
<1>2. Usable(Histories) /\ Sound(Flushed) /\ Good(Flushed) /\ Best(Flushed.sent, Histories)
      BY FlushedBest
<1>3. history' = Histories
      BY DEF FlushPending, NavLog
<1>4. Best(sent', Histories)
  <2>1. CASE FlushPending
        BY <1>2, <2>1 DEF FlushPending, Becomes
  <2>2. CASE \E delay \in 0 .. MaxDelay : NavLog(delay)
    <3>1. PICK delay \in 0 .. MaxDelay : NavLog(delay)
          BY <2>2
    <3> DEFINE time == clock - delay
               epoch == OdomEpoch(Flushed, Histories, time)
    <3>2. time \in Int /\ time <= clock /\ clock - time <= MaxDelay
          BY <1>1, ComposerAssumption
    <3>3. Reaches(Flushed, {})
          BY ReachesState, ReachesCompose DEF Flushed
    <3>4. Sound(epoch)
          BY <3>3, ReachesEpoch DEF Reaches
    <3> HIDE DEF time
    <3>5. Good(epoch)
          BY <1>1, <1>2, <3>2, EpochGood
    <3>6. Best(epoch.sent, Histories)
          BY <1>1, <1>2, <3>2, EpochBest
    <3> HIDE DEF epoch
    <3>7. ASSUME NEW force PROVE Best(Compose(epoch, Histories, force).sent, Histories)
          BY <1>1, <1>2, <3>4, <3>5, <3>6, ComposeBest
    <3> QED
        BY <3>1, <3>7 DEF NavLog, Becomes, epoch, time
  <2> QED
      BY <2>1, <2>2
<1> QED
    BY <1>1, <1>2, <1>3, <1>4, HistoriesSucceed DEF Usable

LEMMA NearNext ==
  ASSUME LongHistories
  PROVE  TypeOK /\ OrderInv /\ Recent /\ NearInv /\ [Next]_vars => NearInv'
<1> SUFFICES ASSUME TypeOK, OrderInv, Recent, NearInv, [Next]_vars PROVE NearInv'
    OBVIOUS
<1>0. /\ clock \in Int /\ MaxAge \in Nat /\ Required \subseteq Members /\ None \notin Int
      BY ComposerAssumption DEF TypeOK
<1>1. CASE Tick
  <2>1. history' = history /\ sent' = sent /\ clock' = clock + 1
        BY <1>1 DEF Tick
  <2>2. ASSUME NEW member \in Members PROVE Kept(history[member])'
    <3>1. Kept(history[member])
          BY DEF NearInv
    <3>2. \A i \in DOMAIN history[member] : history[member][i].received \in Int
          BY <3>1, LogTyped DEF Kept
    <3>3. \A i \in DOMAIN history[member] : history[member][i].received <= clock + 1
          BY <1>0, <3>1, <3>2 DEF Kept
    <3> QED
        BY <2>1, <3>1, <3>3 DEF Kept
  <2>3. ASSUME NEW member \in Members, NEW time \in Int, Covers(history[member], time)
        PROVE  Covers(history[member], time)'
        BY <1>0, <2>1, <2>3 DEF Covers
  <2>4. ASSUME sent # None
        PROVE  /\ sent.time \in Int /\ Start - MaxDelay <= sent.time
               /\ sent.early =>
                    \A member \in Required :
                      /\ sent.distance[member] \in Nat
                      /\ Covers(history[member], sent.time + sent.distance[member])'
    <3>1. ASSUME sent.early, NEW member \in Required
          PROVE  /\ sent.distance[member] \in Nat
                 /\ Covers(history[member], sent.time + sent.distance[member])'
      <4>1. /\ sent.time \in Int /\ sent.distance[member] \in Nat
            /\ Covers(history[member], sent.time + sent.distance[member])
            BY <2>4, <3>1 DEF NearInv, Best
      <4>2. sent.time + sent.distance[member] \in Int /\ member \in Members
            BY <1>0, <4>1
      <4>3. sent'.time = sent.time /\ sent'.distance = sent.distance
            BY <2>1
      <4>4. \A time \in Int : Covers(history[member], time) => Covers(history[member], time)'
            BY <2>3, <4>2
      <4> QED
          BY <2>1, <4>1, <4>2, <4>3, <4>4 DEF Covers
    <3> QED
        BY <2>4, <3>1 DEF NearInv, Best
  <2>5. Best(sent, history)'
        BY <2>1, <2>4 DEF Best
  <2> QED
      BY <2>2, <2>5 DEF NearInv
<1>2. CASE Reset
      BY <1>2 DEF Reset, NearInv, Kept, Best
<1>3. CASE UNCHANGED vars
      BY <1>3 DEF vars, composer, NearInv, Kept, Best, Covers
<1>4. CASE ~Tick /\ ~Reset /\ Next
  <2>1. clock' = clock
        BY <1>4, StepCases
  <2>2. (\A one \in Members : Kept(history'[one])) /\ Best(sent', history')
        BY <1>4, MemberBest, OtherBest DEF Next
  <2> QED
      BY <2>1, <2>2 DEF NearInv, Kept, Best, Covers
<1> QED
    BY <1>1, <1>2, <1>3, <1>4

(* The latest published epoch is not half a wrap of the timestamps old. *)
SentRecent == sent # None => 2 * (clock - sent.time) < Wrap

(* The log at the end of a history in order is the one that just came. *)
LEMMA OnlyNew ==
  ASSUME NEW member \in Members, InOrder(member), history'[member] \in Seq(Entries)
  PROVE  ~(ToSet(history'[member]) \subseteq ToSet(history[member]))
<1> DEFINE log == history'[member]
<1>1. Len(log) \in Nat /\ Len(log) > 0 /\ DOMAIN log = 1 .. Len(log)
      BY LenProperties DEF InOrder
<1>2. Len(log) \in DOMAIN log
  <2> DEFINE size == Len(log)
  <2> HIDE DEF log
  <2>1. size \in 1 .. size
    <3>1. size \in Nat /\ size > 0
          BY <1>1
    <3> HIDE DEF size
    <3> QED
        BY <3>1
  <2> QED
      BY <1>1, <2>1
<1>3. log[Len(log)] \in ToSet(log)
      BY <1>2 DEF ToSet
<1> QED
    BY <1>3 DEF InOrder

LEMMA NothingCloserStep ==
  ASSUME LongHistories, TypeOK, OrderInv, Recent, NearInv, SentRecent, [Next]_vars,
         NEW member \in Required, sent # None, sent.early, InOrder(member)
  PROVE  sent.distance[member] <= Distance(Last(history'[member]).time, sent.time)
<1>0. /\ clock \in Int /\ MaxAge \in Nat /\ MaxLag \in Nat /\ MaxLag <= MaxAge
      /\ member \in Members /\ Wrap \in Nat /\ Wrap > 0
      BY ComposerAssumption, WrapAssumption DEF TypeOK, LongHistories
<1>1. Kept(history[member]) /\ history[member] \in Seq(Entries)
      BY <1>0 DEF NearInv, Kept
<1>2. ~(history' = history) /\ ~Reset
  <2>1. history' # history
        BY <1>0, <1>1, OnlyNew
  <2>2. CASE Reset
    <3>1. history'[member] = <<>>
          BY <1>0, <2>2 DEF Reset
    <3>2. Len(history'[member]) = 0
          BY <3>1, EmptySeq
    <3> QED
        BY <3>2 DEF InOrder
  <2> QED
      BY <2>1, <2>2
<1>3. ~(FlushPending \/ \E delay \in 0 .. MaxDelay : NavLog(delay))
  <2> SUFFICES ASSUME FlushPending \/ \E delay \in 0 .. MaxDelay : NavLog(delay) PROVE FALSE
      OBVIOUS
  <2>1. Kept(history'[member]) /\ ToSet(history'[member]) \subseteq ToSet(history[member])
        BY <1>0, OtherBest
  <2> QED
      BY <1>0, <2>1, OnlyNew DEF Kept
<1>4. PICK one \in Members, lag \in 0 .. MaxLag : MemberLog(one, lag)
      BY <1>2, <1>3 DEF Next, Tick, vars, composer
<1>5. one = member
  <2> SUFFICES ASSUME one # member PROVE FALSE
      OBVIOUS
  <2>1. Kept(history'[member]) /\ ToSet(history'[member]) \subseteq ToSet(history[member])
        BY <1>0, <1>4, MemberBest
  <2> QED
      BY <1>0, <2>1, OnlyNew DEF Kept
<1> DEFINE new == clock - lag
           near == sent.distance[member]
           bound == sent.time + near
<1>6. Last(history'[member]) = Entry(new)
      BY <1>4, <1>5, MemberBest DEF Last
<1>7. Last(history'[member]).time = new /\ new \in Int /\ new <= clock /\ clock - new <= MaxLag
      BY <1>0, <1>6 DEF Entry
<1>8. /\ sent.time \in Int /\ near \in Nat /\ Covers(history[member], bound)
      BY DEF NearInv, Best
<1>9. new > bound
  <2>1. CASE \E i \in DOMAIN history[member] : history[member][i].time >= bound
    <3>1. PICK i \in DOMAIN history[member] : history[member][i].time >= bound
          BY <2>1
    <3>2. history[member][i].time \in Int
          BY <1>1, LogTyped
    <3>3. history[member][i].time < new
          BY <1>7 DEF InOrder, Last
    <3> DEFINE there == history[member][i].time
    <3>4. there \in Int /\ there >= bound /\ there < new /\ bound \in Int
          BY <1>8, <3>1, <3>2, <3>3
    <3> HIDE DEF there, bound, new
    <3> QED
        BY <1>7, <3>4
  <2>2. CASE bound < clock - MaxAge
    <3>1. bound \in Int
          BY <1>8
    <3> HIDE DEF bound, new
    <3> QED
        BY <1>0, <1>7, <2>2, <3>1
  <2> QED
      BY <1>8, <2>1, <2>2 DEF Covers
<1>10. Distance(new, sent.time) = new - sent.time
  <2>1. 2 * (clock - sent.time) < Wrap
        BY DEF SentRecent
  <2>2. /\ new \in Int /\ sent.time \in Int /\ new >= sent.time
        /\ 2 * (new - sent.time) < Wrap /\ 2 * (sent.time - new) < Wrap
    <3>1. bound = sent.time + near /\ near \in Nat /\ sent.time \in Int
          BY <1>8
    <3> DEFINE time == sent.time
    <3> HIDE DEF near, bound, new, time
    <3>2. bound = time + near /\ near \in Nat /\ time \in Int /\ 2 * (clock - time) < Wrap
          BY <2>1, <3>1 DEF time
    <3>3. /\ new \in Int /\ time \in Int /\ new >= time
          /\ 2 * (new - time) < Wrap /\ 2 * (time - new) < Wrap
          BY <1>0, <1>7, <1>9, <3>2
    <3> QED
        BY <3>3 DEF time
  <2> HIDE DEF new
  <2>3. SignedDelta(new, sent.time) = new - sent.time
        BY <2>2, DeltaIs
  <2>4. ~(new - sent.time < 0)
        BY <2>2
  <2> QED
      BY <2>3, <2>4 DEF Distance
<1>11. near <= new - sent.time
       BY <1>7, <1>8, <1>9
<1> QED
    BY <1>7, <1>10, <1>11

LEMMA NearAlways ==
  ASSUME LongHistories
  PROVE  Spec /\ []Recent => []NearInv
<1>1. Init => NearInv
  <2> SUFFICES ASSUME Init PROVE NearInv
      OBVIOUS
  <2>1. \A member \in Members : history[member] = <<>>
        BY DEF Init
  <2>2. <<>> \in Seq(Entries) /\ DOMAIN <<>> = {}
        OBVIOUS
  <2>3. \A member \in Members : Kept(history[member])
        BY <2>1, <2>2 DEF Kept
  <2> QED
      BY <2>3 DEF Init, NearInv, Best
<1>2. TypeOK /\ OrderInv /\ Recent /\ NearInv /\ [Next]_vars => NearInv'
      BY NearNext
<1> QED
    BY <1>1, <1>2, OrderAlways, TypeCorrect, PTL DEF Spec

(* While neither a waiting epoch nor the latest published one is half a    *)
(* wrap of the timestamps old, an epoch published before its deadline has  *)
(* the best members there will be: no stream in order brings a closer log  *)
(* (try_compose_odometry), whatever its history dropped for age or for     *)
(* room (prune_raw_imu_history and its like).                              *)
THEOREM BestMembersUsed ==
  ASSUME LongHistories
  PROVE  Spec /\ []Recent /\ []SentRecent => NothingCloserComes
<1>1. TypeOK /\ OrderInv /\ Recent /\ NearInv /\ SentRecent /\ [Next]_vars =>
        \A member \in Required :
          sent # None /\ sent.early /\ InOrder(member) =>
            sent.distance[member] <= Distance(Last(history'[member]).time, sent.time)
      BY NothingCloserStep
<1> QED
    BY <1>1, NearAlways, OrderAlways, TypeCorrect, PTL DEF Spec, NothingCloserComes

(* In a short session it has, with no further hypothesis. *)
COROLLARY ShortSessionsUseTheBest ==
  ASSUME LongHistories, ShortSession
  PROVE  Spec => NothingCloserComes
<1>1. TypeOK /\ ClockInv /\ NearInv => SentRecent
  <2> SUFFICES ASSUME TypeOK, ClockInv, NearInv, sent # None PROVE 2 * (clock - sent.time) < Wrap
      BY DEF SentRecent
  <2>1. /\ clock \in Int /\ Start \in Int /\ MaxTime \in Int /\ MaxDelay \in Nat /\ Wrap \in Int
        /\ 2 * MaxDelay < Wrap
        BY ComposerAssumption, WrapAssumption DEF TypeOK
  <2>2. sent.time \in Int /\ Start - MaxDelay <= sent.time
        BY DEF NearInv, Best
  <2> QED
      BY <2>1, <2>2 DEF ShortSession, ClockInv
<1>2. Init => ClockInv
      BY DEF Init, ClockInv
<1>3. TypeOK /\ ClockInv /\ [Next]_vars => ClockInv'
      BY ClockNext
<1> QED
    BY <1>1, <1>2, <1>3, NearAlways, BestMembersUsed, ShortSessionsAreRecent, TypeCorrect, PTL DEF Spec

=============================================================================
