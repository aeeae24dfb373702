-------------------------- MODULE ImuPairingProofs --------------------------
(***************************************************************************)
(* Proofs about ImuPairing, for every source, tolerance, deadline,         *)
(* capacity and wrap, and whatever the order the logs come in: one stream  *)
(* of IMU samples, no sample held past its deadline, headings in order,    *)
(* and the best partners there will be.  An operation of the model is a    *)
(* function of the three variables it changes, so what it does to them is  *)
(* a lemma each (Carries), and an action composes them.                    *)
(***************************************************************************)
EXTENDS ImuPairing, SequenceTheorems, FiniteSetTheorems, TLAPS

-----------------------------------------------------------------------------
(* The front of a queue.                                                   *)

(* A set of naturals has a least element: among the intervals that end in  *)
(* one of them one is minimal under inclusion.                             *)
LEMMA LeastOf ==
  ASSUME NEW S \in SUBSET Nat, S # {}
  PROVE  \E least \in S : \A n \in S : least <= n
<1> DEFINE upTo == {0 .. n : n \in S}
<1>1. upTo \subseteq FiniteSubsetsOf(Nat) /\ upTo # {}
  <2>1. \A n \in S : IsFiniteSet(0 .. n)
        BY FS_Interval
  <2>2. \A n \in S : 0 .. n \in FiniteSubsetsOf(Nat)
        BY <2>1 DEF FiniteSubsetsOf
  <2> QED
      BY <2>2
<1>2. \E interval \in upTo :
        \A other \in upTo : <<other, interval>> \notin StrictSubsetOrdering(Nat)
  <2>1. IsWellFoundedOn(StrictSubsetOrdering(Nat), FiniteSubsetsOf(Nat))
        BY FS_StrictSubsetOrderingWellFounded
  <2> HIDE DEF upTo
  <2> QED
      BY <1>1, <2>1, WFMin
<1>3. PICK least \in S :
        \A other \in upTo : <<other, 0 .. least>> \notin StrictSubsetOrdering(Nat)
      BY <1>2
<1>4. SUFFICES ASSUME NEW n \in S, n < least PROVE FALSE
      BY <1>3
<1>5. 0 .. n \subseteq 0 .. least /\ 0 .. n # 0 .. least
  <2>1. least \in 0 .. least /\ least \notin 0 .. n
        BY <1>4
  <2>2. 0 .. n \subseteq 0 .. least
        BY <1>4
  <2> QED
      BY <2>1, <2>2
<1>6. <<0 .. n, 0 .. least>> \in StrictSubsetOrdering(Nat)
  <2>1. 0 .. n \in SUBSET Nat /\ 0 .. least \in SUBSET Nat
        OBVIOUS
  <2> QED
      BY <1>5, <2>1 DEF StrictSubsetOrdering
<1> QED
    BY <1>3, <1>6

(* Leading is the length of the longest prefix of 1 .. n in the set. *)
LEMMA LeadingIs ==
  ASSUME NEW set, NEW n \in Nat
  PROVE  /\ Leading(set, n) \in 0 .. n
         /\ 1 .. Leading(set, n) \subseteq set
         /\ Leading(set, n) < n => Leading(set, n) + 1 \notin set
<1> DEFINE outside == {i \in 1 .. n : i \notin set}
           good(k) == 1 .. k \subseteq set /\ (k < n => k + 1 \notin set)
<1>1. \E k \in 0 .. n : good(k)
  <2>1. CASE outside = {}
        BY <2>1
  <2>2. CASE outside # {}
    <3>1. PICK least \in outside : \A i \in outside : least <= i
      <4>1. outside \in SUBSET Nat
            OBVIOUS
      <4> HIDE DEF outside
      <4> QED
          BY <2>2, <4>1, LeastOf
    <3>2. least - 1 \in 0 .. n /\ good(least - 1)
          BY <3>1
    <3> QED
        BY <3>2
  <2> QED
      BY <2>1, <2>2
<1>2. Leading(set, n) = CHOOSE k \in 0 .. n : good(k)
      BY DEF Leading
<1>3. Leading(set, n) \in 0 .. n /\ good(Leading(set, n))
  <2> HIDE DEF good
  <2> QED
      BY <1>1, <1>2
<1> QED
    BY <1>3

(* The rest of a queue whose first n entries are gone. *)
LEMMA RestOf ==
  ASSUME NEW queue \in Seq(Entries), NEW n \in 0 .. Len(queue)
  PROVE  LET rest == SubSeq(queue, n + 1, Len(queue))
         IN  /\ rest \in Seq(Entries) /\ DOMAIN rest = 1 .. Len(queue) - n
             /\ Len(rest) = Len(queue) - n
             /\ \A i \in 1 .. Len(queue) - n : rest[i] = queue[n + i]
<1> DEFINE rest == SubSeq(queue, n + 1, Len(queue))
<1>1. Len(queue) \in Nat /\ \A i \in 1 .. Len(queue) : queue[i] \in Entries
      BY LenProperties, ElementOfSeq
<1>2. /\ rest \in Seq(Entries)
      /\ Len(rest) = IF n + 1 <= Len(queue) THEN Len(queue) - (n + 1) + 1 ELSE 0
      /\ \A i \in 1 .. Len(queue) - (n + 1) + 1 : rest[i] = queue[(n + 1) + i - 1]
  <2>1. n + 1 \in Int /\ Len(queue) \in Int /\ \A i \in (n + 1) .. Len(queue) : queue[i] \in Entries
        BY <1>1
  <2> QED
      BY <2>1, SubSeqProperties
<1>3. Len(rest) = Len(queue) - n /\ \A i \in 1 .. Len(queue) - n : rest[i] = queue[n + i]
      BY <1>1, <1>2
<1>4. DOMAIN rest = 1 .. Len(rest)
      BY <1>2, LenProperties
<1> QED
    BY <1>2, <1>3, <1>4

-----------------------------------------------------------------------------
(* Timestamps.  Comparing two of them compares the times they stand for,   *)
(* as long as these are less than half a wrap apart.                       *)

(* A number written as quotient and remainder has that remainder. *)
LEMMA Remainder ==
  ASSUME NEW q \in Int, NEW r \in 0 .. (Wrap - 1)
  PROVE  (Wrap * q + r) % Wrap = r
BY WrapAssumption

(* The two cases of the signed difference: forwards, as it comes, *)
LEMMA DeltaForward ==
  ASSUME NEW x \in Int, NEW y \in Int, NEW d \in Int, (x - y) % Wrap = d, 2 * d < Wrap
  PROVE  SignedDelta(x, y) = d
BY WrapAssumption DEF SignedDelta

(* and backwards, where the difference comes out one wrap too large. *)
LEMMA DeltaBackward ==
  ASSUME NEW x \in Int, NEW y \in Int, NEW d \in Int,
         (x - y) % Wrap = d + Wrap, 2 * (d + Wrap) >= Wrap
  PROVE  SignedDelta(x, y) = d
BY WrapAssumption DEF SignedDelta

LEMMA DeltaIs ==
  ASSUME NEW a \in Int, NEW b \in Int, 2 * (a - b) < Wrap, 2 * (b - a) < Wrap
  PROVE  SignedDelta(a, b) = a - b
<1>1. CASE a >= b
  <2>1. (Wrap * 0 + (a - b)) % Wrap = a - b
        BY <1>1, Remainder, WrapAssumption
  <2>2. (a - b) % Wrap = a - b /\ a - b \in Int
        BY <2>1, WrapAssumption
  <2> QED
      BY <2>2, DeltaForward, Zenon
<1>2. CASE a < b
  <2>1. (Wrap * (-1) + (a - b + Wrap)) % Wrap = a - b + Wrap
        BY <1>2, Remainder, WrapAssumption
  <2>2. (a - b) % Wrap = (a - b) + Wrap /\ a - b \in Int
        BY <2>1, WrapAssumption
  <2>3. 2 * ((a - b) + Wrap) >= Wrap
        BY WrapAssumption
  <2> QED
      BY <2>2, <2>3, DeltaBackward, Zenon
<1> QED
    BY <1>1, <1>2

-----------------------------------------------------------------------------
(* Queues of logs.                                                         *)

(* Logs in the order they came, each at most MaxLag after it was taken. *)
Came(queue) ==
  /\ queue \in Seq(Entries)
  /\ \A i \in DOMAIN queue :
       /\ queue[i].time <= queue[i].received /\ queue[i].received <= queue[i].time + MaxLag
       /\ Start <= queue[i].received /\ queue[i].received <= clock
  /\ \A i, j \in DOMAIN queue : i < j => queue[i].received <= queue[j].received

(* The logs of a history are of different times. *)
Distinct(log) == \A i, j \in DOMAIN log : i < j => log[i].time # log[j].time

(* They are all of one kind. *)
Every(queue, kind) == \A i \in DOMAIN queue : queue[i].kind = kind

LEMMA QueueTyped ==
  ASSUME NEW queue \in Seq(Entries)
  PROVE  /\ Len(queue) \in Nat /\ DOMAIN queue = 1 .. Len(queue)
         /\ \A i \in 1 .. Len(queue) :
              queue[i] \in Entries /\ queue[i].time \in Int /\ queue[i].received \in Int
<1>1. Len(queue) \in Nat /\ DOMAIN queue = 1 .. Len(queue) /\ \A i \in 1 .. Len(queue) : queue[i] \in Entries
      BY LenProperties, ElementOfSeq
<1>2. \A entry \in Entries : entry.time \in Int /\ entry.received \in Int
      BY DEF Entries
<1> QED
    BY <1>1, <1>2

(* A queue without its first n logs. *)
Ends(rest, queue, n) ==
  /\ DOMAIN rest = 1 .. Len(queue) - n /\ Len(rest) = Len(queue) - n
  /\ \A i \in 1 .. Len(queue) - n : rest[i] = queue[n + i]

LEMMA RestCame ==
  ASSUME NEW queue, Came(queue), NEW n \in 0 .. Len(queue),
         NEW rest, rest = SubSeq(queue, n + 1, Len(queue))
  PROVE  Came(rest) /\ Ends(rest, queue, n)
<1>1. queue \in Seq(Entries) /\ Len(queue) \in Nat /\ DOMAIN queue = 1 .. Len(queue)
      BY QueueTyped DEF Came
<1>2. /\ rest \in Seq(Entries) /\ DOMAIN rest = 1 .. Len(queue) - n /\ Len(rest) = Len(queue) - n
      /\ \A i \in 1 .. Len(queue) - n : rest[i] = queue[n + i]
      BY <1>1, RestOf
<1>3. \A i \in 1 .. Len(queue) - n : n + i \in 1 .. Len(queue)
      BY <1>1
<1>4. \A i \in DOMAIN rest :
        /\ rest[i].time <= rest[i].received /\ rest[i].received <= rest[i].time + MaxLag
        /\ Start <= rest[i].received /\ rest[i].received <= clock
      BY <1>1, <1>2, <1>3 DEF Came
<1>5. ASSUME NEW i \in DOMAIN rest, NEW j \in DOMAIN rest, i < j
      PROVE  rest[i].received <= rest[j].received
  <2>1. n + i \in DOMAIN queue /\ n + j \in DOMAIN queue /\ n + i < n + j
        BY <1>1, <1>2, <1>3, <1>5
  <2>2. rest[i] = queue[n + i] /\ rest[j] = queue[n + j]
        BY <1>2, <1>5
  <2> QED
      BY <2>1, <2>2 DEF Came
<1>6. Came(rest)
      BY <1>2, <1>4, <1>5 DEF Came
<1> QED
    BY <1>2, <1>6 DEF Ends

LEMMA EndsEvery ==
  ASSUME NEW queue, Came(queue), NEW n \in 0 .. Len(queue), NEW rest, Ends(rest, queue, n),
         NEW kind, Every(queue, kind)
  PROVE  Every(rest, kind)
<1>1. Len(queue) \in Nat /\ DOMAIN queue = 1 .. Len(queue)
      BY QueueTyped DEF Came
<1>2. \A i \in 1 .. Len(queue) - n : n + i \in 1 .. Len(queue)
      BY <1>1
<1> QED
    BY <1>1, <1>2 DEF Ends, Every

LEMMA EndsDistinct ==
  ASSUME NEW queue, Came(queue), Distinct(queue), NEW n \in 0 .. Len(queue), NEW rest, Ends(rest, queue, n)
  PROVE  Distinct(rest)
<1>1. Len(queue) \in Nat /\ DOMAIN queue = 1 .. Len(queue)
      BY QueueTyped DEF Came
<1>2. ASSUME NEW i \in DOMAIN rest, NEW j \in DOMAIN rest, i < j PROVE rest[i].time # rest[j].time
  <2>1. n + i \in DOMAIN queue /\ n + j \in DOMAIN queue /\ n + i < n + j
        BY <1>1, <1>2 DEF Ends
  <2>2. rest[i] = queue[n + i] /\ rest[j] = queue[n + j]
        BY <1>2 DEF Ends
  <2> QED
      BY <2>1, <2>2 DEF Distinct
<1> QED
    BY <1>2 DEF Distinct

(* The log that has just come. *)
LEMMA EntryIs ==
  ASSUME clock \in Int, Start <= clock, NEW kind \in Kinds, NEW lag \in 0 .. MaxLag,
         NEW entry, entry = Entry(kind, clock - lag)
  PROVE  /\ entry \in Entries /\ entry.kind = kind /\ entry.time = clock - lag
         /\ entry.received = clock /\ entry.time \in Int /\ entry.time <= clock
         /\ clock <= entry.time + MaxLag
<1>1. lag \in Int /\ 0 <= lag /\ lag <= MaxLag /\ MaxLag \in Nat
      BY PairingAssumption
<1> QED
    BY <1>1 DEF Entry, Entries

(* A queue with one log more. *)
Extends(longer, queue, entry) ==
  /\ longer \in Seq(Entries) /\ Len(longer) = Len(queue) + 1 /\ DOMAIN longer = 1 .. Len(queue) + 1
  /\ longer[Len(queue) + 1] = entry
  /\ \A i \in 1 .. Len(queue) : longer[i] = queue[i]

LEMMA AppendCame ==
  ASSUME clock \in Int, Start <= clock, NEW queue, Came(queue), NEW kind \in Kinds,
         NEW lag \in 0 .. MaxLag, NEW entry, entry = Entry(kind, clock - lag),
         NEW longer, longer = Append(queue, entry)
  PROVE  Came(longer) /\ Extends(longer, queue, entry)
<1>1. /\ queue \in Seq(Entries) /\ Len(queue) \in Nat /\ DOMAIN queue = 1 .. Len(queue)
      /\ \A i \in 1 .. Len(queue) : queue[i].received \in Int
      BY QueueTyped DEF Came
<1>2. /\ entry \in Entries /\ entry.time \in Int /\ entry.received = clock
      /\ entry.time <= clock /\ clock <= entry.time + MaxLag
      BY EntryIs
<1>3. Extends(longer, queue, entry)
  <2>1. /\ longer \in Seq(Entries) /\ Len(longer) = Len(queue) + 1
        /\ longer[Len(queue) + 1] = entry
        /\ \A i \in 1 .. Len(queue) : longer[i] = queue[i]
        BY <1>1, <1>2, AppendProperties
  <2> QED
      BY <2>1, LenProperties DEF Extends
<1>4. \A i \in 1 .. Len(queue) + 1 : i \in 1 .. Len(queue) \/ i = Len(queue) + 1
      BY <1>1
<1>5. \A i \in DOMAIN longer :
        /\ longer[i].time <= longer[i].received /\ longer[i].received <= longer[i].time + MaxLag
        /\ Start <= longer[i].received /\ longer[i].received <= clock
      BY <1>1, <1>2, <1>3, <1>4 DEF Extends, Came
<1>6. ASSUME NEW i \in DOMAIN longer, NEW j \in DOMAIN longer, i < j
      PROVE  longer[i].received <= longer[j].received
  <2>1. i \in 1 .. Len(queue) /\ j \in 1 .. Len(queue) + 1
        BY <1>1, <1>3, <1>6 DEF Extends
  <2>2. CASE j \in 1 .. Len(queue)
        BY <1>1, <1>3, <1>6, <2>1, <2>2 DEF Came, Extends
  <2>3. CASE j = Len(queue) + 1
        BY <1>1, <1>2, <1>3, <2>1, <2>3 DEF Came, Extends
  <2> QED
      BY <1>4, <2>1, <2>2, <2>3
<1>7. Came(longer)
      BY <1>3, <1>5, <1>6 DEF Came, Extends
<1> QED
    BY <1>3, <1>7

LEMMA AppendEvery ==
  ASSUME NEW queue, Came(queue), NEW kind, Every(queue, kind),
         NEW entry, entry.kind = kind, NEW longer, Extends(longer, queue, entry)
  PROVE  Every(longer, kind)
<1>1. Len(queue) \in Nat /\ DOMAIN queue = 1 .. Len(queue)
      BY QueueTyped DEF Came
<1>2. \A i \in 1 .. Len(queue) + 1 : i \in 1 .. Len(queue) \/ i = Len(queue) + 1
      BY <1>1
<1> QED
    BY <1>1, <1>2 DEF Extends, Every

-----------------------------------------------------------------------------
(* A call of try_publish_imus or try_publish_raw_orientations.             *)

Fields == {"partners", "held", "sent"}

(* A state of the three, as records. *)
Shaped(state) ==
  /\ DOMAIN state = Fields
  /\ state.partners = [topic \in Topics |-> state.partners[topic]]
  /\ state.held = [topic \in Topics |-> state.held[topic]]
  /\ state.sent = [topic \in Topics |-> state.sent[topic]]

(* The samples that need not wait. *)
ReadyOnes(state, topic, force) ==
  {i \in DOMAIN state.held[topic] :
     \/ force /\ i = 1
     \/ Expired(state.held[topic][i])
     \/ Settled(state.partners[topic], topic, state.held[topic][i])}

(* The first n samples are taken out, and the last of them is left published. *)
Publishes(state, next, topic, force, n) ==
  /\ n \in 0 .. Len(state.held[topic])
  /\ 1 .. n \subseteq ReadyOnes(state, topic, force)
  /\ n < Len(state.held[topic]) => n + 1 \notin ReadyOnes(state, topic, force)
  /\ Shaped(next) /\ next.partners = state.partners
  /\ \A other \in Topics \ {topic} :
       next.held[other] = state.held[other] /\ next.sent[other] = state.sent[other]
  /\ next.held[topic] = SubSeq(state.held[topic], n + 1, Len(state.held[topic]))
  /\ next.sent[topic] =
       IF n = 0 THEN state.sent[topic]
       ELSE Message(state.partners[topic], topic, state.held[topic][n],
                    ~Expired(state.held[topic][n]) /\ ~(force /\ n = 1))

LEMMA TryPublishIs ==
  ASSUME NEW state, Shaped(state), NEW topic \in Topics, Came(state.held[topic]), NEW force
  PROVE  \E n : Publishes(state, TryPublish(state, topic, force), topic, force, n)
<1> DEFINE n == Publishing(state, topic, force)
           next == TryPublish(state, topic, force)
           queue == state.held[topic]
           message == Message(state.partners[topic], topic, queue[n],
                              ~Expired(queue[n]) /\ ~(force /\ n = 1))
<1>1. /\ n \in 0 .. Len(queue) /\ 1 .. n \subseteq ReadyOnes(state, topic, force)
      /\ n < Len(queue) => n + 1 \notin ReadyOnes(state, topic, force)
  <2>1. Len(queue) \in Nat
        BY QueueTyped DEF Came
  <2>2. n = Leading(ReadyOnes(state, topic, force), Len(queue))
        BY DEF Publishing, ReadyOnes
  <2> HIDE DEF n
  <2> QED
      BY <2>1, <2>2, LeadingIs
<1>2. next = [state EXCEPT
                !.held[topic] = SubSeq(queue, n + 1, Len(queue)),
                !.sent[topic] = IF n = 0 THEN state.sent[topic] ELSE message]
      BY DEF TryPublish
<1> HIDE DEF n, next, message
<1>3. /\ DOMAIN next = Fields /\ next.partners = state.partners
      /\ next.held = [state.held EXCEPT ![topic] = SubSeq(queue, n + 1, Len(queue))]
      /\ next.sent = [state.sent EXCEPT ![topic] = IF n = 0 THEN state.sent[topic] ELSE message]
      BY <1>2 DEF Shaped, Fields
<1>4. Shaped(next)
      BY <1>3 DEF Shaped
<1>5. /\ next.held[topic] = SubSeq(queue, n + 1, Len(queue))
      /\ next.sent[topic] = (IF n = 0 THEN state.sent[topic] ELSE message)
      /\ \A other \in Topics \ {topic} :
           next.held[other] = state.held[other] /\ next.sent[other] = state.sent[other]
      BY <1>3 DEF Shaped
<1>6. Publishes(state, next, topic, force, n)
      BY <1>1, <1>3, <1>4, <1>5 DEF Publishes, message
<1> QED
    BY <1>6 DEF next

(* What is published is a sample with the nearest of its partners, if any  *)
(* is near enough.                                                         *)
Away(log, time, i) == Distance(log[i].time, time)

LEMMA DistanceType ==
  ASSUME NEW a \in Int, NEW b \in Int
  PROVE  Distance(a, b) \in Nat
<1>1. (a - b) % Wrap \in Int
      BY WrapAssumption
<1>2. SignedDelta(a, b) \in Int
      BY <1>1, WrapAssumption DEF SignedDelta
<1> QED
    BY <1>2 DEF Distance

NearestOf(log, time, tolerance, nearest) ==
  \/ nearest = None /\ \A i \in DOMAIN log : Away(log, time, i) > tolerance
  \/ \E i \in DOMAIN log :
       nearest = log[i] /\ Away(log, time, i) <= tolerance
       /\ \A j \in DOMAIN log : Away(log, time, i) <= Away(log, time, j)

LEMMA NearestIs ==
  ASSUME NEW log, Came(log), NEW time \in Int, NEW tolerance \in Nat
  PROVE  NearestOf(log, time, tolerance, Nearest(log, time, tolerance))
<1> DEFINE near == {i \in DOMAIN log : Distance(log[i].time, time) <= tolerance}
           away(i) == Distance(log[i].time, time)
           first(i) == \A j \in near : away(i) < away(j) \/ (away(i) = away(j) /\ i <= j)
<1>1. Len(log) \in Nat /\ DOMAIN log = 1 .. Len(log) /\ \A i \in DOMAIN log : away(i) \in Nat
      BY QueueTyped, DistanceType DEF Came
<1>2. Nearest(log, time, tolerance) = IF near = {} THEN None ELSE log[CHOOSE i \in near : first(i)]
      BY DEF Nearest
<1>3. CASE near = {}
  <2>1. \A i \in DOMAIN log : away(i) > tolerance
        BY <1>1, <1>3
  <2> QED
      BY <1>2, <1>3, <2>1 DEF NearestOf, Away
<1>4. CASE near # {}
  <2>1. PICK least \in {away(i) : i \in near} : \A k \in {away(i) : i \in near} : least <= k
    <3>1. {away(i) : i \in near} \in SUBSET Nat /\ {away(i) : i \in near} # {}
          BY <1>1, <1>4
    <3> QED
        BY <3>1, LeastOf
  <2> DEFINE ties == {i \in near : away(i) = least}
  <2>2. PICK i \in ties : \A j \in ties : i <= j
    <3>1. ties \in SUBSET Nat /\ ties # {}
      <4>1. \A i \in near : i \in Nat
            BY <1>1
      <4>2. \E i \in near : away(i) = least
            BY <2>1
      <4> HIDE DEF near, away
      <4> QED
          BY <4>1, <4>2
    <3> HIDE DEF ties
    <3> QED
        BY <3>1, LeastOf
  <2>3. i \in near /\ first(i)
    <3>1. i \in near /\ away(i) = least
          OBVIOUS
    <3>2. ASSUME NEW j \in near PROVE away(i) < away(j) \/ (away(i) = away(j) /\ i <= j)
      <4>1. least <= away(j) /\ least \in Nat /\ away(j) \in Nat
            BY <1>1, <2>1
      <4>2. away(j) = least => i <= j
            BY <2>2
      <4> HIDE DEF away, near
      <4> QED
          BY <3>1, <4>1, <4>2
    <3> QED
        BY <3>1, <3>2
  <2> DEFINE chosen == CHOOSE k \in near : first(k)
  <2>4. chosen \in near /\ first(chosen)
    <3> HIDE DEF near, first
    <3> QED
        BY <2>3
  <2>5. Nearest(log, time, tolerance) = log[chosen]
        BY <1>2, <1>4
  <2> HIDE DEF chosen
  <2>6. ASSUME NEW j \in DOMAIN log PROVE away(chosen) <= away(j)
    <3>1. chosen \in DOMAIN log /\ away(chosen) \in Nat /\ away(j) \in Nat /\ away(chosen) <= tolerance
          BY <1>1, <2>4
    <3>2. CASE away(j) <= tolerance
      <4>1. j \in near
            BY <3>2
      <4>2. away(chosen) < away(j) \/ away(chosen) = away(j)
            BY <2>4, <4>1
      <4> HIDE DEF away
      <4> QED
          BY <3>1, <4>2
    <3>3. CASE ~(away(j) <= tolerance)
      <4> HIDE DEF away
      <4> QED
          BY <3>1, <3>3
    <3> QED
        BY <3>2, <3>3
  <2> QED
      BY <2>4, <2>5, <2>6 DEF NearestOf, Away
<1> QED
    BY <1>3, <1>4

-----------------------------------------------------------------------------
(* What every state of the three keeps, in a session whose IMU samples are *)
(* those of IMU_SHORT or those of IMU_DATA.                                *)

Stream(short) == IF short THEN "ImuShort" ELSE "ImuData"
HeldKind(topic, short) == IF topic = "imu" THEN Stream(short) ELSE "GnssHdt"
PartnerKind(topic, short) == IF topic = "imu" THEN "EkfQuat" ELSE Stream(short)

(* A message of this session. *)
Dated(message) ==
  message # None =>
    /\ Start - MaxLag <= message.time /\ message.time <= clock
    /\ message.short => shortSeen

(* Nothing is held before a partner was seen. *)
GoodHeld(queue, topic, short) ==
  /\ Came(queue) /\ Len(queue) <= MaxHeld /\ Every(queue, HeldKind(topic, short))
  /\ ~seen[topic] => queue = <<>>

GoodLog(log, topic, short) ==
  Came(log) /\ Distinct(log) /\ Len(log) <= MaxHistory /\ Every(log, PartnerKind(topic, short))

GoodMessage(message) == message \in Messages \cup {None} /\ Dated(message)

Stable(state, short) ==
  /\ Shaped(state) /\ short \in BOOLEAN
  /\ \A topic \in Topics :
       /\ GoodHeld(state.held[topic], topic, short)
       /\ GoodLog(state.partners[topic], topic, short)
       /\ GoodMessage(state.sent[topic])

(* A message made of the logs of these streams. *)
OfStream(message, topic, short) ==
  /\ message.kind = HeldKind(topic, short)
  /\ message.partner # None => message.partner.kind = PartnerKind(topic, short)

(* What is published from one state to the next is. *)
Speaks(state, next, short) ==
  \A topic \in Topics :
    next.sent[topic] = state.sent[topic] \/ OfStream(next.sent[topic], topic, short)

LEMMA KindsAre ==
  ASSUME NEW topic \in Topics, NEW short \in BOOLEAN
  PROVE  HeldKind(topic, short) \in Kinds /\ PartnerKind(topic, short) \in Kinds
BY DEF HeldKind, PartnerKind, Stream, Kinds, ImuLogs

LEMMA MessageIs ==
  ASSUME clock \in Int, shortSeen \in BOOLEAN, NEW topic \in Topics, NEW short \in BOOLEAN,
         NEW log, Came(log), Every(log, PartnerKind(topic, short)),
         NEW entry \in Entries, entry.kind = HeldKind(topic, short),
         Start <= entry.received, entry.received <= clock,
         entry.time <= entry.received, entry.received <= entry.time + MaxLag,
         NEW early \in BOOLEAN, NEW message, message = Message(log, topic, entry, early)
  PROVE  /\ GoodMessage(message) /\ OfStream(message, topic, short)
         /\ message # None /\ message.time = entry.time /\ message.early = early
         /\ message.short = shortSeen
         /\ NearestOf(log, entry.time, Tolerance[topic], message.partner)
<1> DEFINE nearest == Nearest(log, entry.time, Tolerance[topic])
<1>1. /\ Tolerance[topic] \in Nat /\ MaxLag \in Nat /\ Start \in Nat
      /\ None \notin Entries /\ None \notin Messages
      BY PairingAssumption
<1>2. entry.kind \in Kinds /\ entry.time \in Int /\ entry.received \in Int
      BY DEF Entries
<1>3. NearestOf(log, entry.time, Tolerance[topic], nearest)
      BY <1>1, <1>2, NearestIs
<1>4. nearest \in Entries \cup {None} /\ (nearest # None => nearest.kind = PartnerKind(topic, short))
  <2>1. \A i \in DOMAIN log : log[i] \in Entries /\ log[i].kind = PartnerKind(topic, short)
        BY QueueTyped DEF Came, Every
  <2> HIDE DEF nearest
  <2> QED
      BY <1>3, <2>1 DEF NearestOf
<1>5. message = [kind |-> entry.kind, time |-> entry.time, early |-> early,
                 short |-> shortSeen, partner |-> nearest]
      BY DEF Message
<1> HIDE DEF nearest
<1>6. message \in Messages
      BY <1>2, <1>4, <1>5 DEF Messages
<1>7. /\ message.kind = entry.kind /\ message.time = entry.time /\ message.early = early
      /\ message.short = shortSeen /\ message.partner = nearest
      BY <1>5
<1>8. Start - MaxLag <= entry.time /\ entry.time <= clock
      BY <1>1, <1>2
<1> QED
    BY <1>1, <1>3, <1>4, <1>6, <1>7, <1>8 DEF GoodMessage, Dated, OfStream

(* The message a call leaves published. *)
LEMMA PublishedIs ==
  ASSUME clock \in Int, shortSeen \in BOOLEAN, NEW short, NEW state, Stable(state, short),
         NEW topic \in Topics, NEW force, NEW n, NEW next, Publishes(state, next, topic, force, n),
         n # 0, NEW entry, entry = state.held[topic][n], NEW message, message = next.sent[topic]
  PROVE  /\ n \in 1 .. Len(state.held[topic]) /\ entry.time \in Int /\ entry.received \in Int
         /\ entry.received <= entry.time + MaxLag /\ entry.received <= clock
         /\ entry.time <= entry.received
         /\ GoodMessage(message) /\ OfStream(message, topic, short)
         /\ message # None /\ message.time = entry.time /\ message.short = shortSeen
         /\ message.early = (~Expired(entry) /\ ~(force /\ n = 1))
         /\ NearestOf(state.partners[topic], entry.time, Tolerance[topic], message.partner)
<1> DEFINE queue == state.held[topic]
           log == state.partners[topic]
           early == ~Expired(entry) /\ ~(force /\ n = 1)
<1>1. /\ Came(queue) /\ Every(queue, HeldKind(topic, short))
      /\ Came(log) /\ Every(log, PartnerKind(topic, short)) /\ short \in BOOLEAN
      BY DEF Stable, GoodHeld, GoodLog
<1>2. Len(queue) \in Nat /\ DOMAIN queue = 1 .. Len(queue)
      BY <1>1, QueueTyped DEF Came
<1>3. n \in 1 .. Len(queue)
      BY <1>2 DEF Publishes
<1>4. message = Message(log, topic, entry, early)
      BY DEF Publishes
<1>5. /\ entry \in Entries /\ entry.kind = HeldKind(topic, short)
      /\ entry.time \in Int /\ entry.received \in Int
      BY <1>1, <1>2, <1>3, QueueTyped DEF Came, Every
<1>6. /\ Start <= entry.received /\ entry.received <= clock
      /\ entry.time <= entry.received /\ entry.received <= entry.time + MaxLag
      BY <1>1, <1>2, <1>3 DEF Came
<1>7. early \in BOOLEAN
      OBVIOUS
<1> HIDE DEF early
<1>8. /\ GoodMessage(message) /\ OfStream(message, topic, short)
      /\ message # None /\ message.time = entry.time /\ message.early = early
      /\ message.short = shortSeen
      /\ NearestOf(log, entry.time, Tolerance[topic], message.partner)
      BY <1>1, <1>4, <1>5, <1>6, <1>7, MessageIs
<1> QED
    BY <1>3, <1>5, <1>6, <1>8 DEF early

LEMMA PublishStable ==
  ASSUME clock \in Int, shortSeen \in BOOLEAN, NEW short, NEW state, Stable(state, short),
         NEW topic \in Topics, NEW force, NEW n, NEW next, Publishes(state, next, topic, force, n)
  PROVE  Stable(next, short) /\ Speaks(state, next, short)
<1> DEFINE queue == state.held[topic]
           log == state.partners[topic]
<1>1. /\ n \in 0 .. Len(queue) /\ Shaped(next) /\ next.partners = state.partners
      /\ next.held[topic] = SubSeq(queue, n + 1, Len(queue))
      BY DEF Publishes
<1>2. Came(queue) /\ Len(queue) <= MaxHeld /\ Every(queue, HeldKind(topic, short))
      /\ Came(log) /\ Every(log, PartnerKind(topic, short))
      BY DEF Stable, GoodHeld, GoodLog
<1>3. Len(queue) \in Nat /\ DOMAIN queue = 1 .. Len(queue) /\ MaxHeld \in Nat
      BY <1>2, QueueTyped, PairingAssumption DEF Came
<1>4. GoodHeld(next.held[topic], topic, short)
  <2> DEFINE rest == next.held[topic]
  <2>1. Came(rest) /\ Ends(rest, queue, n)
        BY <1>1, <1>2, RestCame
  <2>2. Every(rest, HeldKind(topic, short))
        BY <1>1, <1>2, <2>1, EndsEvery
  <2>3. Len(rest) <= MaxHeld
    <3> DEFINE size == Len(queue)
               left == Len(rest)
    <3>1. left = size - n /\ n \in 0 .. size /\ size \in Nat /\ size <= MaxHeld
          BY <1>1, <1>2, <1>3, <2>1 DEF Ends
    <3> HIDE DEF size, left
    <3>2. left <= MaxHeld
          BY <1>3, <3>1
    <3> QED
        BY <3>2 DEF left
  <2>4. queue = <<>> => rest = <<>>
    <3> SUFFICES ASSUME queue = <<>> PROVE rest = <<>>
        OBVIOUS
    <3>1. Len(queue) = 0
          BY EmptySeq
    <3>2. n = 0 /\ Len(rest) = 0
          BY <1>1, <2>1, <3>1 DEF Ends
    <3> QED
        BY <2>1, <3>2, EmptySeq DEF Came
  <2>5. ~seen[topic] => queue = <<>>
        BY DEF Stable, GoodHeld
  <2> QED
      BY <2>1, <2>2, <2>3, <2>4, <2>5 DEF GoodHeld
<1>5. n # 0 => GoodMessage(next.sent[topic]) /\ OfStream(next.sent[topic], topic, short)
      BY PublishedIs
<1>6. n = 0 => next.sent[topic] = state.sent[topic]
      BY DEF Publishes
<1>7. \A other \in Topics \ {topic} :
        next.held[other] = state.held[other] /\ next.sent[other] = state.sent[other]
      BY DEF Publishes
<1>8. ASSUME NEW other \in Topics
      PROVE  /\ GoodHeld(next.held[other], other, short)
             /\ GoodLog(next.partners[other], other, short)
             /\ GoodMessage(next.sent[other])
             /\ next.sent[other] = state.sent[other] \/ OfStream(next.sent[other], other, short)
  <2>1. /\ GoodHeld(state.held[other], other, short) /\ GoodLog(state.partners[other], other, short)
        /\ GoodMessage(state.sent[other])
        BY DEF Stable
  <2>2. CASE other = topic
        BY <1>1, <1>4, <1>5, <1>6, <2>1, <2>2
  <2>3. CASE other # topic
        BY <1>1, <1>7, <2>1, <2>3
  <2> QED
      BY <2>2, <2>3
<1> QED
    BY <1>1, <1>8 DEF Stable, Speaks

-----------------------------------------------------------------------------
(* The partners.  A history long enough for the delays of its logs always  *)
(* ends at least as late as the latest log that was dropped from it.       *)

(* It reaches this time, or that is longer ago than a history goes back. *)
Covers(log, time) == (\E i \in DOMAIN log : log[i].time >= time) \/ time < clock - MaxAge

(* Nothing in it is older than a history goes back. *)
Current(log) == \A i \in DOMAIN log : clock - log[i].received <= MaxAge

(* A history goes back further than a log is late, and is long enough for  *)
(* the logs of so late a stream; a deadline and a history are short for    *)
(* the wrap of the timestamps.                                             *)
LongHistories ==
  /\ MaxLag < MaxHistory /\ MaxLag <= MaxAge
  /\ 2 * (MaxAge + MaxLag) < Wrap /\ 2 * (Wait + MaxLag) < Wrap

(* How near a later partner would have to be to be nearer. *)
Radius(topic, message) ==
  IF message.partner = None THEN Tolerance[topic] + 1
  ELSE Distance(message.partner.time, message.time)

(* What was published early is covered by the stream of its partners. *)
Best(state, topic) ==
  LET message == state.sent[topic]
  IN  message # None /\ message.early /\ SameStream(topic, message) =>
        Covers(state.partners[topic], message.time + Radius(topic, message))

(* Headings go out in time order, and up to the latest that was taken. *)
Rising(state, last) ==
  LET queue == state.held["heading"]
      message == state.sent["heading"]
  IN  /\ \A i, j \in DOMAIN queue : i < j => queue[i].time < queue[j].time
      /\ \A i \in DOMAIN queue : last # None /\ queue[i].time <= last
      /\ message # None =>
           /\ last # None /\ message.time <= last
           /\ \A i \in DOMAIN queue : message.time < queue[i].time

Onward(state, next) ==
  LET before == state.sent["heading"]
      after == next.sent["heading"]
  IN  before # None => after # None /\ (after = before \/ after.time > before.time)

(* The samples of a topic all have time left. *)
Prompt(state, topic) ==
  \A i \in DOMAIN state.held[topic] : clock - state.held[topic][i].received < Wait

Good(state, short) ==
  Stable(state, short) /\ \A topic \in Topics : Current(state.partners[topic])

(* What a call does to a state, where headings were taken up to `last' and *)
(* then up to `new'.                                                       *)
Carries(state, next, short, last, new) ==
  /\ Good(next, short) /\ Speaks(state, next, short)
  /\ Rising(state, last) => Rising(next, new) /\ Onward(state, next)
  /\ LongHistories => \A topic \in Topics : Best(state, topic) => Best(next, topic)

LEMMA SentTime ==
  ASSUME NEW state, NEW short, Stable(state, short), NEW topic \in Topics, state.sent[topic] # None
  PROVE  state.sent[topic] \in Messages /\ state.sent[topic].time \in Int
BY DEF Stable, GoodMessage, Messages

LEMMA CarriesOn ==
  ASSUME NEW short, NEW first, Stable(first, short), NEW second, NEW third, NEW l1, NEW l2, NEW l3,
         Carries(first, second, short, l1, l2), Carries(second, third, short, l2, l3)
  PROVE  Carries(first, third, short, l1, l3)
<1>1. Good(third, short) /\ Stable(second, short) /\ Stable(third, short)
      BY DEF Carries, Good
<1>2. Speaks(first, third, short)
      BY DEF Carries, Speaks
<1>3. Rising(first, l1) => Rising(third, l3)
      BY DEF Carries
<1>4. Rising(first, l1) => Onward(first, third)
  <2> SUFFICES ASSUME Rising(first, l1), first.sent["heading"] # None
               PROVE  /\ third.sent["heading"] # None
                      /\ \/ third.sent["heading"] = first.sent["heading"]
                         \/ third.sent["heading"].time > first.sent["heading"].time
      BY DEF Onward
  <2> DEFINE a == first.sent["heading"]
             b == second.sent["heading"]
             c == third.sent["heading"]
  <2>1. b # None /\ (b = a \/ b.time > a.time) /\ c # None /\ (c = b \/ c.time > b.time)
        BY DEF Carries, Onward
  <2>2. a.time \in Int /\ b.time \in Int /\ c.time \in Int
        BY <1>1, <2>1, SentTime DEF Topics
  <2> HIDE DEF a, b, c
  <2>3. c # None /\ (c = a \/ c.time > a.time)
        BY <2>1, <2>2
  <2> QED
      BY <2>3 DEF a, c
<1>5. LongHistories => \A topic \in Topics : Best(first, topic) => Best(third, topic)
      BY DEF Carries
<1> QED
    BY <1>1, <1>2, <1>3, <1>4, <1>5 DEF Carries

(* A call that publishes: headings. *)
LEMMA PublishRising ==
  ASSUME clock \in Int, shortSeen \in BOOLEAN, NEW short, NEW state, Stable(state, short),
         NEW topic \in Topics, NEW force, NEW n, NEW next, Publishes(state, next, topic, force, n),
         NEW last \in Int \cup {None}, Rising(state, last)
  PROVE  Rising(next, last) /\ Onward(state, next)
<1>1. CASE topic # "heading"
  <2>1. /\ next.held["heading"] = state.held["heading"]
        /\ next.sent["heading"] = state.sent["heading"]
        BY <1>1 DEF Publishes, Topics
  <2> QED
      BY <2>1 DEF Rising, Onward
<1>2. CASE topic = "heading"
  <2> DEFINE queue == state.held["heading"]
             rest == next.held["heading"]
             before == state.sent["heading"]
             after == next.sent["heading"]
  <2>1. /\ n \in 0 .. Len(queue) /\ rest = SubSeq(queue, n + 1, Len(queue)) /\ Came(queue)
        BY <1>2 DEF Publishes, Stable, GoodHeld
  <2>2. Ends(rest, queue, n)
        BY <2>1, RestCame
  <2>3. /\ Len(queue) \in Nat /\ DOMAIN queue = 1 .. Len(queue)
        /\ \A i \in 1 .. Len(queue) : queue[i].time \in Int
        BY <2>1, QueueTyped DEF Came
  <2>4. /\ \A i, j \in 1 .. Len(queue) : i < j => queue[i].time < queue[j].time
        /\ \A i \in 1 .. Len(queue) : last # None /\ queue[i].time <= last
        /\ before # None => last # None /\ before.time <= last
        /\ before # None => \A i \in 1 .. Len(queue) : before.time < queue[i].time
        BY <2>3 DEF Rising
  <2>5. /\ DOMAIN rest = 1 .. Len(queue) - n
        /\ \A i \in 1 .. Len(queue) - n : rest[i] = queue[n + i] /\ n + i \in 1 .. Len(queue)
    <3>1. \A i \in 1 .. Len(queue) - n : n + i \in 1 .. Len(queue)
          BY <2>1, <2>3
    <3> QED
        BY <2>2, <3>1 DEF Ends
  <2>6. n = 0 => after = before
        BY <1>2 DEF Publishes
  <2>7. n # 0 => n \in 1 .. Len(queue) /\ after.time = queue[n].time /\ after # None
        BY <1>2, PublishedIs
  <2> HIDE DEF queue, rest, before, after
  <2>9. ASSUME NEW i \in DOMAIN rest, NEW j \in DOMAIN rest, i < j PROVE rest[i].time < rest[j].time
    <3>1. n + i \in 1 .. Len(queue) /\ n + j \in 1 .. Len(queue) /\ n + i < n + j
          BY <2>1, <2>3, <2>5, <2>9
    <3> QED
        BY <2>4, <2>5, <2>9, <3>1
  <2>10. \A i \in DOMAIN rest : last # None /\ rest[i].time <= last
         BY <2>4, <2>5
  <2>11. n # 0 => \A i \in DOMAIN rest : after.time < rest[i].time
    <3> SUFFICES ASSUME n # 0, NEW i \in DOMAIN rest PROVE after.time < rest[i].time
        OBVIOUS
    <3>1. n \in 1 .. Len(queue) /\ n + i \in 1 .. Len(queue) /\ n < n + i
          BY <2>1, <2>3, <2>5, <2>7
    <3> QED
        BY <2>4, <2>5, <2>7, <3>1
  <2>12. n # 0 => last # None /\ after.time <= last
         BY <2>4, <2>7
  <2>13. n = 0 => \A i \in DOMAIN rest : before # None => before.time < rest[i].time
         BY <2>4, <2>5
  <2>14. Rising(next, last)
         BY <2>4, <2>6, <2>9, <2>10, <2>11, <2>12, <2>13 DEF Rising, rest, after
  <2>15. before # None => after # None /\ (after = before \/ after.time > before.time)
    <3>1. before # None => before.time \in Int
          BY SentTime DEF before, Topics
    <3> QED
        BY <2>3, <2>4, <2>6, <2>7, <3>1
  <2> QED
      BY <2>14, <2>15 DEF Onward, before, after
<1> QED
    BY <1>1, <1>2

(* A call that publishes: the partners.  What is published early has been  *)
(* reached by a partner, and that one is at least as far as the nearest.   *)
LEMMA PublishBest ==
  ASSUME clock \in Int, shortSeen \in BOOLEAN, LongHistories,
         NEW short, NEW state, Good(state, short),
         NEW topic \in Topics, NEW force, NEW n, NEW next, Publishes(state, next, topic, force, n),
         NEW other \in Topics, Best(state, other)
  PROVE  Best(next, other)
<1>0. /\ MaxLag \in Nat /\ MaxAge \in Nat /\ Wait \in Nat /\ Wrap \in Nat /\ Wrap > 0
      /\ Tolerance[topic] \in Nat /\ Stable(state, short)
      BY PairingAssumption, WrapAssumption DEF Good
<1>1. next.partners = state.partners
      BY DEF Publishes
<1>2. CASE next.sent[other] = state.sent[other]
      BY <1>1, <1>2 DEF Best
<1>3. CASE other = topic /\ n # 0
  <2> DEFINE entry == state.held[topic][n]
             message == next.sent[topic]
             log == state.partners[topic]
             time == entry.time
             near == Radius(topic, message)
  <2>1. /\ n \in 1 .. Len(state.held[topic]) /\ entry.time \in Int /\ entry.received \in Int
        /\ entry.received <= entry.time + MaxLag /\ entry.received <= clock
        /\ entry.time <= entry.received
        /\ message.time = entry.time
        /\ message.early = (~Expired(entry) /\ ~(force /\ n = 1))
        /\ NearestOf(log, entry.time, Tolerance[topic], message.partner)
    <3>1. entry = state.held[topic][n] /\ message = next.sent[topic] /\ n # 0
          BY <1>3
    <3>2. /\ clock \in Int /\ shortSeen \in BOOLEAN /\ Stable(state, short)
          /\ Publishes(state, next, topic, force, n)
          BY <1>0
    <3> HIDE DEF entry, message, log
    <3> QED
        BY ONLY <3>1, <3>2, PublishedIs, SMTT(30) DEF log
  <2>2. SUFFICES ASSUME message.early PROVE Covers(log, time + near)
        BY <1>1, <1>3, <2>1 DEF Best
  <2>3. n \in ReadyOnes(state, topic, force)
        BY <2>1 DEF Publishes
  <2>4. Settled(log, topic, entry) /\ clock - entry.received < Wait
    <3>1. ~Expired(entry) /\ Settled(log, topic, entry)
          BY <2>1, <2>2, <2>3 DEF ReadyOnes
    <3>2. ~(clock - entry.received >= Wait)
          BY <3>1 DEF Expired
    <3> HIDE DEF entry
    <3> QED
        BY <1>0, <2>1, <3>1, <3>2
  <2>5. Came(log) /\ Current(log)
        BY DEF Good, Stable, GoodLog
  <2>6. PICK i \in DOMAIN log : SignedDelta(log[i].time, time) >= 0
        BY <2>4 DEF Settled, Reached
  <2> DEFINE found == log[i].time
  <2>7. found \in Int /\ found <= clock /\ clock - found <= MaxAge + MaxLag
    <3>1. /\ log[i].time \in Int /\ log[i].received \in Int
          BY <2>5, QueueTyped DEF Came
    <3>2. /\ log[i].time <= log[i].received /\ log[i].received <= log[i].time + MaxLag
          /\ log[i].received <= clock /\ clock - log[i].received <= MaxAge
          BY <2>5 DEF Came, Current
    <3> QED
        BY <1>0, <3>1, <3>2
  <2>8. time \in Int /\ time <= clock /\ 2 * (clock - time) < Wrap /\ 2 * (clock - found) < Wrap
    <3> DEFINE came == entry.received
    <3>1. 2 * (Wait + MaxLag) < Wrap /\ 2 * (MaxAge + MaxLag) < Wrap
          BY DEF LongHistories
    <3>2. /\ time \in Int /\ came \in Int /\ came <= time + MaxLag /\ time <= came /\ came <= clock
          /\ clock - came < Wait
          BY <2>1, <2>4
    <3> HIDE DEF time, came, found
    <3>3. time <= clock /\ 2 * (clock - time) < Wrap
          BY <1>0, <3>1, <3>2
    <3>4. 2 * (clock - found) < Wrap
          BY <1>0, <2>7, <3>1
    <3> QED
        BY <3>2, <3>3, <3>4
  <2>9. SignedDelta(found, time) = found - time
    <3> HIDE DEF found, time
    <3>1. 2 * (found - time) < Wrap /\ 2 * (time - found) < Wrap
          BY <1>0, <2>7, <2>8
    <3> QED
        BY <2>7, <2>8, <3>1, DeltaIs
  <2>10. Away(log, time, i) = found - time
    <3>1. found - time >= 0
          BY <2>6, <2>9
    <3> HIDE DEF time
    <3> QED
        BY <2>7, <2>8, <2>9, <3>1 DEF Away, Distance
  <2>11. near \in Int /\ near <= found - time
    <3>1. CASE message.partner = None /\ \A j \in DOMAIN log : Away(log, time, j) > Tolerance[topic]
      <4>1. near = Tolerance[topic] + 1 /\ found - time > Tolerance[topic]
            BY <2>10, <3>1 DEF Radius
      <4> HIDE DEF near, found, time
      <4> QED
          BY <1>0, <2>7, <2>8, <4>1
    <3>2. ASSUME NEW k \in DOMAIN log, message.partner = log[k],
                 \A j \in DOMAIN log : Away(log, time, k) <= Away(log, time, j)
          PROVE  near \in Int /\ near <= found - time
      <4>1. log[k] \in Entries /\ log[k].time \in Int
            BY <2>5, QueueTyped DEF Came
      <4>2. message.partner # None
            BY <3>2, <4>1, PairingAssumption
      <4>3. near = Away(log, time, k)
            BY <3>2, <4>2, <2>1 DEF Radius, Away
      <4>4. Away(log, time, k) \in Nat
            BY <2>8, <4>1, DistanceType DEF Away
      <4> QED
          BY <2>10, <3>2, <4>3, <4>4
    <3> QED
        BY <2>1, <3>1, <3>2 DEF NearestOf
  <2>12. found >= time + near
    <3> HIDE DEF near, found, time
    <3> QED
        BY <2>7, <2>8, <2>11
  <2> QED
      BY <2>12 DEF Covers
<1>4. next.sent[other] = state.sent[other] \/ (other = topic /\ n # 0)
      BY DEF Publishes
<1> QED
    BY <1>2, <1>3, <1>4

(* A call that publishes: the deadlines.  Unless it is forced, what it     *)
(* leaves is behind a sample that still has time.                          *)
LEMMA PublishPrompt ==
  ASSUME clock \in Int, NEW short, NEW state, Stable(state, short),
         NEW topic \in Topics, NEW force, NEW n, NEW next, Publishes(state, next, topic, force, n)
  PROVE  /\ ~force => Prompt(next, topic)
         /\ \A other \in Topics : Prompt(state, other) => Prompt(next, other)
<1> DEFINE queue == state.held[topic]
           rest == next.held[topic]
           size == Len(queue)
<1>1. /\ n \in 0 .. size /\ rest = SubSeq(queue, n + 1, size) /\ Came(queue)
      BY DEF Publishes, Stable, GoodHeld
<1>2. /\ size \in Nat /\ DOMAIN queue = 1 .. size /\ Wait \in Nat
      /\ \A i \in 1 .. size : queue[i].received \in Int
      BY <1>1, QueueTyped, PairingAssumption DEF Came
<1>3. Ends(rest, queue, n)
      BY <1>1, RestCame
<1>4. /\ DOMAIN rest = 1 .. size - n
      /\ \A i \in 1 .. size - n : rest[i] = queue[n + i]
      BY <1>3 DEF Ends
<1>5. \A i \in 1 .. size - n : n + i \in 1 .. size
      BY <1>1, <1>2
<1>6. n < size => n + 1 \notin ReadyOnes(state, topic, force)
      BY DEF Publishes
<1>7. \A i, j \in 1 .. size : i < j => queue[i].received <= queue[j].received
      BY <1>1, <1>2 DEF Came
<1>8. ASSUME NEW i \in 1 .. size - n, ~force PROVE clock - queue[n + i].received < Wait
  <2> HIDE DEF size, queue
  <2>1. n < size /\ n + 1 \in 1 .. size /\ n + i \in 1 .. size /\ (i = 1 \/ n + 1 < n + i)
        BY <1>1, <1>2, <1>8
  <2>2. ~(clock - queue[n + 1].received >= Wait)
    <3>1. ~Expired(queue[n + 1])
          BY <1>2, <1>6, <2>1 DEF ReadyOnes, queue
    <3> QED
        BY <3>1 DEF Expired
  <2>3. i = 1 \/ queue[n + 1].received <= queue[n + i].received
        BY <1>7, <2>1
  <2>4. queue[n + 1].received \in Int /\ queue[n + i].received \in Int
        BY <1>2, <2>1
  <2> QED
      BY <1>2, <2>2, <2>3, <2>4
<1>9. ~force => Prompt(next, topic)
      BY <1>4, <1>8 DEF Prompt
<1>10. Prompt(state, topic) => Prompt(next, topic)
       BY <1>2, <1>4, <1>5 DEF Prompt
<1>11. \A other \in Topics \ {topic} : next.held[other] = state.held[other]
       BY DEF Publishes
<1>12. ASSUME NEW other \in Topics, Prompt(state, other) PROVE Prompt(next, other)
       BY <1>10, <1>11, <1>12 DEF Prompt
<1> QED
    BY <1>9, <1>12

LEMMA TryPublishCarries ==
  ASSUME clock \in Int, shortSeen \in BOOLEAN, NEW short, NEW state, Good(state, short),
         NEW topic \in Topics, NEW force, NEW last \in Int \cup {None},
         NEW next, next = TryPublish(state, topic, force)
  PROVE  /\ Carries(state, next, short, last, last)
         /\ ~force => Prompt(next, topic)
         /\ \A other \in Topics : Prompt(state, other) => Prompt(next, other)
         /\ \A other \in Topics \ {topic} : next.held[other] = state.held[other]
         /\ Len(next.held[topic]) <= Len(state.held[topic])
         /\ force /\ Len(state.held[topic]) > 0 => Len(next.held[topic]) < Len(state.held[topic])
<1>1. Stable(state, short) /\ Shaped(state) /\ Came(state.held[topic])
      BY DEF Good, Stable, GoodHeld
<1>2. PICK n : Publishes(state, next, topic, force, n)
      BY <1>1, TryPublishIs
<1>3. Stable(next, short) /\ Speaks(state, next, short)
      BY <1>1, <1>2, PublishStable
<1>4. Rising(state, last) => Rising(next, last) /\ Onward(state, next)
      BY <1>1, <1>2, PublishRising
<1>5. LongHistories => \A other \in Topics : Best(state, other) => Best(next, other)
      BY <1>2, PublishBest
<1>6. Good(next, short)
      BY <1>2, <1>3 DEF Good, Publishes
<1>7. /\ ~force => Prompt(next, topic)
      /\ \A other \in Topics : Prompt(state, other) => Prompt(next, other)
      BY <1>1, <1>2, PublishPrompt
<1>8. \A other \in Topics \ {topic} : next.held[other] = state.held[other]
      BY <1>2 DEF Publishes
<1> DEFINE size == Len(state.held[topic])
           left == Len(next.held[topic])
<1>9. size \in Nat /\ DOMAIN state.held[topic] = 1 .. size /\ n \in 0 .. size /\ left = size - n
  <2>1. size \in Nat /\ DOMAIN state.held[topic] = 1 .. size
        BY <1>1, QueueTyped DEF Came
  <2>2. n \in 0 .. size /\ next.held[topic] = SubSeq(state.held[topic], n + 1, size)
        BY <1>2 DEF Publishes
  <2>3. Ends(next.held[topic], state.held[topic], n)
        BY <1>1, <2>2, RestCame
  <2> QED
      BY <2>1, <2>2, <2>3 DEF Ends
<1>10. force /\ size > 0 => n > 0
  <2> SUFFICES ASSUME force, size > 0, n = 0 PROVE FALSE
      BY <1>9
  <2>1. 0 + 1 \notin ReadyOnes(state, topic, force)
        BY <1>2 DEF Publishes
  <2>2. 1 \in DOMAIN state.held[topic]
        BY <1>9
  <2> QED
      BY <2>1, <2>2 DEF ReadyOnes
<1>11. left <= size /\ (force /\ size > 0 => left < size)
  <2> HIDE DEF size, left
  <2> QED
      BY <1>9, <1>10
<1> QED
    BY <1>3, <1>4, <1>5, <1>6, <1>7, <1>8, <1>11 DEF Carries

-----------------------------------------------------------------------------
(* The histories of the partners.                                          *)

LogOf(log, kind) == Came(log) /\ Distinct(log) /\ Every(log, kind) /\ Len(log) <= MaxHistory

(* prune_raw_imu_history and its like: what is old is forgotten. *)
LEMMA FreshIs ==
  ASSUME clock \in Int, NEW kind, NEW log, LogOf(log, kind), NEW rest, rest = Fresh(log)
  PROVE  /\ LogOf(rest, kind) /\ Current(rest) /\ ToSet(rest) \subseteq ToSet(log)
         /\ \A time \in Int : Covers(log, time) => Covers(rest, time)
<1> DEFINE old == {i \in DOMAIN log : clock - log[i].received > MaxAge}
           n == Leading(old, Len(log))
           size == Len(log)
<1>1. /\ size \in Nat /\ DOMAIN log = 1 .. size /\ MaxAge \in Nat
      /\ \A i \in 1 .. size : log[i].time \in Int /\ log[i].received \in Int
      /\ Came(log) /\ Distinct(log) /\ Every(log, kind) /\ size <= MaxHistory /\ MaxHistory \in Nat
      BY QueueTyped, PairingAssumption DEF LogOf, Came
<1>2. n \in 0 .. size /\ 1 .. n \subseteq old /\ (n < size => n + 1 \notin old)
      BY <1>1, LeadingIs
<1>3. rest = SubSeq(log, n + 1, Len(log))
      BY DEF Fresh, DropFront
<1> HIDE DEF n
<1>4. Came(rest) /\ Ends(rest, log, n)
      BY <1>1, <1>2, <1>3, RestCame
<1>5. Distinct(rest) /\ Every(rest, kind)
      BY <1>1, <1>2, <1>4, EndsDistinct, EndsEvery
<1>6. /\ DOMAIN rest = 1 .. size - n /\ Len(rest) = size - n
      /\ \A i \in 1 .. size - n : rest[i] = log[n + i]
      BY <1>4 DEF Ends
<1> HIDE DEF size
<1>7. \A i \in 1 .. size - n : n + i \in 1 .. size
      BY <1>1, <1>2
<1>8. size - n <= MaxHistory
      BY <1>1, <1>2
<1>9. Current(rest)
  <2>1. ASSUME NEW i \in 1 .. size - n PROVE clock - log[n + i].received <= MaxAge
    <3>1. n < size /\ n + 1 \in 1 .. size /\ n + i \in 1 .. size /\ (i = 1 \/ n + 1 < n + i)
          BY <1>1, <1>2
    <3>2. ~(clock - log[n + 1].received > MaxAge)
          BY <1>1, <1>2, <3>1
    <3>3. i = 1 \/ log[n + 1].received <= log[n + i].received
          BY <1>1, <3>1 DEF Came
    <3>4. log[n + 1].received \in Int /\ log[n + i].received \in Int
          BY <1>1, <3>1
    <3> QED
        BY <1>1, <3>2, <3>3, <3>4
  <2> QED
      BY <1>6, <2>1 DEF Current
<1>10. ASSUME NEW time \in Int, Covers(log, time) PROVE Covers(rest, time)
  <2>1. CASE time < clock - MaxAge
        BY <2>1 DEF Covers
  <2>2. CASE \E i \in DOMAIN log : log[i].time >= time
    <3>1. PICK i \in 1 .. size : log[i].time >= time
          BY <1>1, <2>2
    <3>2. CASE i \in 1 .. n
      <4>1. clock - log[i].received > MaxAge
            BY <1>2, <3>2
      <4>2. log[i].time <= log[i].received /\ log[i].time \in Int /\ log[i].received \in Int
            BY <1>1, <3>1 DEF Came
      <4>3. time < clock - MaxAge
            BY <1>1, <3>1, <4>1, <4>2
      <4> QED
          BY <4>3 DEF Covers
    <3>3. CASE i \notin 1 .. n
      <4>1. i - n \in 1 .. size - n /\ n + (i - n) = i
            BY <1>1, <1>2, <3>1, <3>3
      <4>2. rest[i - n] = log[i]
            BY <1>6, <4>1
      <4> QED
          BY <1>6, <3>1, <4>1, <4>2 DEF Covers
    <3> QED
        BY <3>2, <3>3
  <2> QED
      BY <1>10, <2>1, <2>2 DEF Covers
<1>11. ToSet(rest) \subseteq ToSet(log)
       BY <1>1, <1>6, <1>7 DEF ToSet
<1> QED
    BY <1>4, <1>5, <1>6, <1>8, <1>9, <1>10, <1>11 DEF LogOf

(* A history with one log more, before any is dropped for it. *)
LEMMA AppendIs ==
  ASSUME clock \in Int, Start <= clock, NEW kind \in Kinds, NEW log, LogOf(log, kind), Current(log),
         NEW lag \in 0 .. MaxLag, \A i \in DOMAIN log : log[i].time # clock - lag,
         NEW entry, entry = Entry(kind, clock - lag), NEW longer, longer = Append(log, entry)
  PROVE  /\ Came(longer) /\ Distinct(longer) /\ Every(longer, kind) /\ Extends(longer, log, entry)
         /\ Current(longer) /\ \A time \in Int : Covers(log, time) => Covers(longer, time)
<1>1. /\ Len(log) \in Nat /\ DOMAIN log = 1 .. Len(log) /\ MaxAge \in Nat
      /\ Came(log) /\ Distinct(log) /\ Every(log, kind)
      BY QueueTyped, PairingAssumption DEF LogOf, Came
<1>2. Came(longer) /\ Extends(longer, log, entry)
      BY <1>1, AppendCame
<1>3. entry.kind = kind /\ entry.time = clock - lag /\ entry.received = clock
      BY EntryIs
<1>4. Every(longer, kind)
      BY <1>1, <1>2, <1>3, AppendEvery
<1>5. \A i \in 1 .. Len(log) + 1 : i \in 1 .. Len(log) \/ i = Len(log) + 1
      BY <1>1
<1>6. \A i \in 1 .. Len(log) : i \in 1 .. Len(log) + 1
      BY <1>1
<1>7. Current(longer)
      BY <1>1, <1>2, <1>3, <1>5 DEF Current, Extends
<1>8. \A time \in Int : Covers(log, time) => Covers(longer, time)
      BY <1>1, <1>2, <1>6 DEF Covers, Extends
<1>9. ASSUME NEW i \in 1 .. Len(log) + 1, NEW j \in 1 .. Len(log) + 1, i < j
      PROVE  longer[i].time # longer[j].time
  <2>1. i \in 1 .. Len(log)
        BY <1>1, <1>9
  <2>2. CASE j \in 1 .. Len(log)
        BY <1>1, <1>2, <1>9, <2>1, <2>2 DEF Distinct, Extends
  <2>3. CASE j = Len(log) + 1
        BY <1>1, <1>2, <1>3, <2>1, <2>3 DEF Extends
  <2> QED
      BY <1>5, <2>1, <2>2, <2>3
<1>10. Distinct(longer)
       BY <1>2, <1>9 DEF Distinct, Extends
<1> QED
    BY <1>2, <1>4, <1>7, <1>8, <1>10

(* A full history drops its first log for a new one: of those that remain, *)
(* taken at different times and none more than MaxLag before it, one is    *)
(* not before it.                                                          *)
LEMMA TailIs ==
  ASSUME clock \in Int, NEW kind, NEW log, Came(log), Distinct(log), Every(log, kind), Current(log),
         Len(log) = MaxHistory + 1, NEW rest, rest = Tail(log)
  PROVE  /\ LogOf(rest, kind) /\ Current(rest) /\ Ends(rest, log, 1)
         /\ MaxLag < MaxHistory => \A time \in Int : Covers(log, time) => Covers(rest, time)
<1>1. /\ log \in Seq(Entries) /\ DOMAIN log = 1 .. MaxHistory + 1
      /\ MaxHistory \in Nat /\ MaxHistory > 0 /\ MaxLag \in Nat /\ MaxAge \in Nat
      /\ \A i \in 1 .. MaxHistory + 1 : log[i].time \in Int /\ log[i].received \in Int
      BY QueueTyped, PairingAssumption DEF Came
<1>2. rest = SubSeq(log, 1 + 1, Len(log)) /\ 1 \in 0 .. Len(log)
  <2>1. Len(log) # 0
        BY <1>1
  <2>2. log # <<>>
        BY <1>1, <2>1, EmptySeq
  <2>3. rest = SubSeq(log, 2, Len(log))
        BY <1>1, <2>2, TailIsSubSeq
  <2> QED
      BY <1>1, <2>3
<1>3. Came(rest) /\ Ends(rest, log, 1)
      BY <1>2, RestCame
<1>4. /\ DOMAIN rest = 1 .. MaxHistory /\ Len(rest) = MaxHistory
      /\ \A i \in 1 .. MaxHistory : rest[i] = log[1 + i] /\ 1 + i \in 1 .. MaxHistory + 1
      BY <1>1, <1>3 DEF Ends
<1>5. Current(rest)
      BY <1>1, <1>4 DEF Current
<1>6. Distinct(rest) /\ Every(rest, kind)
      BY <1>2, <1>3, EndsDistinct, EndsEvery
<1>7. MaxLag < MaxHistory => \E i \in 1 .. MaxHistory : rest[i].time >= log[1].time
  <2> SUFFICES ASSUME MaxLag < MaxHistory, \A i \in 1 .. MaxHistory : rest[i].time < log[1].time
               PROVE  FALSE
      BY <1>1, <1>4
  <2> DEFINE head == log[1].time
             room == head - MaxLag .. head - 1
             timing == [i \in 1 .. MaxHistory |-> rest[i].time]
  <2>1. ASSUME NEW i \in 1 .. MaxHistory PROVE rest[i].time \in room
    <3>1. rest[i] = log[1 + i] /\ 1 + i \in 1 .. MaxHistory + 1 /\ 1 \in 1 .. MaxHistory + 1 /\ 1 < 1 + i
          BY <1>1, <1>4
    <3>2. log[1].received <= log[1 + i].received /\ log[1].time <= log[1].received
          /\ log[1 + i].received <= log[1 + i].time + MaxLag
          BY <1>1, <3>1 DEF Came
    <3>3. /\ log[1].time \in Int /\ log[1].received \in Int
          /\ log[1 + i].time \in Int /\ log[1 + i].received \in Int
          BY <1>1, <3>1
    <3>4. log[1 + i].time < log[1].time
          BY <3>1
    <3> QED
        BY <1>1, <3>1, <3>2, <3>3, <3>4
  <2>2. ASSUME NEW i \in 1 .. MaxHistory, NEW j \in 1 .. MaxHistory, rest[i].time = rest[j].time
        PROVE  i = j
    <3>1. \A k, l \in 1 .. MaxHistory : k < l => rest[k].time # rest[l].time
      <4>1. \A k, l \in DOMAIN rest : k < l => rest[k].time # rest[l].time
            BY <1>6 DEF Distinct
      <4>2. DOMAIN rest = 1 .. MaxHistory
            BY <1>4
      <4> QED
          BY <4>1, <4>2, Zenon
    <3> QED
        BY <1>1, <2>2, <3>1
  <2>3. timing \in Injection(1 .. MaxHistory, room)
        BY <2>1, <2>2 DEF Injection, IsInjective
  <2>4. head \in Int
        BY <1>1
  <2> HIDE DEF head, timing
  <2>5. IsFiniteSet(room) /\ Cardinality(room) = MaxLag
    <3>1. IsFiniteSet(room) /\ Cardinality(room) = IF head - MaxLag > head - 1 THEN 0
                                                    ELSE (head - 1) - (head - MaxLag) + 1
      <4>1. head - MaxLag \in Int /\ head - 1 \in Int
            BY <1>1, <2>4
      <4> QED
          BY <4>1, FS_Interval
    <3> HIDE DEF room
    <3> QED
        BY <1>1, <2>4, <3>1
  <2>6. Cardinality(1 .. MaxHistory) = MaxHistory
        BY <1>1, FS_Interval
  <2> HIDE DEF room
  <2>7. Cardinality(1 .. MaxHistory) <= Cardinality(room)
        BY <2>3, <2>5, FS_Injection
  <2> QED
      BY <1>1, <2>5, <2>6, <2>7
<1>8. ASSUME MaxLag < MaxHistory, NEW time \in Int, Covers(log, time) PROVE Covers(rest, time)
  <2>1. CASE time < clock - MaxAge
        BY <2>1 DEF Covers
  <2>2. CASE \E i \in DOMAIN log : log[i].time >= time
    <3>1. PICK i \in 1 .. MaxHistory + 1 : log[i].time >= time
          BY <1>1, <2>2
    <3>2. CASE i = 1
      <4>1. PICK j \in 1 .. MaxHistory : rest[j].time >= log[1].time
            BY <1>7, <1>8
      <4>2. /\ log[1].time \in Int /\ rest[j].time \in Int
            BY <1>1, <1>4, <4>1
      <4>3. log[1].time >= time
            BY <3>1, <3>2
      <4>4. rest[j].time >= time
        <5> DEFINE there == rest[j].time
                   head == log[1].time
        <5>1. there >= head /\ head >= time /\ there \in Int /\ head \in Int
              BY <4>1, <4>2, <4>3
        <5> HIDE DEF there, head
        <5>2. there >= time
              BY <5>1
        <5> QED
            BY <5>2 DEF there
      <4> QED
          BY <1>4, <4>1, <4>4 DEF Covers
    <3>3. CASE i # 1
      <4>1. i - 1 \in 1 .. MaxHistory /\ 1 + (i - 1) = i
            BY <1>1, <3>1, <3>3
      <4>2. rest[i - 1] = log[i]
            BY <1>4, <4>1
      <4> QED
          BY <1>4, <3>1, <4>1, <4>2 DEF Covers
    <3> QED
        BY <3>2, <3>3
  <2> QED
      BY <1>8, <2>1, <2>2 DEF Covers
<1> QED
    BY <1>1, <1>3, <1>4, <1>5, <1>8, <1>6 DEF LogOf

-----------------------------------------------------------------------------
(* The operations on a state of the three.                                 *)

(* Where what was published is aimed is a time. *)
LEMMA RadiusType ==
  ASSUME NEW state, NEW short, Stable(state, short), NEW topic \in Topics, state.sent[topic] # None
  PROVE  /\ Radius(topic, state.sent[topic]) \in Nat
         /\ state.sent[topic].time + Radius(topic, state.sent[topic]) \in Int
<1> DEFINE message == state.sent[topic]
<1>1. message \in Messages /\ message.time \in Int
      BY SentTime
<1>2. message.partner # None => message.partner.time \in Int
      BY <1>1 DEF Messages, Entries
<1>3. Tolerance[topic] \in Nat
      BY PairingAssumption
<1> HIDE DEF message
<1>4. message.partner # None => Distance(message.partner.time, message.time) \in Nat
      BY <1>1, <1>2, DistanceType
<1>5. Radius(topic, message) \in Nat
      BY <1>3, <1>4 DEF Radius
<1>6. message.time + Radius(topic, message) \in Int
      BY <1>1, <1>5
<1> QED
    BY <1>5, <1>6 DEF message

(* Only the histories change, and cover no less than they did. *)
Relogs(state, next, short) ==
  /\ Shaped(next) /\ next.held = state.held /\ next.sent = state.sent
  /\ \A topic \in Topics :
       GoodLog(next.partners[topic], topic, short) /\ Current(next.partners[topic])
  /\ LongHistories =>
       \A topic \in Topics : \A time \in Int :
         Covers(state.partners[topic], time) => Covers(next.partners[topic], time)

LEMMA RelogsCarries ==
  ASSUME NEW state, NEW next, NEW short, Stable(state, short), Relogs(state, next, short), NEW last
  PROVE  /\ Carries(state, next, short, last, last)
         /\ \A topic \in Topics : Prompt(state, topic) => Prompt(next, topic)
<1>1. Good(next, short)
      BY DEF Good, Stable, Relogs
<1>2. Speaks(state, next, short)
      BY DEF Speaks, Relogs
<1>3. Rising(state, last) => Rising(next, last) /\ Onward(state, next)
      BY DEF Rising, Onward, Relogs
<1>4. ASSUME LongHistories, NEW topic \in Topics, Best(state, topic) PROVE Best(next, topic)
  <2> DEFINE message == state.sent[topic]
             time == message.time + Radius(topic, message)
  <2>1. next.sent[topic] = message
        BY DEF Relogs
  <2>2. SUFFICES ASSUME message # None, message.early, SameStream(topic, message)
                 PROVE  Covers(next.partners[topic], time)
        BY <2>1 DEF Best
  <2>3. Covers(state.partners[topic], time)
        BY <1>4, <2>2 DEF Best
  <2>4. time \in Int
        BY <2>2, RadiusType
  <2> HIDE DEF time
  <2> QED
      BY <1>4, <2>3, <2>4 DEF Relogs
<1>5. \A topic \in Topics : Prompt(state, topic) => Prompt(next, topic)
      BY DEF Prompt, Relogs
<1> QED
    BY <1>1, <1>2, <1>3, <1>4, <1>5 DEF Carries

(* A call that is not forced. *)
Publish(state, topic) == TryPublish(state, topic, FALSE)

(* It publishes what is ready; the other queue and every history stay. *)
LEMMA TryPublishLeaves ==
  ASSUME clock \in Int, shortSeen \in BOOLEAN, NEW short, NEW state, Good(state, short),
         NEW topic \in Topics, NEW last \in Int \cup {None},
         NEW next, next = Publish(state, topic)
  PROVE  /\ Carries(state, next, short, last, last) /\ Prompt(next, topic)
         /\ \A other \in Topics : Prompt(state, other) => Prompt(next, other)
         /\ next.partners = state.partners
<1>1. \E n : Publishes(state, next, topic, FALSE, n)
      BY TryPublishIs DEF Publish, Good, Stable, GoodHeld
<1>2. next.partners = state.partners
      BY <1>1 DEF Publishes
<1>3. ASSUME NEW force, force = FALSE
      PROVE  /\ Carries(state, next, short, last, last) /\ Prompt(next, topic)
             /\ \A other \in Topics : Prompt(state, other) => Prompt(next, other)
  <2>1. next = TryPublish(state, topic, force)
        BY <1>3 DEF Publish
  <2> QED
      BY <1>3, <2>1, TryPublishCarries
<1> QED
    BY <1>2, <1>3

(* flush_pending forgets what is old, *)
LEMMA FreshRelogs ==
  ASSUME clock \in Int, NEW state, NEW short, Stable(state, short),
         NEW fresh, fresh = [state EXCEPT !.partners = [topic \in Topics |-> Fresh(@[topic])]]
  PROVE  /\ Relogs(state, fresh, short)
         /\ \A topic \in Topics : ToSet(fresh.partners[topic]) \subseteq ToSet(state.partners[topic])
<1>1. /\ DOMAIN fresh = Fields /\ fresh.held = state.held /\ fresh.sent = state.sent
      /\ fresh.partners = [topic \in Topics |-> Fresh(state.partners[topic])]
      BY DEF Stable, Shaped, Fields
<1>2. Shaped(fresh)
      BY <1>1 DEF Stable, Shaped
<1>3. ASSUME NEW topic \in Topics
      PROVE  /\ GoodLog(fresh.partners[topic], topic, short) /\ Current(fresh.partners[topic])
             /\ ToSet(fresh.partners[topic]) \subseteq ToSet(state.partners[topic])
             /\ \A time \in Int : Covers(state.partners[topic], time) => Covers(fresh.partners[topic], time)
  <2> DEFINE log == state.partners[topic]
             rest == fresh.partners[topic]
             kind == PartnerKind(topic, short)
  <2>1. LogOf(log, kind) /\ rest = Fresh(log)
        BY <1>1 DEF Stable, GoodLog, LogOf
  <2>2. /\ LogOf(rest, kind) /\ Current(rest) /\ ToSet(rest) \subseteq ToSet(log)
        /\ \A time \in Int : Covers(log, time) => Covers(rest, time)
    <3> HIDE DEF log, rest, kind
    <3> QED
        BY <2>1, FreshIs
  <2> QED
      BY <2>2 DEF GoodLog, LogOf
<1> QED
    BY <1>1, <1>2, <1>3 DEF Relogs

(* and publishes what has waited long enough. *)
LEMMA FlushedIs ==
  ASSUME clock \in Int, shortSeen \in BOOLEAN, Stable(State, shortSeen), NEW last \in Int \cup {None},
         NEW next, next = Flushed
  PROVE  /\ Carries(State, next, shortSeen, last, last)
         /\ \A topic \in Topics : Prompt(next, topic)
         /\ \A topic \in Topics : ToSet(next.partners[topic]) \subseteq ToSet(partners[topic])
<1> DEFINE fresh == [State EXCEPT !.partners = [topic \in Topics |-> Fresh(@[topic])]]
           headings == Publish(fresh, "heading")
<1>1. next = Publish(headings, "imu")
      BY DEF Flushed, Publish
<1> HIDE DEF headings
<1>2. /\ Relogs(State, fresh, shortSeen)
      /\ \A topic \in Topics : ToSet(fresh.partners[topic]) \subseteq ToSet(State.partners[topic])
      BY FreshRelogs
<1> HIDE DEF fresh
<1>3. Carries(State, fresh, shortSeen, last, last)
      BY <1>2, RelogsCarries
<1>5. /\ Carries(fresh, headings, shortSeen, last, last) /\ Prompt(headings, "heading")
      /\ headings.partners = fresh.partners
      BY <1>3, TryPublishLeaves DEF Carries, Topics, headings
<1>6. /\ Carries(headings, next, shortSeen, last, last)
      /\ Prompt(next, "imu") /\ Prompt(next, "heading") /\ next.partners = headings.partners
      BY <1>1, <1>5, TryPublishLeaves DEF Carries, Topics
<1>7. Stable(fresh, shortSeen) /\ Stable(headings, shortSeen)
      BY <1>3, <1>5 DEF Carries, Good
<1>8. Carries(State, headings, shortSeen, last, last)
      BY <1>3, <1>5, <1>7, CarriesOn
<1>9. Carries(State, next, shortSeen, last, last)
      BY <1>6, <1>7, <1>8, CarriesOn
<1>10. State.partners = partners
       BY DEF State
<1> QED
    BY <1>2, <1>5, <1>6, <1>9, <1>10 DEF Topics

(* Histories change, and a call publishes what that leaves ready. *)
LEMMA RelogsAndPublishes ==
  ASSUME clock \in Int, shortSeen \in BOOLEAN, NEW short, NEW state, Stable(state, short),
         NEW middle, Relogs(state, middle, short), NEW topic \in Topics, NEW last \in Int \cup {None},
         NEW next, next = Publish(middle, topic)
  PROVE  /\ Carries(state, next, short, last, last)
         /\ \A other \in Topics : Prompt(state, other) => Prompt(next, other)
         /\ next.partners = middle.partners
<1>1. /\ Carries(state, middle, short, last, last)
      /\ \A other \in Topics : Prompt(state, other) => Prompt(middle, other)
      BY RelogsCarries
<1>2. Good(middle, short) /\ Stable(middle, short)
      BY <1>1 DEF Carries, Good
<1>3. /\ Carries(middle, next, short, last, last)
      /\ \A other \in Topics : Prompt(middle, other) => Prompt(next, other)
      /\ next.partners = middle.partners
      BY <1>2, TryPublishLeaves
<1>4. Carries(state, next, short, last, last)
      BY <1>1, <1>2, <1>3, CarriesOn
<1> QED
    BY <1>1, <1>3, <1>4

(* A partner is remembered. *)
LEMMA RememberIs ==
  ASSUME clock \in Int, Start <= clock, shortSeen \in BOOLEAN, NEW short,
         NEW state, Good(state, short), NEW topic \in Topics, NEW lag \in 0 .. MaxLag,
         NEW entry, entry = Entry(PartnerKind(topic, short), clock - lag),
         \A i \in DOMAIN state.partners[topic] : state.partners[topic][i].time # clock - lag,
         NEW last \in Int \cup {None}, NEW next, next = Remember(state, topic, entry)
  PROVE  /\ Carries(state, next, short, last, last)
         /\ \A other \in Topics : Prompt(state, other) => Prompt(next, other)
         /\ \A other \in Topics :
              ToSet(next.partners[other]) \subseteq ToSet(state.partners[other]) \cup {entry}
<1> DEFINE log == state.partners[topic]
           kind == PartnerKind(topic, short)
           longer == Append(log, entry)
           kept == IF Len(longer) > MaxHistory THEN Tail(longer) ELSE longer
           middle == [state EXCEPT !.partners[topic] = kept]
<1>1. LogOf(log, kind) /\ Current(log) /\ kind \in Kinds /\ Stable(state, short) /\ MaxHistory \in Nat
      BY KindsAre, PairingAssumption DEF Good, Stable, GoodLog, LogOf
<1>2. /\ Came(longer) /\ Distinct(longer) /\ Every(longer, kind) /\ Extends(longer, log, entry)
      /\ Current(longer) /\ \A time \in Int : Covers(log, time) => Covers(longer, time)
  <2>1. /\ \A i \in DOMAIN log : log[i].time # clock - lag
        /\ entry = Entry(kind, clock - lag) /\ longer = Append(log, entry)
        OBVIOUS
  <2> HIDE DEF kind, log, longer
  <2> QED
      BY <1>1, <2>1, AppendIs
<1>3. /\ Len(log) \in Nat /\ DOMAIN log = 1 .. Len(log) /\ Len(log) <= MaxHistory
      /\ Len(longer) = Len(log) + 1 /\ DOMAIN longer = 1 .. Len(log) + 1
      BY <1>1, <1>2, QueueTyped DEF LogOf, Came, Extends
<1>4. ToSet(longer) \subseteq ToSet(log) \cup {entry}
  <2>1. \A i \in 1 .. Len(log) + 1 : i \in 1 .. Len(log) \/ i = Len(log) + 1
        BY <1>3
  <2> QED
      BY <1>2, <1>3, <2>1 DEF Extends, ToSet
<1> HIDE DEF longer
<1>5. /\ LogOf(kept, kind) /\ Current(kept) /\ ToSet(kept) \subseteq ToSet(log) \cup {entry}
      /\ LongHistories => \A time \in Int : Covers(log, time) => Covers(kept, time)
  <2>1. CASE Len(longer) > MaxHistory
    <3> DEFINE size == Len(log)
               rest == Tail(longer)
    <3>1. Len(longer) = MaxHistory + 1 /\ size = MaxHistory
      <4>1. size + 1 > MaxHistory /\ size <= MaxHistory /\ size \in Nat /\ Len(longer) = size + 1
            BY <1>3, <2>1
      <4> HIDE DEF size
      <4>2. size = MaxHistory
            BY <1>1, <4>1
      <4> QED
          BY <4>1, <4>2
    <3>2. /\ LogOf(rest, kind) /\ Current(rest) /\ Ends(rest, longer, 1)
          /\ MaxLag < MaxHistory => \A time \in Int : Covers(longer, time) => Covers(rest, time)
      <4> HIDE DEF kind
      <4> QED
          BY <1>2, <3>1, TailIs
    <3>3. ToSet(rest) \subseteq ToSet(longer)
      <4>1. /\ DOMAIN rest = 1 .. MaxHistory + 1 - 1
            /\ \A i \in 1 .. MaxHistory + 1 - 1 : rest[i] = longer[1 + i]
            BY <3>1, <3>2 DEF Ends
      <4>2. \A i \in 1 .. MaxHistory + 1 - 1 : 1 + i \in 1 .. MaxHistory + 1
            BY <1>1
      <4> QED
          BY <1>3, <3>1, <4>1, <4>2 DEF ToSet
    <3>4. kept = rest
          BY <2>1
    <3> HIDE DEF kept, rest
    <3> QED
        BY <1>2, <1>4, <3>2, <3>3, <3>4 DEF LongHistories
  <2>2. CASE ~(Len(longer) > MaxHistory)
    <3>1. kept = longer
          BY <2>2
    <3>2. Len(longer) <= MaxHistory
      <4> DEFINE size == Len(longer)
      <4>1. size \in Nat /\ ~(size > MaxHistory)
            BY <1>3, <2>2
      <4> HIDE DEF size
      <4>2. size <= MaxHistory
            BY <1>1, <4>1
      <4> QED
          BY <4>2 DEF size
    <3> HIDE DEF kept
    <3> QED
        BY <1>2, <1>4, <3>1, <3>2 DEF LogOf
  <2> QED
      BY <2>1, <2>2
<1> HIDE DEF kept
<1>6. /\ DOMAIN middle = Fields /\ middle.held = state.held /\ middle.sent = state.sent
      /\ middle.partners = [state.partners EXCEPT ![topic] = kept]
      BY <1>1 DEF Stable, Shaped, Fields
<1> HIDE DEF middle
<1>7. /\ Shaped(middle) /\ middle.partners[topic] = kept
      /\ \A other \in Topics \ {topic} : middle.partners[other] = state.partners[other]
      BY <1>1, <1>6 DEF Stable, Shaped
<1>8. ASSUME NEW other \in Topics
      PROVE  /\ GoodLog(middle.partners[other], other, short) /\ Current(middle.partners[other])
             /\ ToSet(middle.partners[other]) \subseteq ToSet(state.partners[other]) \cup {entry}
             /\ LongHistories =>
                  \A time \in Int : Covers(state.partners[other], time) => Covers(middle.partners[other], time)
  <2>1. CASE other = topic
    <3>1. middle.partners[other] = kept /\ GoodLog(kept, topic, short)
          BY <1>5, <1>7, <2>1 DEF GoodLog, LogOf
    <3> QED
        BY <1>5, <2>1, <3>1
  <2>2. CASE other # topic
        BY <1>7, <2>2 DEF Good, Stable
  <2> QED
      BY <2>1, <2>2
<1>9. Relogs(state, middle, short)
      BY <1>6, <1>7, <1>8 DEF Relogs
<1>10. next = Publish(middle, topic)
       BY DEF Remember, Publish, middle, kept, longer
<1>11. /\ Carries(state, next, short, last, last)
       /\ \A other \in Topics : Prompt(state, other) => Prompt(next, other)
       /\ next.partners = middle.partners
       BY <1>1, <1>9, <1>10, RelogsAndPublishes
<1> QED
    BY <1>8, <1>11

(* A call that makes room. *)
MakeRoom(state, topic) == TryPublish(state, topic, TRUE)

LEMMA MakeRoomLeaves ==
  ASSUME clock \in Int, shortSeen \in BOOLEAN, NEW short, NEW state, Good(state, short),
         NEW topic \in Topics, NEW last \in Int \cup {None}, Len(state.held[topic]) > 0,
         NEW next, next = MakeRoom(state, topic)
  PROVE  /\ Carries(state, next, short, last, last)
         /\ \A other \in Topics : Prompt(state, other) => Prompt(next, other)
         /\ next.partners = state.partners /\ Len(next.held[topic]) < Len(state.held[topic])
<1>1. \E n : Publishes(state, next, topic, TRUE, n)
      BY TryPublishIs DEF MakeRoom, Good, Stable, GoodHeld
<1>2. next.partners = state.partners
      BY <1>1 DEF Publishes
<1>3. ASSUME NEW force, force = TRUE
      PROVE  /\ Carries(state, next, short, last, last)
             /\ \A other \in Topics : Prompt(state, other) => Prompt(next, other)
             /\ Len(next.held[topic]) < Len(state.held[topic])
  <2>1. next = TryPublish(state, topic, force)
        BY <1>3 DEF MakeRoom
  <2> QED
      BY <1>3, <2>1, TryPublishCarries
<1> QED
    BY <1>2, <1>3

LEMMA CarriesSelf ==
  ASSUME NEW state, NEW short, Good(state, short), NEW last
  PROVE  Carries(state, state, short, last, last)
BY DEF Carries, Speaks, Onward

(* The headings are taken in time order. *)
Takes(topic, entry, last, new) ==
  \/ topic = "imu" /\ new = last
  \/ /\ topic = "heading" /\ new = entry.time
     /\ last # None => last < entry.time

(* A sample is put at the end of its queue. *)
Queued(state, topic, entry) == [state EXCEPT !.held[topic] = Append(@, entry)]

LEMMA QueuedCarries ==
  ASSUME clock \in Int, Start <= clock, NEW short, NEW state, Good(state, short),
         NEW topic \in Topics, seen[topic], Len(state.held[topic]) < MaxHeld, NEW lag \in 0 .. MaxLag,
         NEW entry, entry = Entry(HeldKind(topic, short), clock - lag),
         NEW last \in Int \cup {None}, NEW new, Takes(topic, entry, last, new),
         NEW next, next = Queued(state, topic, entry)
  PROVE  /\ Carries(state, next, short, last, new) /\ next.partners = state.partners
         /\ \A other \in Topics \ {topic} : next.held[other] = state.held[other]
<1> DEFINE queue == state.held[topic]
           kind == HeldKind(topic, short)
           longer == next.held[topic]
           size == Len(queue)
<1>1. /\ Stable(state, short) /\ short \in BOOLEAN /\ kind \in Kinds /\ MaxHeld \in Nat
      /\ Came(queue) /\ Every(queue, kind) /\ None \notin Int
      BY KindsAre, PairingAssumption DEF Good, Stable, GoodHeld
<1>2. /\ DOMAIN next = Fields /\ next.partners = state.partners /\ next.sent = state.sent
      /\ next.held = [state.held EXCEPT ![topic] = Append(queue, entry)]
      BY <1>1 DEF Stable, Shaped, Fields, Queued
<1>3. /\ Shaped(next) /\ longer = Append(queue, entry)
      /\ \A other \in Topics \ {topic} : next.held[other] = state.held[other]
      BY <1>1, <1>2 DEF Stable, Shaped
<1>4. /\ size \in Nat /\ DOMAIN queue = 1 .. size
      /\ \A i \in 1 .. size : queue[i].time \in Int
      BY <1>1, QueueTyped DEF Came
<1>5. /\ entry.kind = kind /\ entry.time \in Int
      /\ Came(longer) /\ Extends(longer, queue, entry)
  <2>1. entry = Entry(kind, clock - lag)
        OBVIOUS
  <2> HIDE DEF kind, queue, longer
  <2>2. entry.kind = kind /\ entry.time \in Int
        BY <1>1, <2>1, EntryIs
  <2>3. Came(longer) /\ Extends(longer, queue, entry)
        BY <1>1, <1>3, <2>1, AppendCame
  <2> QED
      BY <2>2, <2>3
<1>6. Every(longer, kind)
  <2> HIDE DEF kind, queue, longer
  <2> QED
      BY <1>1, <1>5, AppendEvery
<1>7. /\ Len(longer) = size + 1 /\ DOMAIN longer = 1 .. size + 1 /\ longer[size + 1] = entry
      /\ \A i \in 1 .. size : longer[i] = queue[i]
      BY <1>5 DEF Extends
<1>8. GoodHeld(longer, topic, short)
  <2>1. Len(longer) <= MaxHeld
    <3> HIDE DEF size
    <3>1. size < MaxHeld
          BY DEF size
    <3> QED
        BY <1>1, <1>4, <1>7, <3>1
  <2> QED
      BY <1>5, <1>6, <2>1 DEF GoodHeld
<1>9. Good(next, short)
  <2>1. ASSUME NEW other \in Topics
        PROVE  /\ GoodHeld(next.held[other], other, short)
               /\ GoodLog(next.partners[other], other, short)
               /\ GoodMessage(next.sent[other]) /\ Current(next.partners[other])
    <3>1. /\ GoodHeld(state.held[other], other, short) /\ GoodLog(state.partners[other], other, short)
          /\ GoodMessage(state.sent[other]) /\ Current(state.partners[other])
          BY DEF Good, Stable
    <3>2. CASE other = topic
          BY <1>2, <1>8, <3>1, <3>2
    <3>3. CASE other # topic
          BY <1>2, <1>3, <3>1, <3>3
    <3> QED
        BY <3>2, <3>3
  <2> QED
      BY <1>1, <1>3, <2>1 DEF Good, Stable
<1>10. Speaks(state, next, short) /\ Onward(state, next)
       BY <1>2 DEF Speaks, Onward
<1>11. ASSUME Rising(state, last) PROVE Rising(next, new)
  <2>1. CASE topic = "imu" /\ new = last
    <3>1. next.held["heading"] = state.held["heading"]
          BY <1>3, <2>1 DEF Topics
    <3> QED
        BY <1>2, <1>11, <2>1, <3>1 DEF Rising
  <2>2. CASE topic = "heading" /\ new = entry.time /\ (last # None => last < entry.time)
    <3> DEFINE message == state.sent["heading"]
    <3>1. /\ \A i, j \in 1 .. size : i < j => queue[i].time < queue[j].time
          /\ \A i \in 1 .. size : last # None /\ queue[i].time <= last
          /\ message # None => last # None /\ message.time <= last
          /\ message # None => \A i \in 1 .. size : message.time < queue[i].time
          BY <1>4, <1>11, <2>2 DEF Rising
    <3>2. message # None => message.time \in Int
          BY <1>1, SentTime DEF Topics
    <3>3. next.sent["heading"] = message /\ next.held["heading"] = longer
          BY <1>2, <2>2
    <3> HIDE DEF queue, longer, size, message
    <3>4. \A i \in 1 .. size + 1 : i \in 1 .. size \/ i = size + 1
          BY <1>4
    <3>5. last # None => last \in Int
          OBVIOUS
    <3>6. \A i \in 1 .. size : queue[i].time < entry.time
          BY <1>4, <1>5, <2>2, <3>1, <3>5
    <3>7. message # None => message.time < entry.time
          BY <1>5, <2>2, <3>1, <3>2, <3>5
    <3>8. ASSUME NEW i \in 1 .. size + 1, NEW j \in 1 .. size + 1, i < j
          PROVE  longer[i].time < longer[j].time
      <4>1. i \in 1 .. size
            BY <1>4, <3>8
      <4>2. CASE j \in 1 .. size
            BY <1>7, <3>1, <3>8, <4>1, <4>2
      <4>3. CASE j = size + 1
            BY <1>7, <3>6, <4>1, <4>3
      <4> QED
          BY <3>4, <4>2, <4>3
    <3>9. \A i \in 1 .. size + 1 : new # None /\ longer[i].time <= new
      <4>1. new # None /\ new = entry.time
            BY <1>1, <1>5, <2>2
      <4>2. ASSUME NEW i \in 1 .. size + 1 PROVE longer[i].time <= new
        <5>1. CASE i \in 1 .. size
          <6>1. longer[i].time < entry.time /\ longer[i].time \in Int
                BY <1>4, <1>7, <3>6, <5>1
          <6> QED
              BY <1>5, <4>1, <6>1
        <5>2. CASE i = size + 1
              BY <1>5, <1>7, <4>1, <5>2
        <5> QED
            BY <3>4, <5>1, <5>2
      <4> QED
          BY <4>1, <4>2
    <3>10. message # None => /\ new # None /\ message.time <= new
                             /\ \A i \in 1 .. size + 1 : message.time < longer[i].time
      <4> SUFFICES ASSUME message # None
                   PROVE  /\ new # None /\ message.time <= new
                          /\ \A i \in 1 .. size + 1 : message.time < longer[i].time
          OBVIOUS
      <4>1. new # None /\ message.time <= new
            BY <1>1, <1>5, <2>2, <3>2, <3>7
      <4>2. ASSUME NEW i \in 1 .. size + 1 PROVE message.time < longer[i].time
            BY <1>7, <3>1, <3>4, <3>7
      <4> QED
          BY <4>1, <4>2
    <3> QED
        BY <1>7, <3>3, <3>8, <3>9, <3>10 DEF Rising
  <2> QED
      BY <2>1, <2>2 DEF Takes
<1>12. \A other \in Topics : Best(state, other) => Best(next, other)
       BY <1>2 DEF Best
<1>13. Carries(state, next, short, last, new)
       BY <1>9, <1>10, <1>11, <1>12 DEF Carries
<1> QED
    BY <1>2, <1>3, <1>13

LEMMA HoldIs ==
  ASSUME clock \in Int, Start <= clock, shortSeen \in BOOLEAN, NEW short, NEW state, Good(state, short),
         NEW topic \in Topics, seen[topic], NEW lag \in 0 .. MaxLag,
         NEW entry, entry = Entry(HeldKind(topic, short), clock - lag),
         NEW last \in Int \cup {None}, NEW new, Takes(topic, entry, last, new),
         NEW next, next = Hold(state, topic, entry)
  PROVE  /\ Carries(state, next, short, last, new) /\ next.partners = state.partners
         /\ \A other \in Topics : Prompt(state, other) => Prompt(next, other)
<1> DEFINE room == IF Len(state.held[topic]) >= MaxHeld THEN MakeRoom(state, topic) ELSE state
           longer == Queued(room, topic, entry)
           size == Len(state.held[topic])
           left == Len(room.held[topic])
<1>1. next = Publish(longer, topic)
      BY DEF Hold, Publish, MakeRoom, Queued
<1>2. MaxHeld \in Nat /\ MaxHeld > 0 /\ size \in Nat /\ size <= MaxHeld
      BY QueueTyped, PairingAssumption DEF Good, Stable, GoodHeld, Came
<1>3. /\ Carries(state, room, short, last, last) /\ room.partners = state.partners
      /\ left < MaxHeld
      /\ \A other \in Topics : Prompt(state, other) => Prompt(room, other)
  <2>1. CASE size >= MaxHeld
    <3>1. room = MakeRoom(state, topic)
          BY <2>1
    <3>2. size > 0
      <4> HIDE DEF size
      <4> QED
          BY <1>2, <2>1
    <3> HIDE DEF room
    <3>3. /\ Carries(state, room, short, last, last) /\ room.partners = state.partners
          /\ left < size
          /\ \A other \in Topics : Prompt(state, other) => Prompt(room, other)
          BY <3>1, <3>2, MakeRoomLeaves
    <3>4. left \in Nat
          BY <3>3, QueueTyped DEF Carries, Good, Stable, GoodHeld, Came
    <3> HIDE DEF left, size
    <3>5. left < MaxHeld
          BY <1>2, <3>3, <3>4
    <3> QED
        BY <3>3, <3>5
  <2>2. CASE ~(size >= MaxHeld)
    <3>1. room = state
          BY <2>2
    <3>2. size < MaxHeld
      <4> HIDE DEF size
      <4> QED
          BY <1>2, <2>2
    <3> HIDE DEF room
    <3>3. Carries(state, room, short, last, last)
          BY <3>1, CarriesSelf
    <3> QED
        BY <3>1, <3>2, <3>3
  <2> QED
      BY <2>1, <2>2
<1>4. Good(room, short) /\ Stable(room, short) /\ Stable(state, short)
      BY <1>3 DEF Carries, Good
<1> HIDE DEF room
<1>5. /\ Carries(room, longer, short, last, new) /\ longer.partners = room.partners
      /\ \A other \in Topics \ {topic} : longer.held[other] = room.held[other]
  <2> HIDE DEF longer
  <2>1. longer = Queued(room, topic, entry)
        BY DEF longer
  <2>2. Len(room.held[topic]) < MaxHeld
        BY <1>3
  <2> HIDE DEF left, size
  <2> QED
      BY <1>4, <2>1, <2>2, QueuedCarries
<1> HIDE DEF longer
<1>6. Good(longer, short) /\ Stable(longer, short)
      BY <1>5 DEF Carries, Good
<1>7. new \in Int \cup {None}
  <2>1. entry.time \in Int
    <3>1. HeldKind(topic, short) \in Kinds
          BY KindsAre DEF Good, Stable
    <3> QED
        BY <3>1, EntryIs
  <2> QED
      BY <2>1 DEF Takes
<1>8. /\ Carries(longer, next, short, new, new) /\ Prompt(next, topic)
      /\ \A other \in Topics : Prompt(longer, other) => Prompt(next, other)
      /\ next.partners = longer.partners
      BY <1>1, <1>6, <1>7, TryPublishLeaves
<1>9. Carries(state, longer, short, last, new)
      BY <1>3, <1>4, <1>5, CarriesOn
<1>10. Carries(state, next, short, last, new)
       BY <1>4, <1>6, <1>8, <1>9, CarriesOn
<1>11. ASSUME NEW other \in Topics, Prompt(state, other) PROVE Prompt(next, other)
  <2>1. CASE other = topic
        BY <1>8, <2>1
  <2>2. CASE other # topic
        BY <1>3, <1>5, <1>8, <1>11, <2>2 DEF Prompt
  <2> QED
      BY <2>1, <2>2
<1> QED
    BY <1>3, <1>5, <1>8, <1>10, <1>11

(* A sample whose partners were never seen is published as it comes. *)
Alone(state, topic, entry) == [state EXCEPT !.sent[topic] = Message(<<>>, topic, entry, FALSE)]

LEMMA UnseenIs ==
  ASSUME clock \in Int, Start <= clock, shortSeen \in BOOLEAN, NEW short, NEW state, Good(state, short),
         NEW topic \in Topics, ~seen[topic], NEW lag \in 0 .. MaxLag,
         NEW entry, entry = Entry(HeldKind(topic, short), clock - lag),
         NEW last \in Int \cup {None}, NEW new, Takes(topic, entry, last, new),
         NEW next, next = Alone(state, topic, entry)
  PROVE  /\ Carries(state, next, short, last, new) /\ next.partners = state.partners
         /\ next.held = state.held
<1> DEFINE message == Message(<<>>, topic, entry, FALSE)
<1>1. /\ Stable(state, short) /\ short \in BOOLEAN /\ HeldKind(topic, short) \in Kinds
      /\ None \notin Int /\ MaxLag \in Nat
      BY KindsAre, PairingAssumption DEF Good, Stable
<1>2. /\ entry \in Entries /\ entry.kind = HeldKind(topic, short) /\ entry.received = clock
      /\ entry.time \in Int /\ entry.time <= clock /\ clock <= entry.time + MaxLag
      BY <1>1, EntryIs
<1>3. /\ GoodMessage(message) /\ OfStream(message, topic, short)
      /\ message # None /\ message.time = entry.time /\ message.early = FALSE
  <2>1. Came(<<>>) /\ Every(<<>>, PartnerKind(topic, short))
        BY DEF Came, Every
  <2>2. ASSUME NEW log, log = <<>>, NEW early \in BOOLEAN, early = FALSE
        PROVE  /\ GoodMessage(message) /\ OfStream(message, topic, short)
               /\ message # None /\ message.time = entry.time /\ message.early = FALSE
    <3>1. message = Message(log, topic, entry, early)
          BY <2>2
    <3>2. Came(log) /\ Every(log, PartnerKind(topic, short))
          BY <2>1, <2>2
    <3> HIDE DEF message
    <3>3. Start <= entry.received /\ entry.received <= clock /\ entry.time <= entry.received
          /\ entry.received <= entry.time + MaxLag
          BY <1>2
    <3>4. /\ GoodMessage(message) /\ OfStream(message, topic, short)
          /\ message # None /\ message.time = entry.time /\ message.early = early
          BY <1>1, <1>2, <3>1, <3>2, <3>3, MessageIs
    <3> QED
        BY <2>2, <3>4
  <2> QED
      BY <2>2
<1> HIDE DEF message
<1>4. /\ DOMAIN next = Fields /\ next.partners = state.partners /\ next.held = state.held
      /\ next.sent = [state.sent EXCEPT ![topic] = message]
      BY <1>1 DEF Stable, Shaped, Fields, Alone, message
<1>5. /\ Shaped(next) /\ next.sent[topic] = message
      /\ \A other \in Topics \ {topic} : next.sent[other] = state.sent[other]
      BY <1>1, <1>4 DEF Stable, Shaped
<1>6. \A other \in Topics : GoodMessage(next.sent[other])
      BY <1>1, <1>3, <1>5 DEF Stable
<1>7. Good(next, short)
      BY <1>1, <1>4, <1>5, <1>6 DEF Good, Stable
<1>8. Speaks(state, next, short)
      BY <1>3, <1>5 DEF Speaks
<1>9. \A other \in Topics : Best(state, other) => Best(next, other)
      BY <1>3, <1>4, <1>5 DEF Best
<1>10. ASSUME Rising(state, last) PROVE Rising(next, new) /\ Onward(state, next)
  <2>1. CASE topic = "imu" /\ new = last
    <3>1. next.sent["heading"] = state.sent["heading"]
          BY <1>5, <2>1 DEF Topics
    <3> QED
        BY <1>4, <1>10, <2>1, <3>1 DEF Rising, Onward
  <2>2. CASE topic = "heading" /\ new = entry.time /\ (last # None => last < entry.time)
    <3> DEFINE before == state.sent["heading"]
    <3>1. DOMAIN next.held["heading"] = {}
      <4>1. state.held["heading"] = <<>>
            BY <1>1, <2>2 DEF Stable, GoodHeld
      <4> QED
          BY <1>4, <4>1
    <3>2. next.sent["heading"] = message
          BY <1>5, <2>2
    <3>3. before # None => last # None /\ before.time <= last /\ before.time \in Int
          BY <1>1, <1>10, SentTime DEF Rising, Topics
    <3> HIDE DEF before
    <3>4. new # None /\ message.time <= new
          BY <1>1, <1>2, <1>3, <2>2
    <3>5. before # None => message.time > before.time
      <4>1. last # None => last \in Int
            OBVIOUS
      <4> QED
          BY <1>2, <1>3, <2>2, <3>3, <4>1
    <3> QED
        BY <1>3, <3>1, <3>2, <3>4, <3>5 DEF Rising, Onward, before
  <2> QED
      BY <2>1, <2>2 DEF Takes
<1> QED
    BY <1>4, <1>7, <1>8, <1>9, <1>10 DEF Carries

LEMMA PublishOrHoldIs ==
  ASSUME clock \in Int, Start <= clock, shortSeen \in BOOLEAN, NEW short, NEW state, Good(state, short),
         NEW topic \in Topics, topic = "imu" \/ topic \in Enabled, NEW lag \in 0 .. MaxLag,
         NEW entry, entry = Entry(HeldKind(topic, short), clock - lag),
         NEW last \in Int \cup {None}, NEW new, Takes(topic, entry, last, new),
         NEW next, next = PublishOrHold(state, topic, entry)
  PROVE  /\ Carries(state, next, short, last, new) /\ next.partners = state.partners
         /\ \A other \in Topics : Prompt(state, other) => Prompt(next, other)
<1>1. CASE topic \notin Enabled
  <2>1. next = state /\ new = last
        BY <1>1 DEF PublishOrHold, Takes
  <2>2. Carries(state, state, short, last, last)
        BY CarriesSelf
  <2> QED
      BY <2>1, <2>2
<1>2. CASE topic \in Enabled /\ ~seen[topic]
  <2>1. next = Alone(state, topic, entry)
        BY <1>2 DEF PublishOrHold, Alone
  <2>2. Carries(state, next, short, last, new) /\ next.partners = state.partners /\ next.held = state.held
        BY <1>2, <2>1, UnseenIs
  <2> QED
      BY <2>2 DEF Prompt
<1>3. CASE topic \in Enabled /\ seen[topic]
  <2>1. next = Hold(state, topic, entry)
        BY <1>3 DEF PublishOrHold
  <2> QED
      BY <1>3, <2>1, HoldIs
<1> QED
    BY <1>1, <1>2, <1>3

(* The logs that are remembered are new to a history that forgets. *)
LEMMA NotYetIs ==
  ASSUME NEW topic, NEW kind, Every(partners[topic], kind), NEW time, NotYet(topic, kind, time),
         NEW rest, ToSet(rest) \subseteq ToSet(partners[topic])
  PROVE  \A i \in DOMAIN rest : rest[i].time # time
<1>1. ASSUME NEW i \in DOMAIN rest PROVE rest[i].time # time
  <2>1. rest[i] \in ToSet(partners[topic])
        BY DEF ToSet
  <2>2. PICK j \in DOMAIN partners[topic] : rest[i] = partners[topic][j]
        BY <2>1 DEF ToSet
  <2> QED
      BY <2>2 DEF Every, NotYet
<1> QED
    BY <1>1

(* The logs of another stream are dropped: the queue of IMU samples and    *)
(* the partners of the headings.                                           *)
LEMMA SwitchIs ==
  ASSUME NEW state, Good(state, FALSE), NEW next, next = SwitchSource(state), NEW last
  PROVE  /\ Good(next, TRUE) /\ next.sent = state.sent
         /\ Rising(state, last) => Rising(next, last)
         /\ Best(state, "imu") => Best(next, "imu")
         /\ \A topic \in Topics : Prompt(state, topic) => Prompt(next, topic)
         /\ next.partners["heading"] = <<>> /\ next.partners["imu"] = state.partners["imu"]
<1>1. Stable(state, FALSE) /\ Shaped(state)
      BY DEF Good, Stable
<1>2. /\ DOMAIN next = Fields /\ next.sent = state.sent
      /\ next.partners = [state.partners EXCEPT !["heading"] = <<>>]
      /\ next.held = [state.held EXCEPT !["imu"] = <<>>]
      BY <1>1 DEF SwitchSource, Shaped, Fields
<1>3. /\ Shaped(next)
      /\ next.partners["heading"] = <<>> /\ next.partners["imu"] = state.partners["imu"]
      /\ next.held["imu"] = <<>> /\ next.held["heading"] = state.held["heading"]
      BY <1>1, <1>2 DEF Shaped, Topics
<1>4. Came(<<>>) /\ Len(<<>>) = 0 /\ Distinct(<<>>) /\ Current(<<>>) /\ \A kind : Every(<<>>, kind)
      BY DEF Came, Distinct, Current, Every
<1>5. /\ MaxHeld \in Nat /\ MaxHistory \in Nat
      BY PairingAssumption
<1>6. GoodHeld(next.held["imu"], "imu", TRUE) /\ GoodLog(next.partners["heading"], "heading", TRUE)
  <2>1. Every(<<>>, HeldKind("imu", TRUE)) /\ Every(<<>>, PartnerKind("heading", TRUE))
        BY DEF Every
  <2>2. 0 <= MaxHeld /\ 0 <= MaxHistory
        BY <1>5
  <2> QED
      BY <1>3, <1>4, <2>1, <2>2, Zenon DEF GoodHeld, GoodLog
<1>7. GoodHeld(next.held["heading"], "heading", TRUE)
  <2>1. HeldKind("heading", TRUE) = HeldKind("heading", FALSE)
        BY DEF HeldKind
  <2>2. GoodHeld(state.held["heading"], "heading", FALSE)
        BY <1>1 DEF Stable, Topics
  <2> QED
      BY <1>3, <2>1, <2>2 DEF GoodHeld
<1>8. GoodLog(next.partners["imu"], "imu", TRUE) /\ Current(next.partners["imu"])
  <2>1. PartnerKind("imu", TRUE) = PartnerKind("imu", FALSE)
        BY DEF PartnerKind
  <2>2. GoodLog(state.partners["imu"], "imu", FALSE) /\ Current(state.partners["imu"])
        BY DEF Good, Stable, Topics
  <2> QED
      BY <1>3, <2>1, <2>2 DEF GoodLog
<1>9. Good(next, TRUE)
  <2>1. \A topic \in Topics : GoodMessage(next.sent[topic])
        BY <1>1, <1>2 DEF Stable
  <2>2. \A topic \in Topics :
          /\ GoodHeld(next.held[topic], topic, TRUE) /\ GoodLog(next.partners[topic], topic, TRUE)
          /\ Current(next.partners[topic])
        BY <1>3, <1>4, <1>6, <1>7, <1>8 DEF Topics
  <2> QED
      BY <1>3, <2>1, <2>2 DEF Good, Stable
<1>10. Rising(state, last) => Rising(next, last)
       BY <1>2, <1>3 DEF Rising
<1>11. Best(state, "imu") => Best(next, "imu")
       BY <1>2, <1>3 DEF Best
<1>12. \A topic \in Topics : Prompt(state, topic) => Prompt(next, topic)
       BY <1>3 DEF Prompt, Topics
<1> QED
    BY <1>2, <1>3, <1>9, <1>10, <1>11, <1>12

(* handle_imu: a sample is a partner of headings and waits for one itself. *)
LEMMA HandleImuIs ==
  ASSUME clock \in Int, Start <= clock, shortSeen \in BOOLEAN, NEW short, NEW state, Good(state, short),
         NEW lag \in 0 .. MaxLag, NEW entry, entry = Entry(Stream(short), clock - lag),
         \A i \in DOMAIN state.partners["heading"] : state.partners["heading"][i].time # clock - lag,
         NEW last \in Int \cup {None}, NEW next, next = HandleImu(state, entry)
  PROVE  /\ Carries(state, next, short, last, last)
         /\ \A other \in Topics : Prompt(state, other) => Prompt(next, other)
         /\ \A other \in Topics :
              ToSet(next.partners[other]) \subseteq ToSet(state.partners[other]) \cup {entry}
<1> DEFINE middle == Remember(state, "heading", entry)
<1>1. entry = Entry(PartnerKind("heading", short), clock - lag) /\ "heading" \in Topics
      BY DEF PartnerKind, Topics
<1>2. entry = Entry(HeldKind("imu", short), clock - lag) /\ "imu" \in Topics
      BY DEF HeldKind, Topics
<1>3. next = PublishOrHold(middle, "imu", entry)
      BY DEF HandleImu
<1>4. /\ Carries(state, middle, short, last, last)
      /\ \A other \in Topics : Prompt(state, other) => Prompt(middle, other)
      /\ \A other \in Topics :
           ToSet(middle.partners[other]) \subseteq ToSet(state.partners[other]) \cup {entry}
  <2> HIDE DEF middle
  <2>1. middle = Remember(state, "heading", entry)
        BY DEF middle
  <2> QED
      BY <1>1, <2>1, RememberIs
<1> HIDE DEF middle
<1>5. Good(middle, short) /\ Stable(middle, short) /\ Stable(state, short)
      BY <1>4 DEF Carries, Good
<1>6. Takes("imu", entry, last, last)
      BY DEF Takes
<1>7. /\ Carries(middle, next, short, last, last) /\ next.partners = middle.partners
      /\ \A other \in Topics : Prompt(middle, other) => Prompt(next, other)
      BY <1>2, <1>3, <1>5, <1>6, PublishOrHoldIs
<1>8. Carries(state, next, short, last, last)
      BY <1>4, <1>5, <1>7, CarriesOn
<1> QED
    BY <1>4, <1>7, <1>8

-----------------------------------------------------------------------------
(* The inductive invariant, and what every step but a tick of the clock    *)
(* and a reset does to it.                                                 *)

(* The headings are compared with one that is less than half a wrap old. *)
Recent == lastHeading # None => 2 * (clock - lastHeading) < Wrap

HeadingTime(last) ==
  last \in Int \cup {None} /\ (last # None => Start - MaxLag <= last /\ last <= clock)

PairInv ==
  /\ clock \in Nat /\ Start <= clock
  /\ seen \in [Topics -> BOOLEAN] /\ shortSeen \in BOOLEAN
  /\ ImuSource = "ImuData" => ~shortSeen
  /\ Stable(State, shortSeen)
  /\ HeadingTime(lastHeading)

(* The flags only ever go up. *)
Flags ==
  /\ clock' = clock /\ seen' \in [Topics -> BOOLEAN] /\ \A topic \in Topics : seen[topic] => seen'[topic]
  /\ shortSeen' \in BOOLEAN /\ (shortSeen => shortSeen') /\ (ImuSource = "ImuData" => ~shortSeen')
  /\ HeadingTime(lastHeading')

(* Of the partners only the one of this step is new. *)
News(next) ==
  \A topic \in Topics : \A entry \in ToSet(next.partners[topic]) :
    entry \in ToSet(partners[topic]) \/ entry.received = clock

InTime(next) ==
  Rising(State, lastHeading) /\ Recent /\ 2 * MaxLag < Wrap =>
    Rising(next, lastHeading') /\ Onward(State, next)

Moves(next) ==
  /\ Becomes(next) /\ Flags /\ Good(next, shortSeen') /\ News(next) /\ InTime(next)
  /\ \A topic \in Topics : Prompt(next, topic)
  /\ shortSeen' = shortSeen => Speaks(State, next, shortSeen)
  /\ LongHistories =>
       \A topic \in Topics :
         topic = "imu" \/ shortSeen' = shortSeen => (Best(State, topic) => Best(next, topic))

LEMMA StateIs ==
  /\ State.partners = partners /\ State.held = held /\ State.sent = sent
BY DEF State

(* flush_pending, which every log begins with *)
LEMMA FlushMoves ==
  ASSUME PairInv, FlushPending
  PROVE  Moves(Flushed)
<1> DEFINE next == Flushed
<1>1. /\ clock \in Int /\ shortSeen \in BOOLEAN /\ Stable(State, shortSeen)
      /\ lastHeading \in Int \cup {None}
      BY DEF PairInv, HeadingTime
<1>2. /\ Becomes(next) /\ shortSeen' = shortSeen /\ seen' = seen /\ lastHeading' = lastHeading
      /\ clock' = clock
      BY DEF FlushPending
<1> HIDE DEF next
<1>3. /\ Carries(State, next, shortSeen, lastHeading, lastHeading)
      /\ \A topic \in Topics : Prompt(next, topic)
      /\ \A topic \in Topics : ToSet(next.partners[topic]) \subseteq ToSet(partners[topic])
      BY <1>1, FlushedIs DEF next
<1>4. Flags
      BY <1>2 DEF PairInv, Flags
<1>5. News(next) /\ InTime(next)
      BY <1>2, <1>3 DEF News, InTime, Carries
<1>6. Moves(next)
      BY <1>2, <1>3, <1>4, <1>5 DEF Moves, Carries
<1> QED
    BY <1>6 DEF next

(* on_log with EKF_QUAT *)
LEMMA EkfQuatMoves ==
  ASSUME PairInv, NEW lag \in 0 .. MaxLag, EkfQuat(lag)
  PROVE  \E next : Moves(next)
<1> DEFINE entry == Entry("EkfQuat", clock - lag)
           flushed == Flushed
           next == Remember(flushed, "imu", entry)
<1>1. /\ clock \in Int /\ Start <= clock /\ shortSeen \in BOOLEAN /\ Stable(State, shortSeen)
      /\ lastHeading \in Int \cup {None} /\ lag \in Int
      BY PairingAssumption DEF PairInv, HeadingTime
<1>2. /\ NotYet("imu", "EkfQuat", clock - lag)
      /\ Becomes(next) /\ shortSeen' = shortSeen /\ seen' = [seen EXCEPT !["imu"] = TRUE]
      /\ lastHeading' = lastHeading /\ clock' = clock
      BY DEF EkfQuat, Entry
<1> HIDE DEF flushed, next
<1>3. /\ Carries(State, flushed, shortSeen, lastHeading, lastHeading)
      /\ \A topic \in Topics : Prompt(flushed, topic)
      /\ \A topic \in Topics : ToSet(flushed.partners[topic]) \subseteq ToSet(partners[topic])
      BY <1>1, FlushedIs DEF flushed
<1>4. /\ entry = Entry(PartnerKind("imu", shortSeen), clock - lag) /\ "imu" \in Topics
      /\ entry.received = clock
      BY DEF PartnerKind, Topics, Entry
<1>5. Good(flushed, shortSeen) /\ Stable(flushed, shortSeen)
      BY <1>3 DEF Carries, Good
<1>6. \A i \in DOMAIN flushed.partners["imu"] : flushed.partners["imu"][i].time # clock - lag
  <2>1. Every(partners["imu"], "EkfQuat")
        BY <1>1, <1>4, StateIs DEF Stable, GoodLog, PartnerKind
  <2> QED
      BY <1>2, <1>3, <1>4, <2>1, NotYetIs
<1> HIDE DEF entry
<1>7. /\ Carries(flushed, next, shortSeen, lastHeading, lastHeading)
      /\ \A topic \in Topics : Prompt(flushed, topic) => Prompt(next, topic)
      /\ \A topic \in Topics :
           ToSet(next.partners[topic]) \subseteq ToSet(flushed.partners[topic]) \cup {entry}
  <2>1. next = Remember(flushed, "imu", entry)
        BY DEF next
  <2> QED
      BY <1>1, <1>4, <1>5, <1>6, <2>1, RememberIs
<1>8. Carries(State, next, shortSeen, lastHeading, lastHeading)
      BY <1>1, <1>3, <1>5, <1>7, CarriesOn
<1>9. Flags
      BY <1>2 DEF PairInv, Flags
<1>10. News(next) /\ InTime(next)
       BY <1>2, <1>3, <1>4, <1>7, <1>8 DEF News, InTime, Carries
<1>11. Moves(next)
       BY <1>2, <1>3, <1>7, <1>8, <1>9, <1>10 DEF Moves, Carries
<1> QED
    BY <1>11

(* A heading that is not after the last one is not taken. *)
LEMMA NotAfterIs ==
  ASSUME clock \in Int, NEW last \in Int, last <= clock, 2 * (clock - last) < Wrap,
         NEW lag \in 0 .. MaxLag, 2 * MaxLag < Wrap, ~NotAfter(clock - lag, last)
  PROVE  last < clock - lag
<1> DEFINE time == clock - lag
<1>1. /\ lag \in Int /\ 0 <= lag /\ lag <= MaxLag /\ MaxLag \in Nat /\ None \notin Int
      /\ Wrap \in Nat
      BY PairingAssumption, WrapAssumption
<1>2. time \in Int /\ 2 * (time - last) < Wrap /\ 2 * (last - time) < Wrap
      BY <1>1
<1> HIDE DEF time
<1>3. SignedDelta(time, last) = time - last
      BY <1>2, DeltaIs
<1>4. ~(SignedDelta(time, last) <= 0)
      BY <1>1 DEF NotAfter, time
<1>5. last < time
      BY <1>2, <1>3, <1>4
<1> QED
    BY <1>5 DEF time

(* on_log with GPS_HDT *)
LEMMA GnssHdtMoves ==
  ASSUME PairInv, NEW lag \in 0 .. MaxLag, GnssHdt(lag)
  PROVE  \E next : Moves(next)
<1> DEFINE entry == Entry("GnssHdt", clock - lag)
           flushed == Flushed
           old == NotAfter(entry.time, lastHeading)
           next == IF old THEN flushed ELSE PublishOrHold(flushed, "heading", entry)
<1>1. /\ clock \in Int /\ Start <= clock /\ shortSeen \in BOOLEAN /\ Stable(State, shortSeen)
      /\ lastHeading \in Int \cup {None} /\ lag \in Int /\ 0 <= lag /\ lag <= MaxLag
      /\ None \notin Int /\ MaxLag \in Nat
      BY PairingAssumption DEF PairInv, HeadingTime
<1>2. /\ "heading" \in Enabled /\ Becomes(next)
      /\ lastHeading' = (IF old THEN lastHeading ELSE entry.time)
      /\ shortSeen' = shortSeen /\ seen' = seen /\ clock' = clock
      BY DEF GnssHdt
<1> HIDE DEF flushed, next
<1>3. /\ Carries(State, flushed, shortSeen, lastHeading, lastHeading)
      /\ \A topic \in Topics : Prompt(flushed, topic)
      /\ \A topic \in Topics : ToSet(flushed.partners[topic]) \subseteq ToSet(partners[topic])
      BY <1>1, FlushedIs DEF flushed
<1>4. Good(flushed, shortSeen) /\ Stable(flushed, shortSeen)
      BY <1>3 DEF Carries, Good
<1>5. CASE old
  <2>1. next = flushed /\ lastHeading' = lastHeading
        BY <1>2, <1>5 DEF next
  <2>2. Flags
        BY <1>2, <2>1 DEF PairInv, Flags
  <2>3. News(next) /\ InTime(next)
        BY <1>3, <2>1 DEF News, InTime, Carries
  <2>4. Moves(next)
        BY <1>2, <1>3, <2>1, <2>2, <2>3 DEF Moves, Carries
  <2> QED
      BY <2>4
<1>6. CASE ~old
  <2>1. next = PublishOrHold(flushed, "heading", entry) /\ lastHeading' = entry.time
        BY <1>2, <1>6 DEF next
  <2>2. /\ entry = Entry(HeldKind("heading", shortSeen), clock - lag) /\ "heading" \in Topics
        /\ entry.time = clock - lag
        BY DEF HeldKind, Topics, Entry
  <2>3. Takes("heading", entry, None, entry.time)
        BY DEF Takes
  <2>4. Recent /\ 2 * MaxLag < Wrap => Takes("heading", entry, lastHeading, entry.time)
    <3> SUFFICES ASSUME Recent, 2 * MaxLag < Wrap, lastHeading # None
                 PROVE  lastHeading < entry.time
        BY DEF Takes
    <3>1. lastHeading \in Int /\ lastHeading <= clock /\ 2 * (clock - lastHeading) < Wrap
          BY DEF PairInv, HeadingTime, Recent
    <3>2. ~NotAfter(clock - lag, lastHeading)
          BY <1>6, <2>2
    <3> HIDE DEF entry
    <3> QED
        BY <1>1, <2>2, <3>1, <3>2, NotAfterIs
  <2> HIDE DEF entry
  <2>5. ASSUME NEW last \in Int \cup {None}, Takes("heading", entry, last, entry.time)
        PROVE  /\ Carries(flushed, next, shortSeen, last, entry.time) /\ next.partners = flushed.partners
               /\ \A topic \in Topics : Prompt(flushed, topic) => Prompt(next, topic)
        BY <1>1, <1>2, <1>4, <2>1, <2>2, <2>5, PublishOrHoldIs
  <2>6. /\ Carries(flushed, next, shortSeen, None, entry.time) /\ next.partners = flushed.partners
        /\ \A topic \in Topics : Prompt(flushed, topic) => Prompt(next, topic)
        BY <2>3, <2>5
  <2>7. Good(next, shortSeen) /\ Speaks(State, next, shortSeen)
        BY <1>3, <2>6 DEF Carries, Speaks
  <2>8. InTime(next)
    <3> SUFFICES ASSUME Rising(State, lastHeading), Recent, 2 * MaxLag < Wrap
                 PROVE  Rising(next, entry.time) /\ Onward(State, next)
        BY <2>1 DEF InTime
    <3>1. Carries(flushed, next, shortSeen, lastHeading, entry.time)
          BY <1>1, <2>4, <2>5
    <3>2. Carries(State, next, shortSeen, lastHeading, entry.time)
          BY <1>1, <1>3, <1>4, <3>1, CarriesOn
    <3> QED
        BY <3>2 DEF Carries
  <2>9. Flags
    <3>1. HeadingTime(entry.time)
          BY <1>1, <2>2, PairingAssumption DEF HeadingTime, PairInv
    <3> QED
        BY <1>2, <2>1, <3>1 DEF PairInv, Flags
  <2>10. News(next)
         BY <1>3, <2>6 DEF News
  <2>11. LongHistories => \A topic \in Topics : Best(State, topic) => Best(next, topic)
         BY <1>3, <2>6 DEF Carries
  <2>12. Moves(next)
         BY <1>2, <1>3, <2>6, <2>7, <2>8, <2>9, <2>10, <2>11 DEF Moves
  <2> QED
      BY <2>12
<1> QED
    BY <1>5, <1>6

(* on_log with IMU_DATA or IMU_SHORT, the first of which switches *)
LEMMA ImuLogMoves ==
  ASSUME PairInv, NEW kind \in ImuLogs, NEW lag \in 0 .. MaxLag, ImuLog(kind, lag)
  PROVE  \E next : Moves(next)
<1> DEFINE entry == Entry(kind, clock - lag)
           flushed == Flushed
           switching == kind = "ImuShort" /\ ~shortSeen
           from == IF switching THEN SwitchSource(flushed) ELSE flushed
           next == HandleImu(from, entry)
           short == shortSeen \/ kind = "ImuShort"
<1>1. /\ clock \in Int /\ Start <= clock /\ shortSeen \in BOOLEAN /\ Stable(State, shortSeen)
      /\ lastHeading \in Int \cup {None} /\ lag \in Int
      BY PairingAssumption DEF PairInv, HeadingTime
<1>2. /\ Accepted(kind) /\ NotYet("heading", kind, clock - lag)
      /\ Becomes(next) /\ shortSeen' = short /\ seen' = [seen EXCEPT !["heading"] = TRUE]
      /\ lastHeading' = lastHeading /\ clock' = clock
      BY DEF ImuLog, Entry
<1> HIDE DEF flushed
<1>3. /\ Carries(State, flushed, shortSeen, lastHeading, lastHeading)
      /\ \A topic \in Topics : Prompt(flushed, topic)
      /\ \A topic \in Topics : ToSet(flushed.partners[topic]) \subseteq ToSet(partners[topic])
      BY <1>1, FlushedIs DEF flushed
<1>4. Good(flushed, shortSeen) /\ Stable(flushed, shortSeen)
      BY <1>3 DEF Carries, Good
<1>5. kind = Stream(short) /\ (ImuSource = "ImuData" => ~short) /\ short \in BOOLEAN
  <2>1. ImuSource = "ImuData" => ~shortSeen
        BY DEF PairInv
  <2> QED
      BY <1>2, <2>1 DEF Accepted, Stream, ImuLogs
<1>6. Flags
  <2>1. lastHeading' = lastHeading /\ HeadingTime(lastHeading) /\ clock' = clock
        BY <1>2 DEF PairInv
  <2>2. HeadingTime(lastHeading')
        BY <2>1 DEF HeadingTime
  <2>3. /\ shortSeen' \in BOOLEAN /\ (shortSeen => shortSeen') /\ (ImuSource = "ImuData" => ~shortSeen')
        BY <1>2, <1>5
  <2>4. seen' \in [Topics -> BOOLEAN] /\ \A topic \in Topics : seen[topic] => seen'[topic]
        BY <1>2 DEF PairInv
  <2> QED
      BY <2>1, <2>2, <2>3, <2>4 DEF Flags
<1>7. /\ Good(from, short) /\ from.sent = flushed.sent
      /\ Rising(flushed, lastHeading) => Rising(from, lastHeading)
      /\ Best(flushed, "imu") => Best(from, "imu")
      /\ short = shortSeen => (Best(flushed, "heading") => Best(from, "heading"))
      /\ \A topic \in Topics : Prompt(flushed, topic) => Prompt(from, topic)
      /\ \A topic \in Topics : ToSet(from.partners[topic]) \subseteq ToSet(flushed.partners[topic])
      /\ \A i \in DOMAIN from.partners["heading"] : from.partners["heading"][i].time # clock - lag
  <2>1. CASE switching
    <3>1. from = SwitchSource(flushed) /\ short = TRUE /\ shortSeen = FALSE
          BY <1>1, <2>1
    <3> HIDE DEF from, short
    <3>2. Good(flushed, FALSE)
          BY <1>4, <3>1
    <3>3. /\ Good(from, TRUE) /\ from.sent = flushed.sent
          /\ Rising(flushed, lastHeading) => Rising(from, lastHeading)
          /\ Best(flushed, "imu") => Best(from, "imu")
          /\ \A topic \in Topics : Prompt(flushed, topic) => Prompt(from, topic)
          /\ from.partners["heading"] = <<>> /\ from.partners["imu"] = flushed.partners["imu"]
          BY <3>1, <3>2, SwitchIs
    <3>4. ToSet(<<>>) = {}
          BY DEF ToSet
    <3>5. \A topic \in Topics : ToSet(from.partners[topic]) \subseteq ToSet(flushed.partners[topic])
          BY <3>3, <3>4 DEF Topics
    <3>6. DOMAIN from.partners["heading"] = {}
          BY <3>3
    <3> QED
        BY <3>1, <3>3, <3>5, <3>6
  <2>2. CASE ~switching
    <3>1. from = flushed /\ short = shortSeen
          BY <1>1, <1>5, <2>2
    <3> HIDE DEF from
    <3>2. \A i \in DOMAIN flushed.partners["heading"] : flushed.partners["heading"][i].time # clock - lag
      <4>1. Every(partners["heading"], kind)
        <5>1. kind = PartnerKind("heading", shortSeen) /\ "heading" \in Topics
              BY <1>5, <3>1 DEF PartnerKind, Topics
        <5> QED
            BY <1>1, <5>1, StateIs DEF Stable, GoodLog
      <4>2. ToSet(flushed.partners["heading"]) \subseteq ToSet(partners["heading"])
            BY <1>3 DEF Topics
      <4> QED
          BY <1>2, <4>1, <4>2, NotYetIs
    <3> HIDE DEF short
    <3> QED
        BY <1>4, <3>1, <3>2
  <2> QED
      BY <2>1, <2>2
<1> HIDE DEF from, next, short
<1>8. entry = Entry(Stream(short), clock - lag) /\ entry.received = clock
      BY <1>5 DEF Entry
<1> HIDE DEF entry
<1>9. /\ Carries(from, next, short, lastHeading, lastHeading)
      /\ \A topic \in Topics : Prompt(from, topic) => Prompt(next, topic)
      /\ \A topic \in Topics :
           ToSet(next.partners[topic]) \subseteq ToSet(from.partners[topic]) \cup {entry}
  <2>1. next = HandleImu(from, entry)
        BY DEF next
  <2> QED
      BY <1>1, <1>7, <1>8, <2>1, HandleImuIs
<1>10. News(next)
       BY <1>3, <1>7, <1>8, <1>9 DEF News
<1>11. InTime(next)
  <2> SUFFICES ASSUME Rising(State, lastHeading)
               PROVE  Rising(next, lastHeading) /\ Onward(State, next)
      BY <1>2 DEF InTime
  <2>1. Rising(flushed, lastHeading) /\ Onward(State, flushed)
        BY <1>3 DEF Carries
  <2>2. Rising(next, lastHeading) /\ Onward(from, next)
        BY <1>7, <1>9, <2>1 DEF Carries
  <2>3. Onward(flushed, next)
        BY <1>7, <2>2 DEF Onward
  <2> DEFINE a == State.sent["heading"]
             b == flushed.sent["heading"]
             c == next.sent["heading"]
  <2>4. a # None => b # None /\ (b = a \/ b.time > a.time) /\ c # None /\ (c = b \/ c.time > b.time)
        BY <2>1, <2>3 DEF Onward
  <2>5. Stable(next, short)
        BY <1>9 DEF Carries, Good
  <2>6. /\ a # None => a.time \in Int
        /\ b # None => b.time \in Int
        /\ c # None => c.time \in Int
        BY <1>1, <1>4, <2>5, SentTime DEF Topics
  <2> HIDE DEF a, b, c
  <2>7. a # None => c # None /\ (c = a \/ c.time > a.time)
        BY <2>4, <2>6
  <2> QED
      BY <2>2, <2>7 DEF Onward, a, c
<1>12. short = shortSeen => Speaks(State, next, shortSeen)
  <2> SUFFICES ASSUME short = shortSeen PROVE Speaks(State, next, shortSeen)
      OBVIOUS
  <2> QED
      BY <1>3, <1>7, <1>9 DEF Carries, Speaks
<1>13. ASSUME LongHistories, NEW topic \in Topics, topic = "imu" \/ short = shortSeen, Best(State, topic)
       PROVE  Best(next, topic)
  <2>1. Best(flushed, topic)
        BY <1>3, <1>13 DEF Carries
  <2>2. Best(from, topic)
        BY <1>7, <1>13, <2>1 DEF Topics
  <2> QED
      BY <1>9, <1>13, <2>2 DEF Carries
<1>14. Moves(next)
  <2>1. Becomes(next) /\ Good(next, shortSeen')
        BY <1>2, <1>9 DEF Carries, next, from, flushed, entry
  <2>2. \A topic \in Topics : Prompt(next, topic)
        BY <1>3, <1>7, <1>9
  <2>3. shortSeen' = short
        BY <1>2
  <2> QED
      BY <1>6, <1>10, <1>11, <1>12, <1>13, <2>1, <2>2, <2>3 DEF Moves
<1> QED
    BY <1>14

LEMMA MovesKeep ==
  ASSUME PairInv, NEW next, Moves(next)
  PROVE  PairInv'
<1>1. /\ clock' = clock /\ seen' \in [Topics -> BOOLEAN] /\ \A topic \in Topics : seen[topic] => seen'[topic]
      /\ shortSeen' \in BOOLEAN /\ (shortSeen => shortSeen') /\ (ImuSource = "ImuData" => ~shortSeen')
      /\ HeadingTime(lastHeading') /\ Stable(next, shortSeen') /\ Shaped(next)
      BY DEF Moves, Flags, Good, Stable
<1>2. /\ State'.partners = next.partners /\ State'.held = next.held /\ State'.sent = next.sent
      /\ DOMAIN State' = Fields
      BY DEF Moves, Becomes, State, Fields
<1>3. Shaped(State)'
      BY <1>1, <1>2 DEF Shaped
<1>4. ASSUME NEW topic \in Topics
      PROVE  /\ GoodHeld(State.held[topic], topic, shortSeen)'
             /\ GoodLog(State.partners[topic], topic, shortSeen)'
             /\ GoodMessage(State.sent[topic])'
  <2>1. /\ GoodHeld(next.held[topic], topic, shortSeen') /\ GoodLog(next.partners[topic], topic, shortSeen')
        /\ GoodMessage(next.sent[topic])
        BY <1>1 DEF Stable
  <2>2. ASSUME NEW queue PROVE Came(queue)' <=> Came(queue)
        BY <1>1 DEF Came
  <2>3. ~seen'[topic] => ~seen[topic]
        BY <1>1
  <2>4. GoodHeld(State.held[topic], topic, shortSeen)'
        BY <1>2, <2>1, <2>2, <2>3 DEF GoodHeld, Every, HeldKind, Stream
  <2>5. GoodLog(State.partners[topic], topic, shortSeen)'
        BY <1>2, <2>1, <2>2 DEF GoodLog, Every, PartnerKind, Stream, Distinct
  <2>6. GoodMessage(State.sent[topic])'
        BY <1>1, <1>2, <2>1 DEF GoodMessage, Dated
  <2> QED
      BY <2>4, <2>5, <2>6
<1>5. Stable(State, shortSeen)'
      BY <1>1, <1>3, <1>4 DEF Stable
<1>6. HeadingTime(lastHeading)'
      BY <1>1 DEF HeadingTime
<1> QED
    BY <1>1, <1>5, <1>6 DEF PairInv

LEMMA TickKeeps ==
  ASSUME PairInv, Tick
  PROVE  PairInv'
<1>1. /\ clock' = clock + 1 /\ clock \in Nat /\ Start <= clock /\ Start \in Nat /\ MaxLag \in Nat
      /\ partners' = partners /\ held' = held /\ sent' = sent
      /\ seen' = seen /\ shortSeen' = shortSeen /\ lastHeading' = lastHeading
      BY PairingAssumption DEF Tick, pairing, PairInv
<1>2. State' = State
      BY <1>1 DEF State
<1>3. Stable(State, shortSeen)
      BY DEF PairInv
<1>4. Shaped(State)'
      BY <1>2, <1>3 DEF Stable, Shaped
<1>5. ASSUME NEW topic \in Topics
      PROVE  /\ GoodHeld(State.held[topic], topic, shortSeen)'
             /\ GoodLog(State.partners[topic], topic, shortSeen)'
             /\ GoodMessage(State.sent[topic])'
  <2>1. /\ GoodHeld(State.held[topic], topic, shortSeen) /\ GoodLog(State.partners[topic], topic, shortSeen)
        /\ GoodMessage(State.sent[topic])
        BY <1>3 DEF Stable
  <2>2. ASSUME NEW queue, Came(queue) PROVE Came(queue)'
    <3>1. \A i \in DOMAIN queue : queue[i].received \in Int
          BY <2>2, QueueTyped DEF Came
    <3>2. \A i \in DOMAIN queue : queue[i].received <= clock'
          BY <1>1, <2>2, <3>1 DEF Came
    <3> QED
        BY <2>2, <3>2 DEF Came
  <2>3. GoodHeld(State.held[topic], topic, shortSeen)'
        BY <1>1, <1>2, <2>1, <2>2 DEF GoodHeld, Every, HeldKind, Stream
  <2>4. GoodLog(State.partners[topic], topic, shortSeen)'
        BY <1>1, <1>2, <2>1, <2>2 DEF GoodLog, Every, PartnerKind, Stream, Distinct
  <2>5. GoodMessage(State.sent[topic])'
    <3> DEFINE message == State.sent[topic]
    <3>1. message # None => message.time \in Int
          BY <1>3, SentTime
    <3>2. /\ message \in Messages \cup {None}
          /\ message # None => /\ Start - MaxLag <= message.time /\ message.time <= clock
                               /\ message.short => shortSeen
          BY <2>1 DEF GoodMessage, Dated
    <3>3. State'.sent[topic] = message
          BY <1>2
    <3> HIDE DEF message
    <3>4. message # None => message.time <= clock'
          BY <1>1, <3>1, <3>2
    <3> QED
        BY <1>1, <3>2, <3>3, <3>4 DEF GoodMessage, Dated
  <2> QED
      BY <2>3, <2>4, <2>5
<1>6. Stable(State, shortSeen)'
  <2>1. shortSeen' \in BOOLEAN
        BY <1>1 DEF PairInv
  <2> QED
      BY <1>4, <1>5, <2>1 DEF Stable
<1>7. HeadingTime(lastHeading)'
  <2>1. HeadingTime(lastHeading) /\ None \notin Int
        BY PairingAssumption DEF PairInv
  <2> QED
      BY <1>1, <2>1 DEF HeadingTime
<1>8. Start <= clock' /\ clock' \in Nat
      BY <1>1
<1> QED
    BY <1>1, <1>6, <1>7, <1>8 DEF PairInv

LEMMA EmptyState ==
  ASSUME clock' \in Nat, Start <= clock',
         partners' = [topic \in Topics |-> <<>>], held' = [topic \in Topics |-> <<>>],
         seen' = [topic \in Topics |-> FALSE], shortSeen' = FALSE, lastHeading' = None,
         sent' = [topic \in Topics |-> None]
  PROVE  PairInv'
<1>1. /\ DOMAIN State' = Fields /\ State'.partners = partners' /\ State'.held = held'
      /\ State'.sent = sent'
      BY DEF State, Fields
<1>2. Shaped(State)'
      BY <1>1 DEF Shaped
<1>3. /\ <<>> \in Seq(Entries) /\ Len(<<>>) = 0 /\ DOMAIN <<>> = {}
      /\ 0 <= MaxHeld /\ 0 <= MaxHistory
      BY EmptySeq, PairingAssumption
<1>4. ASSUME NEW topic \in Topics
      PROVE  /\ GoodHeld(State.held[topic], topic, shortSeen)'
             /\ GoodLog(State.partners[topic], topic, shortSeen)'
             /\ GoodMessage(State.sent[topic])'
  <2>1. State'.held[topic] = <<>> /\ State'.partners[topic] = <<>> /\ State'.sent[topic] = None
        BY <1>1
  <2>2. Came(State.held[topic])' /\ Came(State.partners[topic])'
        BY <1>3, <2>1 DEF Came
  <2>3. GoodHeld(State.held[topic], topic, shortSeen)'
        BY <1>3, <2>1, <2>2 DEF GoodHeld, Every
  <2>4. GoodLog(State.partners[topic], topic, shortSeen)'
        BY <1>3, <2>1, <2>2 DEF GoodLog, Every, Distinct
  <2>5. GoodMessage(State.sent[topic])'
        BY <2>1 DEF GoodMessage, Dated
  <2> QED
      BY <2>3, <2>4, <2>5
<1>5. Stable(State, shortSeen)'
      BY <1>2, <1>4 DEF Stable
<1> QED
    BY <1>5 DEF PairInv, HeadingTime

(* A step is a tick, a reset, or a move. *)
LEMMA StepIs ==
  ASSUME PairInv, Next
  PROVE  Tick \/ Reset \/ \E next : Moves(next)
<1>1. CASE FlushPending
      BY <1>1, FlushMoves
<1>2. CASE \E lag \in 0 .. MaxLag : EkfQuat(lag)
      BY <1>2, EkfQuatMoves
<1>3. CASE \E lag \in 0 .. MaxLag : GnssHdt(lag)
      BY <1>3, GnssHdtMoves
<1>4. CASE \E lag \in 0 .. MaxLag : \E kind \in ImuLogs : ImuLog(kind, lag)
      BY <1>4, ImuLogMoves
<1> QED
    BY <1>1, <1>2, <1>3, <1>4 DEF Next

LEMMA PairInit ==
  ASSUME Init
  PROVE  PairInv
<1>1. /\ clock \in Nat /\ Start <= clock
      BY PairingAssumption DEF Init
<1>2. /\ DOMAIN State = Fields /\ State.partners = partners /\ State.held = held /\ State.sent = sent
      BY DEF State, Fields
<1>3. Shaped(State)
      BY <1>2 DEF Shaped, Init
<1>4. /\ <<>> \in Seq(Entries) /\ Len(<<>>) = 0 /\ DOMAIN <<>> = {}
      /\ 0 <= MaxHeld /\ 0 <= MaxHistory
      BY EmptySeq, PairingAssumption
<1>5. Came(<<>>) /\ Distinct(<<>>)
      BY <1>4 DEF Came, Distinct
<1>6. ASSUME NEW topic \in Topics
      PROVE  /\ GoodHeld(State.held[topic], topic, shortSeen)
             /\ GoodLog(State.partners[topic], topic, shortSeen)
             /\ GoodMessage(State.sent[topic])
  <2>1. State.held[topic] = <<>> /\ State.partners[topic] = <<>> /\ State.sent[topic] = None
        BY <1>2 DEF Init
  <2>2. GoodHeld(State.held[topic], topic, shortSeen)
        BY <1>4, <1>5, <2>1 DEF GoodHeld, Every
  <2>3. GoodLog(State.partners[topic], topic, shortSeen)
        BY <1>4, <1>5, <2>1 DEF GoodLog, Every
  <2>4. GoodMessage(State.sent[topic])
        BY <2>1 DEF GoodMessage, Dated
  <2> QED
      BY <2>2, <2>3, <2>4
<1>7. Stable(State, shortSeen)
      BY <1>3, <1>6 DEF Stable, Init
<1> QED
    BY <1>1, <1>7 DEF PairInv, Init, HeadingTime

LEMMA PairStep ==
  ASSUME PairInv, [Next]_vars
  PROVE  PairInv'
<1>1. CASE UNCHANGED vars
  <2>1. PairInv' <=> PairInv
    <3>1. /\ clock' = clock /\ partners' = partners /\ held' = held /\ sent' = sent
          /\ seen' = seen /\ shortSeen' = shortSeen /\ lastHeading' = lastHeading
          BY <1>1 DEF vars, pairing
    <3> QED
        BY <3>1 DEF PairInv, HeadingTime, Stable, Shaped, GoodHeld, GoodLog, GoodMessage, Dated, Came,
                    Distinct, Every, HeldKind, PartnerKind, Stream, State
  <2> QED
      BY <2>1
<1>2. CASE Tick
      BY <1>2, TickKeeps
<1>3. CASE Reset
  <2>1. clock' \in Nat /\ Start <= clock'
        BY <1>3 DEF Reset, PairInv
  <2> QED
      BY <1>3, <2>1, EmptyState DEF Reset
<1>4. CASE \E next : Moves(next)
      BY <1>4, MovesKeep
<1> QED
    BY <1>1, <1>2, <1>3, <1>4, StepIs

-----------------------------------------------------------------------------
(* The theorems.                                                           *)

LEMMA PairAlways == Spec => []PairInv
<1>1. Init => PairInv
      BY PairInit
<1>2. PairInv /\ [Next]_vars => PairInv'
      BY PairStep
<1> QED
    BY <1>1, <1>2, PTL DEF Spec

(* The histories, the queues and what is published have their types, and   *)
(* no history or queue outgrows its limit.                                 *)
THEOREM TypeCorrect == Spec => []TypeOK
<1>1. PairInv => TypeOK
  <2> SUFFICES ASSUME PairInv PROVE TypeOK
      OBVIOUS
  <2>1. /\ partners = [topic \in Topics |-> partners[topic]]
        /\ held = [topic \in Topics |-> held[topic]] /\ sent = [topic \in Topics |-> sent[topic]]
        /\ \A topic \in Topics :
             /\ partners[topic] \in Seq(Entries) /\ held[topic] \in Seq(Entries)
             /\ Len(partners[topic]) <= MaxHistory /\ Len(held[topic]) <= MaxHeld
             /\ sent[topic] \in Messages \cup {None}
    <3>1. Stable(State, shortSeen)
          BY DEF PairInv
    <3>2. /\ partners = [topic \in Topics |-> partners[topic]]
          /\ held = [topic \in Topics |-> held[topic]] /\ sent = [topic \in Topics |-> sent[topic]]
          BY <3>1, StateIs DEF Stable, Shaped
    <3>3. \A topic \in Topics :
             /\ partners[topic] \in Seq(Entries) /\ held[topic] \in Seq(Entries)
             /\ Len(partners[topic]) <= MaxHistory /\ Len(held[topic]) <= MaxHeld
             /\ sent[topic] \in Messages \cup {None}
          BY <3>1, StateIs DEF Stable, GoodHeld, GoodLog, GoodMessage, Came
    <3> QED
        BY <3>2, <3>3
  <2>2. /\ partners \in [Topics -> Seq(Entries)] /\ held \in [Topics -> Seq(Entries)]
        /\ sent \in [Topics -> Messages \cup {None}]
        BY <2>1
  <2> QED
      BY <2>1, <2>2 DEF TypeOK, PairInv, HeadingTime
<1> QED
    BY <1>1, PairAlways, PTL

(* After the first IMU_SHORT of a session, what is published is of no      *)
(* other stream of IMU samples, and is oriented by no other.               *)
THEOREM OneStream == Spec => OneSource
<1> DEFINE A == \A topic \in Topics :
                  shortSeen /\ shortSeen' /\ sent'[topic] # sent[topic] =>
                    /\ sent'[topic].kind # "ImuData"
                    /\ sent'[topic].partner # None => sent'[topic].partner.kind # "ImuData"
<1>1. ASSUME PairInv, [Next]_vars PROVE A
  <2> SUFFICES ASSUME NEW topic \in Topics, shortSeen, shortSeen', sent'[topic] # sent[topic]
               PROVE  /\ sent'[topic].kind # "ImuData"
                      /\ sent'[topic].partner # None => sent'[topic].partner.kind # "ImuData"
      OBVIOUS
  <2>1. PICK next : Moves(next)
    <3>1. Next
          BY <1>1 DEF vars, pairing
    <3>2. ~Tick /\ ~Reset
          BY DEF Tick, pairing, Reset
    <3> QED
        BY <1>1, <3>1, <3>2, StepIs
  <2>2. sent' = next.sent /\ Speaks(State, next, shortSeen)
    <3>1. shortSeen = TRUE /\ shortSeen' = TRUE
          BY <2>1 DEF Moves, Flags, PairInv
    <3> QED
        BY <1>1, <2>1, <3>1 DEF Moves, Becomes
  <2>3. OfStream(sent'[topic], topic, shortSeen)
        BY <2>2, StateIs DEF Speaks
  <2> QED
      BY <2>3 DEF OfStream, HeldKind, PartnerKind, Stream
<1>2. PairInv /\ [Next]_vars => [A]_vars
      BY <1>1
<1> QED
    BY <1>2, PairAlways, PTL DEF Spec, OneSource, A

(* No sample outlives its deadline: after any log or poll every one that   *)
(* is held has time left.                                                  *)
THEOREM NoneOverdue == Spec => HeldInTime
<1> DEFINE A == clock' = clock =>
                  \A topic \in Topics : \A i \in DOMAIN held'[topic] :
                    clock - held'[topic][i].received < Wait
<1>1. ASSUME PairInv, Next PROVE A
  <2>1. CASE Tick
    <3>1. clock' = clock + 1 /\ clock \in Nat
          BY <1>1, <2>1 DEF Tick, PairInv
    <3>2. clock' # clock
          BY <3>1
    <3> QED
        BY <3>2
  <2>2. CASE Reset
    <3>1. \A topic \in Topics : held'[topic] = <<>>
          BY <2>2 DEF Reset
    <3>2. \A topic \in Topics : DOMAIN held'[topic] = {}
          BY <3>1
    <3> QED
        BY <3>2
  <2>3. CASE \E next : Moves(next)
    <3>1. PICK next : Moves(next)
          BY <2>3
    <3>2. held' = next.held /\ \A topic \in Topics : Prompt(next, topic)
          BY <3>1 DEF Moves, Becomes
    <3> QED
        BY <3>2 DEF Prompt
  <2> QED
      BY <1>1, <2>1, <2>2, <2>3, StepIs
<1>2. PairInv /\ [Next]_vars => [A]_vars
      BY <1>1
<1> QED
    BY <1>2, PairAlways, PTL DEF Spec, HeldInTime, A

-----------------------------------------------------------------------------
(* The order of the headings.                                              *)

RisingInv == Rising(State, lastHeading)

LEMMA RisingStep ==
  ASSUME 2 * MaxLag < Wrap, PairInv, Recent, RisingInv, [Next]_vars
  PROVE  /\ RisingInv'
         /\ sent["heading"] # None /\ sent'["heading"] # None /\ sent'["heading"] # sent["heading"] =>
              sent'["heading"].time > sent["heading"].time
<1>1. CASE UNCHANGED vars \/ Tick
  <2>1. held' = held /\ sent' = sent /\ lastHeading' = lastHeading
        BY <1>1 DEF vars, pairing, Tick
  <2> QED
      BY <2>1, StateIs DEF RisingInv, Rising, State
<1>2. CASE Reset
  <2>1. held'["heading"] = <<>> /\ sent'["heading"] = None
        BY <1>2 DEF Reset, Topics
  <2>2. State'.held = held' /\ State'.sent = sent'
        BY DEF State
  <2>3. DOMAIN held'["heading"] = {}
        BY <2>1
  <2> QED
      BY <2>1, <2>2, <2>3 DEF RisingInv, Rising
<1>3. CASE \E next : Moves(next)
  <2>1. PICK next : Moves(next)
        BY <1>3
  <2>2. Rising(next, lastHeading') /\ Onward(State, next)
        BY <2>1 DEF Moves, InTime, RisingInv
  <2>3. held' = next.held /\ sent' = next.sent
        BY <2>1 DEF Moves, Becomes
  <2>4. State'.held = held' /\ State'.sent = sent'
        BY DEF State
  <2>5. RisingInv'
        BY <2>2, <2>3, <2>4 DEF RisingInv, Rising
  <2> QED
      BY <2>2, <2>3, <2>5, StateIs DEF Onward
<1> QED
    BY <1>1, <1>2, <1>3, StepIs

(* As long as the headings are compared within half a wrap, the map is     *)
(* never turned back to an old fix.                                        *)
THEOREM NoneTurnsBack ==
  ASSUME 2 * MaxLag < Wrap
  PROVE  Spec /\ []Recent => HeadingsForward
<1> DEFINE A == sent["heading"] # None /\ sent'["heading"] # None /\ sent'["heading"] # sent["heading"] =>
                  sent'["heading"].time > sent["heading"].time
<1>1. Init => RisingInv
  <2> SUFFICES ASSUME Init PROVE RisingInv
      OBVIOUS
  <2>1. State.held["heading"] = <<>> /\ State.sent["heading"] = None
        BY StateIs DEF Init, Topics
  <2>2. DOMAIN State.held["heading"] = {}
        BY <2>1
  <2> QED
      BY <2>1, <2>2 DEF RisingInv, Rising
<1>2. PairInv /\ Recent /\ RisingInv /\ [Next]_vars => RisingInv'
      BY RisingStep
<1>3. PairInv /\ Recent /\ RisingInv /\ [Next]_vars => [A]_vars
      BY RisingStep
<1> QED
    BY <1>1, <1>2, <1>3, PairAlways, PTL DEF Spec, HeadingsForward, A

-----------------------------------------------------------------------------
(* The best partner.                                                       *)

BestInv == \A topic \in Topics : Best(State, topic)

(* What was last published lies less than half a wrap back. *)
SentRecent == \A topic \in Topics : sent[topic] # None => 2 * (clock - sent[topic].time) < Wrap

LEMMA BestStep ==
  ASSUME LongHistories, PairInv, BestInv, [Next]_vars
  PROVE  BestInv'
<1> USE StateIs
<1>0. Stable(State, shortSeen) /\ clock \in Nat /\ MaxAge \in Nat
      BY PairingAssumption DEF PairInv
<1>1. CASE UNCHANGED vars
  <2>1. clock' = clock /\ State' = State /\ shortSeen' = shortSeen
        BY <1>1 DEF vars, pairing, State
  <2> QED
      BY <2>1 DEF BestInv, Best, Covers, SameStream
<1>2. CASE Tick
  <2>1. clock' = clock + 1 /\ State' = State /\ shortSeen' = shortSeen
        BY <1>2 DEF Tick, pairing, State
  <2>2. ASSUME NEW topic \in Topics PROVE Best(State, topic)'
    <3> DEFINE message == State.sent[topic]
               log == State.partners[topic]
               time == message.time + Radius(topic, message)
    <3>1. State'.sent[topic] = message /\ State'.partners[topic] = log
          BY <2>1
    <3>2. SUFFICES ASSUME message # None, message.early, SameStream(topic, message)
                   PROVE  Covers(log, time)'
          BY <2>1, <3>1 DEF Best, SameStream
    <3>3. Covers(log, time)
          BY <3>2 DEF BestInv, Best
    <3>4. time \in Int
          BY <1>0, <3>2, RadiusType
    <3> HIDE DEF time, message, log
    <3>5. time < clock - MaxAge => time < clock' - MaxAge
          BY <1>0, <2>1, <3>4
    <3>6. Covers(log, time)' <=> (\E i \in DOMAIN log : log[i].time >= time) \/ time < clock' - MaxAge
          BY <2>1, <3>1 DEF Covers, message, log, time
    <3> QED
        BY <3>3, <3>5, <3>6 DEF Covers
  <2> QED
      BY <2>2 DEF BestInv
<1>3. CASE Reset
  <2>1. \A topic \in Topics : State'.sent[topic] = None
        BY <1>3 DEF Reset, State
  <2> QED
      BY <2>1 DEF BestInv, Best
<1>4. CASE \E next : Moves(next)
  <2>1. PICK next : Moves(next)
        BY <1>4
  <2>2. /\ clock' = clock /\ State'.sent = next.sent /\ State'.partners = next.partners
        /\ shortSeen \in BOOLEAN /\ shortSeen' \in BOOLEAN /\ (shortSeen => shortSeen')
        BY <2>1 DEF Moves, Flags, Becomes, State, PairInv
  <2>3. ASSUME NEW topic \in Topics, topic = "imu" \/ shortSeen' = shortSeen PROVE Best(State, topic)'
    <3>1. Best(next, topic)
          BY <2>1, <2>3 DEF Moves, BestInv
    <3> QED
        BY <2>2, <2>3, <3>1 DEF Best, Covers, SameStream
  <2>4. ASSUME shortSeen' # shortSeen PROVE Best(State, "heading")'
    <3>1. shortSeen = FALSE /\ shortSeen' = TRUE
          BY <2>2, <2>4
    <3>2. GoodMessage(next.sent["heading"])
          BY <2>1 DEF Moves, Good, Stable, Topics
    <3>3. next.sent["heading"] # None => next.sent["heading"].short # TRUE
          BY <3>1, <3>2 DEF GoodMessage, Dated
    <3> QED
        BY <2>2, <3>1, <3>3 DEF Best, SameStream
  <2> QED
      BY <2>3, <2>4 DEF BestInv, Topics
<1> QED
    BY <1>1, <1>2, <1>3, <1>4, StepIs

(* A later partner is further away than the radius of what was published. *)
LEMMA LaterIsFurther ==
  ASSUME LongHistories, PairInv, BestInv, SentRecent, NEW next, Moves(next), NEW topic \in Topics,
         sent[topic] # None, sent[topic].early, SameStream(topic, sent[topic]), InOrder(topic)
  PROVE  Distance(Last(partners'[topic]).time, sent[topic].time) > Radius(topic, sent[topic])
<1> DEFINE message == sent[topic]
           log == partners'[topic]
           new == log[Len(log)]
           near == Radius(topic, message)
<1>1. /\ Stable(State, shortSeen) /\ clock \in Nat /\ MaxAge \in Nat /\ MaxLag \in Nat /\ Wrap \in Nat
      /\ MaxLag <= MaxAge
      BY PairingAssumption, WrapAssumption DEF PairInv, LongHistories
<1>2. /\ message.time \in Int /\ near \in Nat /\ message.time <= clock
      /\ 2 * (clock - message.time) < Wrap
  <2>1. State.sent[topic] = message /\ message # None
        BY StateIs
  <2>2. message.time \in Int /\ near \in Nat
        BY <1>1, <2>1, SentTime, RadiusType
  <2>3. GoodMessage(message)
        BY <1>1, <2>1 DEF Stable
  <2> QED
      BY <2>1, <2>2, <2>3 DEF SentRecent, GoodMessage, Dated
<1>3. /\ log = next.partners[topic] /\ Came(log)
      /\ \A entry \in ToSet(log) : entry \in ToSet(partners[topic]) \/ entry.received = clock
      BY DEF Moves, Becomes, News, Good, Stable, GoodLog
<1>4. /\ Len(log) > 0 /\ new \notin ToSet(partners[topic])
      /\ \A i \in DOMAIN partners[topic] : partners[topic][i].time < Last(log).time
      BY DEF InOrder
<1>5. Last(log) = new
      BY DEF Last
<1> HIDE DEF log, message, near
<1>6. Len(log) \in DOMAIN log /\ new.time \in Int /\ new.received \in Int
  <2> DEFINE size == Len(log)
  <2>1. size \in Nat /\ DOMAIN log = 1 .. size /\ \A i \in 1 .. size : log[i].time \in Int /\ log[i].received \in Int
        BY <1>3, QueueTyped DEF Came
  <2>2. size \in 1 .. size
    <3>1. size > 0
          BY <1>4
    <3> HIDE DEF size
    <3> QED
        BY <2>1, <3>1
  <2> QED
      BY <2>1, <2>2
<1>7. new.received = clock
  <2>1. new \in ToSet(log)
        BY <1>6 DEF ToSet
  <2> QED
      BY <1>3, <1>4, <2>1
<1>8. new.time <= clock /\ clock <= new.time + MaxLag
      BY <1>3, <1>6, <1>7 DEF Came
<1>9. Covers(partners[topic], message.time + near)
      BY StateIs DEF BestInv, Best, message, near
<1>10. new.time > message.time + near
  <2>1. CASE \E i \in DOMAIN partners[topic] : partners[topic][i].time >= message.time + near
    <3>1. PICK i \in DOMAIN partners[topic] : partners[topic][i].time >= message.time + near
          BY <2>1
    <3>2. partners[topic][i].time \in Int /\ partners[topic][i].time < new.time
      <4>1. Came(partners[topic])
            BY <1>1, StateIs DEF Stable, GoodLog
      <4> QED
          BY <1>4, <1>5, <4>1, QueueTyped DEF Came
    <3> HIDE DEF new
    <3> QED
        BY <1>2, <1>6, <3>1, <3>2
  <2>2. CASE message.time + near < clock - MaxAge
    <3> HIDE DEF new
    <3> QED
        BY <1>1, <1>2, <1>6, <1>8, <2>2
  <2> QED
      BY <1>9, <2>1, <2>2 DEF Covers
<1> DEFINE time == new.time
<1>11. /\ time \in Int /\ time <= clock /\ time > message.time + near
       BY <1>6, <1>8, <1>10
<1> HIDE DEF new, time
<1>12. SignedDelta(time, message.time) = time - message.time
  <2>1. 2 * (time - message.time) < Wrap /\ 2 * (message.time - time) < Wrap
        BY <1>1, <1>2, <1>11
  <2> QED
      BY <1>2, <1>11, <2>1, DeltaIs
<1>13. Distance(time, message.time) > near
  <2>1. time - message.time > near
        BY <1>2, <1>11
  <2> QED
      BY <1>2, <1>11, <1>12, <2>1 DEF Distance
<1> QED
    BY <1>5, <1>13 DEF time, log, message, near

(* What is published before its deadline has the best partner there will   *)
(* be, where the histories are long enough for the delays of the logs and  *)
(* the wrap is long enough for them.                                       *)
THEOREM BestPartnersUsed ==
  ASSUME LongHistories
  PROVE  Spec /\ []SentRecent => NothingCloserComes
<1> DEFINE A ==
      \A topic \in Topics :
        LET message == sent[topic]
            later == Distance(Last(partners'[topic]).time, message.time)
        IN  message # None /\ message.early /\ SameStream(topic, message) /\ InOrder(topic) =>
              IF message.partner = None THEN later > Tolerance[topic]
              ELSE later >= Distance(message.partner.time, message.time)
<1>1. Init => BestInv
  <2>1. Init => \A topic \in Topics : State.sent[topic] = None
        BY StateIs DEF Init
  <2> QED
      BY <2>1 DEF BestInv, Best
<1>2. PairInv /\ BestInv /\ [Next]_vars => BestInv'
      BY BestStep
<1>3. ASSUME PairInv, BestInv, SentRecent, [Next]_vars PROVE A
  <2> SUFFICES ASSUME NEW topic \in Topics,
                      sent[topic] # None, sent[topic].early, SameStream(topic, sent[topic]), InOrder(topic)
               PROVE  LET later == Distance(Last(partners'[topic]).time, sent[topic].time)
                      IN  IF sent[topic].partner = None THEN later > Tolerance[topic]
                          ELSE later >= Distance(sent[topic].partner.time, sent[topic].time)
      OBVIOUS
  <2>1. PICK next : Moves(next)
    <3>1. CASE partners' = partners
      <4>1. Came(partners[topic])
            BY <1>3, StateIs DEF PairInv, Stable, GoodLog
      <4> DEFINE size == Len(partners[topic])
      <4>2. size \in Nat /\ DOMAIN partners[topic] = 1 .. size
            BY <4>1, QueueTyped DEF Came
      <4>3. size > 0 /\ partners[topic][size] \notin ToSet(partners[topic])
            BY <3>1 DEF InOrder
      <4>4. size \in 1 .. size
        <5> HIDE DEF size
        <5> QED
            BY <4>2, <4>3
      <4> QED
          BY <4>2, <4>3, <4>4 DEF ToSet
    <3>2. CASE Reset
      <4>1. Len(partners'[topic]) = 0
            BY <3>2, EmptySeq DEF Reset
      <4> QED
          BY <4>1 DEF InOrder
    <3>3. UNCHANGED vars \/ Tick => partners' = partners
          BY DEF vars, pairing, Tick
    <3> QED
        BY <1>3, <3>1, <3>2, <3>3, StepIs
  <2> DEFINE later == Distance(Last(partners'[topic]).time, sent[topic].time)
             near == Radius(topic, sent[topic])
  <2>2. later > near
        BY <1>3, <2>1, LaterIsFurther
  <2>3. later \in Int /\ near \in Nat /\ Tolerance[topic] \in Nat
    <3>1. near \in Nat /\ Tolerance[topic] \in Nat
          BY <1>3, StateIs, RadiusType, PairingAssumption DEF PairInv
    <3>2. later \in Int
      <4> DEFINE log == partners'[topic]
      <4>1. log = next.partners[topic] /\ Came(log)
            BY <2>1 DEF Moves, Becomes, Good, Stable, GoodLog
      <4>2. Len(log) \in DOMAIN log
        <5> DEFINE size == Len(log)
        <5>1. size \in Nat /\ DOMAIN log = 1 .. size
              BY <4>1, QueueTyped DEF Came
        <5>2. size > 0
              BY DEF InOrder
        <5>3. size \in 1 .. size
          <6> HIDE DEF size
          <6> QED
              BY <5>1, <5>2
        <5> QED
            BY <5>1, <5>3
      <4>3. log[Len(log)].time \in Int
            BY <4>1, <4>2, QueueTyped DEF Came
      <4>4. sent[topic].time \in Int
            BY <1>3, StateIs, SentTime DEF PairInv
      <4>5. Last(log) = log[Len(log)]
            BY DEF Last
      <4> HIDE DEF log
      <4>6. Distance(Last(log).time, sent[topic].time) \in Nat
            BY <4>3, <4>4, <4>5, DistanceType
      <4> QED
          BY <4>6 DEF log
    <3> QED
        BY <3>1, <3>2
  <2>4. near = IF sent[topic].partner = None THEN Tolerance[topic] + 1
               ELSE Distance(sent[topic].partner.time, sent[topic].time)
        BY DEF Radius
  <2> HIDE DEF later, near
  <2>5. IF sent[topic].partner = None THEN later > Tolerance[topic]
        ELSE later >= Distance(sent[topic].partner.time, sent[topic].time)
    <3>1. CASE sent[topic].partner = None
      <4>1. near = Tolerance[topic] + 1
            BY <2>4, <3>1
      <4>2. later > Tolerance[topic]
            BY <2>2, <2>3, <4>1
      <4> QED
          BY <3>1, <4>2
    <3>2. CASE sent[topic].partner # None
      <4>1. near = Distance(sent[topic].partner.time, sent[topic].time)
            BY <2>4, <3>2
      <4>2. later >= near
            BY <2>2, <2>3
      <4> QED
          BY <3>2, <4>1, <4>2
    <3> QED
        BY <3>1, <3>2
  <2> QED
      BY <2>5 DEF later
<1>4. PairInv /\ BestInv /\ SentRecent /\ [Next]_vars => [A]_vars
      BY <1>3
<1> QED
    BY <1>1, <1>2, <1>4, PairAlways, PTL DEF Spec, NothingCloserComes, A

-----------------------------------------------------------------------------
(* Sessions shorter than half a wrap.                                      *)

ShortSession == Start <= MaxTime /\ 2 * (MaxTime + MaxLag - Start) < Wrap

LEMMA ShortSessionsAreRecent ==
  ASSUME ShortSession
  PROVE  Spec => []Recent /\ []SentRecent
<1> DEFINE ClockInv == clock \in Nat /\ clock <= MaxTime
<1>0. MaxTime \in Nat /\ MaxLag \in Nat /\ Start \in Nat /\ Wrap \in Nat /\ Wrap > 0
      BY PairingAssumption, WrapAssumption
<1>1. Init => ClockInv
      BY <1>0 DEF Init, ShortSession
<1>2. ASSUME PairInv, ClockInv, [Next]_vars PROVE ClockInv'
  <2>1. CASE Tick
        BY <1>0, <1>2, <2>1 DEF Tick
  <2>2. CASE UNCHANGED vars \/ Reset \/ \E next : Moves(next)
    <3>1. clock' = clock
          BY <2>2 DEF vars, Reset, Moves, Flags
    <3> QED
        BY <1>2, <3>1
  <2> QED
      BY <1>2, <2>1, <2>2, StepIs
<1>3. ASSUME PairInv, ClockInv PROVE Recent /\ SentRecent
  <2>1. ASSUME NEW time \in Int, Start - MaxLag <= time PROVE 2 * (clock - time) < Wrap
    <3>1. clock - time <= MaxTime + MaxLag - Start
          BY <1>0, <1>3, <2>1
    <3>2. 2 * (MaxTime + MaxLag - Start) < Wrap
          BY DEF ShortSession
    <3> QED
        BY <1>0, <1>3, <2>1, <3>1, <3>2
  <2>2. Recent
        BY <1>3, <2>1 DEF Recent, PairInv, HeadingTime
  <2>3. ASSUME NEW topic \in Topics, sent[topic] # None PROVE 2 * (clock - sent[topic].time) < Wrap
    <3>1. Stable(State, shortSeen) /\ State.sent[topic] = sent[topic]
          BY <1>3, StateIs DEF PairInv
    <3>2. sent[topic].time \in Int
          BY <2>3, <3>1, SentTime
    <3>3. Start - MaxLag <= sent[topic].time
          BY <2>3, <3>1 DEF Stable, GoodMessage, Dated
    <3> QED
        BY <2>1, <3>2, <3>3
  <2> QED
      BY <2>2, <2>3 DEF SentRecent
<1> QED
    BY <1>1, <1>2, <1>3, PairAlways, PTL DEF Spec

(* In such a session the headings are in order, and every topic has the    *)
(* best partners.                                                          *)
COROLLARY ShortSessionsInOrder ==
  ASSUME ShortSession
  PROVE  Spec => HeadingsForward
<1>1. 2 * MaxLag < Wrap
      BY PairingAssumption, WrapAssumption DEF ShortSession
<1> QED
    BY <1>1, ShortSessionsAreRecent, NoneTurnsBack, PTL

COROLLARY ShortSessionsUseTheBest ==
  ASSUME ShortSession, LongHistories
  PROVE  Spec => NothingCloserComes
BY ShortSessionsAreRecent, BestPartnersUsed, PTL

=============================================================================
