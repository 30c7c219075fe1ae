-------------------------- MODULE TelemetryProofs ---------------------------
(***************************************************************************)
(* Proofs about Telemetry, for every window, threshold and settling time:  *)
(* the deque that drops and forgets old changes still counts those of the  *)
(* last hour, the flow is only judged when it has settled, and the issue   *)
(* follows the data.                                                       *)
(***************************************************************************)
EXTENDS Telemetry, FiniteSetTheorems, SequenceTheorems, TLAPS

Ages == 0 .. Hour + 1
Readings == [delta_t : {None, "normal", "high"}, flow_restricted : {None} \cup BOOLEAN,
             mode_switches : Nat, switches_per_hour : Nat]

TypeOK ==
  /\ pump \in {"on", "off"}
  /\ circulating_since \in {None} \cup 0 .. Settle
  /\ switch_times \in Seq(Ages) /\ mode_switches \in Nat
  /\ data \in Readings /\ result \in Readings
  /\ issue \in BOOLEAN /\ loaded \in BOOLEAN /\ strayed \in BOOLEAN
  /\ polls \subseteq [age : 0 .. Settle, running : BOOLEAN]
  /\ switches \in Seq(Ages)

\* The oldest comes first.
Sorted(ages) == \A i, j \in 1 .. Len(ages) : i <= j => ages[i] >= ages[j]

\* A deque holds the latest of the changes seen; it lacks one of the last hour only when
\* it is full.
Holds(times, seen) ==
  LET dropped == Len(seen) - Len(times)
  IN /\ times \in Seq(Ages) /\ seen \in Seq(Ages)
     /\ Len(times) <= MaxLen /\ dropped >= 0
     /\ \A i \in 1 .. Len(times) : times[i] = seen[dropped + i]
     /\ Sorted(seen)
     /\ Len(times) = MaxLen \/ \A i \in 1 .. dropped : seen[i] > Hour

DequeInv == Holds(switch_times, switches) /\ Len(switch_times) <= mode_switches

\* Some poll saw the pump running that long ago, and every later one has.
Settled(since, made) ==
  \E p \in made : /\ p.running /\ p.age = since
                  /\ \A q \in made : q.age < since => q.running

CirculatingInv == circulating_since # None => Settled(circulating_since, polls)

IInv == TypeOK /\ DequeInv /\ CirculatingInv /\ IssueMatchesData

-----------------------------------------------------------------------------
(* The deque. *)

LEMMA Constants ==
  /\ Settle \in Nat \ {0} /\ Hour \in Nat \ {0} /\ Threshold \in Nat \ {0}
  /\ MaxLen \in Nat \ {0} /\ 0 \in Ages /\ \A a \in Ages : a \in Nat
  /\ None \notin Nat /\ None \notin BOOLEAN
  BY TelemetryAssumption DEF Ages

LEMMA IntervalSize ==
  ASSUME NEW n \in Nat
  PROVE  IsFiniteSet(1 .. n) /\ Cardinality(1 .. n) = n
<1>1. 1 \in Int /\ n \in Int /\ (IF 1 > n THEN 0 ELSE n - 1 + 1) = n
  OBVIOUS
<1> QED BY <1>1, FS_Interval

\* A set of positions that has every position before one of its own is 1 .. n.
LEMMA DownClosed ==
  ASSUME NEW N \in Nat, NEW S \in SUBSET (1 .. N), \A n \in S : 1 .. n \subseteq S
  PROVE  Cardinality(S) \in 0 .. N /\ S = 1 .. Cardinality(S)
<1>0. \A n \in Nat : IsFiniteSet(1 .. n) /\ Cardinality(1 .. n) = n
  BY IntervalSize
<1>1. /\ IsFiniteSet(S) /\ Cardinality(S) \in Nat /\ Cardinality(S) <= N
  <2>1. IsFiniteSet(S) /\ Cardinality(S) <= Cardinality(1 .. N)
    BY <1>0, FS_Subset
  <2> QED BY <1>0, <2>1, FS_CardinalityType
<1>2. ASSUME NEW n \in S PROVE n \in 1 .. Cardinality(S)
  <2>1. 1 .. n \in SUBSET S /\ n \in 1 .. N
    OBVIOUS
  <2>2. Cardinality(1 .. n) = n
    BY <1>0, <2>1
  <2>3. Cardinality(1 .. n) <= Cardinality(S)
    BY <1>1, <2>1, FS_Subset
  <2> QED BY <1>1, <2>1, <2>2, <2>3
<1>3. ASSUME NEW n \in 1 .. Cardinality(S), n \notin S PROVE FALSE
  <2>1. ASSUME NEW k \in S PROVE k \in 1 .. n - 1
    <3>1. k < n
      BY <1>1, <1>3, n \in 1 .. k => n \in S
    <3> QED BY <3>1, <1>1
  <2>2. n - 1 \in Nat /\ IsFiniteSet(1 .. n - 1) /\ Cardinality(1 .. n - 1) = n - 1
    BY <1>0, <1>1
  <2>3. Cardinality(S) <= n - 1
    BY <2>1, <2>2, FS_Subset
  <2> QED BY <1>1, <2>3
<1>4. S = 1 .. Cardinality(S)
  BY <1>2, <1>3
<1> QED BY <1>1, <1>4

\* The loop pops the oldest changes, and stops at one that is not older than the hour.
LEMMA ExpiredPrefix ==
  ASSUME NEW times \in Seq(Ages)
  PROVE  /\ Expired(times) \in 0 .. Len(times)
         /\ \A i \in 1 .. Expired(times) : times[i] > Hour
         /\ Expired(times) < Len(times) => times[Expired(times) + 1] <= Hour
<1> DEFINE S == {n \in DOMAIN times : \A i \in 1 .. n : times[i] > Hour}
           e == Cardinality(S)
<1>1. Len(times) \in Nat /\ DOMAIN times = 1 .. Len(times)
  BY LenProperties
<1>2. S \in SUBSET (1 .. Len(times)) /\ \A n \in S : 1 .. n \subseteq S
  BY <1>1
<1>3. e \in 0 .. Len(times) /\ S = 1 .. e
  BY <1>1, <1>2, DownClosed
<1>4. \A i \in 1 .. e : times[i] > Hour
  <2> SUFFICES ASSUME NEW i \in 1 .. e PROVE times[i] > Hour
    OBVIOUS
  <2>1. i \in S
    BY <1>3
  <2> QED BY <1>1, <2>1
<1>5. ASSUME e < Len(times) PROVE times[e + 1] <= Hour
  <2>0. e \in Nat
    BY <1>1, <1>3
  <2>1. e + 1 \in 1 .. Len(times) /\ e + 1 \notin S
    <3>1. e + 1 \notin 1 .. e
      BY <2>0
    <3>2. e + 1 \in 1 .. Len(times)
      BY <1>1, <1>5, <2>0
    <3> HIDE DEF S, e
    <3> QED BY <1>3, <3>1, <3>2
  <2>2. \E i \in 1 .. e + 1 : ~ (times[i] > Hour)
    BY <1>1, <2>1
  <2>3. ~ (times[e + 1] > Hour)
    BY <1>3, <1>4, <2>2
  <2>4. times[e + 1] \in Nat
    BY <2>1, ElementOfSeq, Constants
  <2> QED BY <2>3, <2>4, Constants
<1>6. Expired(times) = e
  BY DEF Expired
<1> HIDE DEF e
<1> QED BY <1>3, <1>4, <1>5, <1>6

LEMMA RecentShape ==
  ASSUME NEW times \in Seq(Ages)
  PROVE  /\ Recent(times) \in Seq(Ages)
         /\ Len(Recent(times)) = Len(times) - Expired(times)
         /\ \A i \in 1 .. Len(Recent(times)) : Recent(times)[i] = times[Expired(times) + i]
<1> DEFINE e == Expired(times)
<1>1. e \in 0 .. Len(times) /\ Len(times) \in Nat
  BY ExpiredPrefix, LenProperties
<1> HIDE DEF e
<1>2. \A i \in e + 1 .. Len(times) : times[i] \in Ages
  BY <1>1, ElementOfSeq
<1>3. e + 1 \in Int /\ Len(times) \in Int
  BY <1>1
<1>4. /\ SubSeq(times, e + 1, Len(times)) \in Seq(Ages)
      /\ Len(SubSeq(times, e + 1, Len(times))) =
           IF e + 1 <= Len(times) THEN Len(times) - (e + 1) + 1 ELSE 0
      /\ \A i \in 1 .. Len(times) - (e + 1) + 1 :
           SubSeq(times, e + 1, Len(times))[i] = times[e + 1 + i - 1]
  BY <1>2, <1>3, SubSeqProperties
<1>5. Recent(times) = SubSeq(times, e + 1, Len(times))
  BY DEF Recent, e
<1>6. Len(Recent(times)) = Len(times) - e
  BY <1>1, <1>4, <1>5
<1>7. \A i \in 1 .. Len(times) - e : Recent(times)[i] = times[e + i]
  BY <1>1, <1>4, <1>5
<1> QED BY <1>4, <1>5, <1>6, <1>7 DEF e

LEMMA AppendTimeShape ==
  ASSUME NEW times \in Seq(Ages), Len(times) <= MaxLen
  PROVE  LET d == IF Len(times) = MaxLen THEN 1 ELSE 0
         IN /\ AppendTime(times) \in Seq(Ages)
            /\ Len(AppendTime(times)) = Len(times) - d + 1
            /\ \A i \in 1 .. Len(times) - d : AppendTime(times)[i] = times[d + i]
            /\ AppendTime(times)[Len(times) - d + 1] = 0
<1>1. Len(times) \in Nat /\ 0 \in Ages /\ MaxLen \in Nat \ {0}
  BY LenProperties, Constants
<1>2. CASE Len(times) = MaxLen
  <2>1. times # << >>
    BY <1>1, <1>2
  <2>2. /\ Tail(times) \in Seq(Ages) /\ Len(Tail(times)) = Len(times) - 1
        /\ \A i \in 1 .. Len(times) - 1 : Tail(times)[i] = times[i + 1]
    BY <2>1, HeadTailProperties
  <2>3. AppendTime(times) = Append(Tail(times), 0)
    BY <1>2 DEF AppendTime
  <2> QED BY <1>1, <1>2, <2>2, <2>3, AppendProperties
<1>3. CASE Len(times) # MaxLen
  BY <1>1, <1>3, AppendProperties DEF AppendTime
<1> QED BY <1>2, <1>3

\* A change is seen: both get a new one.
LEMMA HoldsAppend ==
  ASSUME NEW times, NEW seen, Holds(times, seen)
  PROVE  Holds(AppendTime(times), Append(seen, 0))
<1> DEFINE d == IF Len(times) = MaxLen THEN 1 ELSE 0
           more == AppendTime(times)
           all == Append(seen, 0)
           dropped == Len(seen) - Len(times)
<1>1. /\ times \in Seq(Ages) /\ seen \in Seq(Ages) /\ Len(times) <= MaxLen
      /\ Len(times) \in Nat /\ Len(seen) \in Nat /\ dropped >= 0
      /\ MaxLen \in Nat \ {0} /\ 0 \in Ages /\ Hour \in Nat
  BY LenProperties, Constants DEF Holds
<1>2. /\ more \in Seq(Ages) /\ Len(more) = Len(times) - d + 1
      /\ \A i \in 1 .. Len(times) - d : more[i] = times[d + i]
      /\ more[Len(times) - d + 1] = 0
  BY <1>1, AppendTimeShape
<1>3. /\ all \in Seq(Ages) /\ Len(all) = Len(seen) + 1
      /\ \A i \in 1 .. Len(seen) : all[i] = seen[i]
      /\ all[Len(seen) + 1] = 0
  BY <1>1, AppendProperties
<1>4. \A i \in 1 .. Len(seen) : seen[i] \in Nat
  BY <1>1, ElementOfSeq, Constants
<1>11. /\ Len(times) # MaxLen => d = 0
       /\ Len(times) = MaxLen => d = 1
  OBVIOUS
<1> HIDE DEF d, more, all
<1>5. /\ d \in {0, 1} /\ Len(times) - d \in Nat /\ Len(all) - Len(more) = dropped + d
      /\ Len(times) # MaxLen => d = 0
      /\ Len(times) = MaxLen => d = 1
  <2>1. d \in {0, 1}
    BY <1>11
  <2>2. Len(times) - d \in Nat
    BY <1>1, <1>11
  <2>3. Len(more) = Len(times) - d + 1 /\ Len(all) = Len(seen) + 1
    BY <1>2, <1>3
  <2>4. Len(all) - Len(more) = dropped + d
    BY <1>1, <2>1, <2>3
  <2> QED BY <1>11, <2>1, <2>2, <2>4
<1>6. Len(more) <= MaxLen /\ Len(all) - Len(more) >= 0
  BY <1>1, <1>2, <1>5
<1>7. \A i \in 1 .. Len(more) : more[i] = all[Len(all) - Len(more) + i]
  <2> SUFFICES ASSUME NEW i \in 1 .. Len(more) PROVE more[i] = all[dropped + d + i]
    BY <1>5
  <2>1. CASE i = Len(times) - d + 1
    <3>1. dropped + d + i = Len(seen) + 1
      BY <1>1, <1>5, <2>1
    <3> QED BY <1>2, <1>3, <2>1, <3>1
  <2>2. CASE i # Len(times) - d + 1
    <3>1. i \in 1 .. Len(times) - d /\ d + i \in 1 .. Len(times)
      BY <1>1, <1>2, <1>5, <2>2
    <3>2. more[i] = seen[dropped + (d + i)]
      BY <1>2, <3>1 DEF Holds
    <3>3. dropped + d + i \in 1 .. Len(seen) /\ dropped + (d + i) = dropped + d + i
      BY <1>1, <1>5, <3>1
    <3> QED BY <1>3, <3>2, <3>3
  <2> QED BY <2>1, <2>2
<1>8. Sorted(all)
  <2> SUFFICES ASSUME NEW i \in 1 .. Len(seen) + 1, NEW j \in 1 .. Len(seen) + 1, i <= j
               PROVE  all[i] >= all[j]
    BY <1>3 DEF Sorted
  <2>1. CASE j = Len(seen) + 1
    <3>1. all[i] \in Nat /\ all[j] = 0
      BY <1>1, <1>3, <1>4, <2>1
    <3> QED BY <3>1
  <2>2. CASE j # Len(seen) + 1
    <3>1. i \in 1 .. Len(seen) /\ j \in 1 .. Len(seen)
      BY <1>1, <2>2
    <3> QED BY <1>3, <3>1 DEF Holds, Sorted
  <2> QED BY <2>1, <2>2
<1>9. Len(more) = MaxLen \/ \A i \in 1 .. Len(all) - Len(more) : all[i] > Hour
  <2>1. CASE Len(times) = MaxLen
    BY <1>1, <1>2, <1>5, <2>1
  <2>2. CASE Len(times) # MaxLen
    <3>1. \A i \in 1 .. dropped : seen[i] > Hour
      BY <2>2 DEF Holds
    <3>2. Len(all) - Len(more) = dropped /\ \A i \in 1 .. dropped : i \in 1 .. Len(seen)
      BY <1>1, <1>5, <2>2
    <3> QED BY <1>3, <3>1, <3>2
  <2> QED BY <2>1, <2>2
<1>10. Holds(more, all)
  BY <1>2, <1>3, <1>6, <1>7, <1>8, <1>9 DEF Holds
<1> QED BY <1>10 DEF more, all

\* Old changes are discarded: whatever was dropped before them is older still.
LEMMA HoldsRecent ==
  ASSUME NEW times, NEW seen, Holds(times, seen)
  PROVE  Holds(Recent(times), seen)
<1> DEFINE e == Expired(times)
           kept == Recent(times)
           dropped == Len(seen) - Len(times)
<1>1. /\ times \in Seq(Ages) /\ seen \in Seq(Ages) /\ Len(times) <= MaxLen
      /\ Len(times) \in Nat /\ Len(seen) \in Nat /\ dropped >= 0
      /\ MaxLen \in Nat /\ Hour \in Nat
      /\ \A i \in 1 .. Len(times) : times[i] = seen[dropped + i]
  BY LenProperties, Constants DEF Holds
<1>2. e \in 0 .. Len(times) /\ \A i \in 1 .. e : times[i] > Hour
  BY <1>1, ExpiredPrefix
<1>3. /\ kept \in Seq(Ages) /\ Len(kept) = Len(times) - e
      /\ \A i \in 1 .. Len(kept) : kept[i] = times[e + i]
  BY <1>1, RecentShape
<1>4. \A i \in 1 .. Len(seen) : seen[i] \in Nat
  BY <1>1, ElementOfSeq, Constants
<1> HIDE DEF e, kept
<1>5. /\ Len(kept) <= MaxLen /\ Len(seen) - Len(kept) >= 0
      /\ Len(seen) - Len(kept) = dropped + e
  BY <1>1, <1>2, <1>3
<1>6. \A i \in 1 .. Len(kept) : kept[i] = seen[Len(seen) - Len(kept) + i]
  <2> SUFFICES ASSUME NEW i \in 1 .. Len(kept) PROVE kept[i] = seen[dropped + e + i]
    BY <1>5
  <2>1. e + i \in 1 .. Len(times) /\ dropped + (e + i) = dropped + e + i
    BY <1>1, <1>2, <1>3
  <2> QED BY <1>1, <1>3, <2>1
<1>7. Len(kept) = MaxLen \/ \A i \in 1 .. Len(seen) - Len(kept) : seen[i] > Hour
  <2>1. CASE e = 0
    BY <1>1, <1>3, <1>5, <2>1 DEF Holds
  <2>2. CASE e # 0
    <3> SUFFICES ASSUME NEW i \in 1 .. dropped + e PROVE seen[i] > Hour
      BY <1>5
    <3>1. CASE i > dropped
      <4>1. i - dropped \in 1 .. e /\ i - dropped \in 1 .. Len(times) /\ dropped + (i - dropped) = i
        BY <1>1, <1>2, <3>1
      <4> QED BY <1>1, <1>2, <4>1
    <3>2. CASE ~ (i > dropped)
      <4>1. /\ i \in 1 .. Len(seen) /\ dropped + 1 \in 1 .. Len(seen) /\ i <= dropped + 1
            /\ 1 \in 1 .. e /\ 1 \in 1 .. Len(times)
        BY <1>1, <1>2, <2>2, <3>2
      <4>2. seen[dropped + 1] > Hour
        BY <1>1, <1>2, <4>1
      <4>3. seen[i] >= seen[dropped + 1]
        BY <4>1 DEF Holds, Sorted
      <4>4. seen[i] \in Nat /\ seen[dropped + 1] \in Nat
        BY <1>4, <4>1
      <4> QED BY <1>1, <4>2, <4>3, <4>4
    <3> QED BY <3>1, <3>2
  <2> QED BY <2>1, <2>2
<1>8. Holds(kept, seen)
  BY <1>1, <1>3, <1>5, <1>6, <1>7 DEF Holds
<1> QED BY <1>8 DEF kept

\* Time passes for both.
LEMMA OlderAge ==
  ASSUME NEW a \in Ages
  PROVE  /\ Older(a, Hour + 1) \in Ages
         /\ a > Hour => Older(a, Hour + 1) > Hour
         /\ \A b \in Ages : a >= b => Older(a, Hour + 1) >= Older(b, Hour + 1)
  BY Constants DEF Ages, Older, Least

LEMMA AgedShape ==
  ASSUME NEW ages \in Seq(Ages)
  PROVE  LET aged == [i \in DOMAIN ages |-> Older(ages[i], Hour + 1)]
         IN /\ aged \in Seq(Ages) /\ Len(aged) = Len(ages)
            /\ \A i \in 1 .. Len(ages) : aged[i] = Older(ages[i], Hour + 1)
<1> DEFINE aged == [i \in DOMAIN ages |-> Older(ages[i], Hour + 1)]
<1>1. Len(ages) \in Nat /\ DOMAIN ages = 1 .. Len(ages)
  BY LenProperties
<1>2. \A i \in 1 .. Len(ages) : Older(ages[i], Hour + 1) \in Ages
  BY ElementOfSeq, OlderAge
<1>3. aged \in [1 .. Len(ages) -> Ages]
  BY <1>1, <1>2
<1>4. aged \in Seq(Ages)
  BY <1>1, <1>3, SeqDef
<1>5. Len(aged) = Len(ages)
  BY <1>1, <1>3, <1>4, LenProperties
<1> QED BY <1>1, <1>4, <1>5

LEMMA HoldsAged ==
  ASSUME NEW times, NEW seen, Holds(times, seen)
  PROVE  Holds([i \in DOMAIN times |-> Older(times[i], Hour + 1)],
               [i \in DOMAIN seen |-> Older(seen[i], Hour + 1)])
<1> DEFINE t == [i \in DOMAIN times |-> Older(times[i], Hour + 1)]
           s == [i \in DOMAIN seen |-> Older(seen[i], Hour + 1)]
           dropped == Len(seen) - Len(times)
<1>1. /\ times \in Seq(Ages) /\ seen \in Seq(Ages) /\ Len(times) <= MaxLen
      /\ Len(times) \in Nat /\ Len(seen) \in Nat /\ dropped >= 0
      /\ \A i \in 1 .. Len(times) : times[i] = seen[dropped + i]
  BY LenProperties DEF Holds
<1>2. /\ t \in Seq(Ages) /\ Len(t) = Len(times)
      /\ \A i \in 1 .. Len(times) : t[i] = Older(times[i], Hour + 1)
  BY <1>1, AgedShape
<1>3. /\ s \in Seq(Ages) /\ Len(s) = Len(seen)
      /\ \A i \in 1 .. Len(seen) : s[i] = Older(seen[i], Hour + 1)
  BY <1>1, AgedShape
<1>4. \A i \in 1 .. Len(seen) : seen[i] \in Ages
  BY <1>1, ElementOfSeq
<1> HIDE DEF t, s
<1>5. \A i \in 1 .. Len(t) : t[i] = s[Len(s) - Len(t) + i]
  <2> SUFFICES ASSUME NEW i \in 1 .. Len(times) PROVE t[i] = s[dropped + i]
    BY <1>2, <1>3
  <2>1. dropped + i \in 1 .. Len(seen)
    BY <1>1
  <2> QED BY <1>1, <1>2, <1>3, <2>1
<1>6. Sorted(s)
  BY <1>3, <1>4, OlderAge DEF Holds, Sorted
<1>7. Len(t) = MaxLen \/ \A i \in 1 .. Len(s) - Len(t) : s[i] > Hour
  <2>1. CASE Len(times) = MaxLen
    BY <1>2, <2>1
  <2>2. CASE \A i \in 1 .. dropped : seen[i] > Hour
    <3> SUFFICES ASSUME NEW i \in 1 .. dropped PROVE s[i] > Hour
      BY <1>2, <1>3
    <3>1. i \in 1 .. Len(seen) /\ seen[i] > Hour
      BY <1>1, <2>2
    <3> QED BY <1>3, <1>4, <3>1, OlderAge
  <2> QED BY <2>1, <2>2 DEF Holds
<1>8. Holds(t, s)
  BY <1>1, <1>2, <1>3, <1>5, <1>6, <1>7 DEF Holds
<1> QED BY <1>8 DEF t, s

\* A deque without old changes counts the changes of the last hour, as far as it holds
\* them.
LEMMA HoldsCounts ==
  ASSUME NEW times, NEW seen, Holds(times, seen), Len(times) > 0 => times[1] <= Hour
  PROVE  Len(times) = Least(Cardinality(WithinHour(seen)), MaxLen)
<1> DEFINE dropped == Len(seen) - Len(times)
           latest == dropped + 1 .. Len(seen)
           within == WithinHour(seen)
<1>1. /\ times \in Seq(Ages) /\ seen \in Seq(Ages) /\ Len(times) <= MaxLen
      /\ Len(times) \in Nat /\ Len(seen) \in Nat /\ dropped >= 0
      /\ MaxLen \in Nat /\ Hour \in Nat /\ DOMAIN seen = 1 .. Len(seen)
      /\ \A i \in 1 .. Len(times) : times[i] = seen[dropped + i]
  BY LenProperties, Constants DEF Holds
<1>2. \A i \in 1 .. Len(seen) : seen[i] \in Nat
  BY <1>1, ElementOfSeq, Constants
<1>3. latest \in SUBSET within
  <2> SUFFICES ASSUME NEW i \in latest PROVE i \in 1 .. Len(seen) /\ seen[i] <= Hour
    BY <1>1 DEF WithinHour
  <2>1. /\ i \in 1 .. Len(seen) /\ dropped + 1 \in 1 .. Len(seen) /\ dropped + 1 <= i
        /\ Len(times) > 0 /\ 1 \in 1 .. Len(times)
    BY <1>1
  <2>2. seen[dropped + 1] <= Hour
    BY <1>1, <2>1
  <2>3. seen[dropped + 1] >= seen[i]
    BY <2>1 DEF Holds, Sorted
  <2>4. seen[i] \in Nat /\ seen[dropped + 1] \in Nat
    BY <1>2, <2>1
  <2> QED BY <1>1, <2>1, <2>2, <2>3, <2>4
<1>4. within \in SUBSET (1 .. Len(seen))
  BY <1>1 DEF WithinHour
<1>5. IsFiniteSet(within) /\ Cardinality(within) \in Nat
  BY <1>1, <1>4, IntervalSize, FS_Subset, FS_CardinalityType
<1>6. Cardinality(latest) = Len(times)
  <2>1. /\ dropped + 1 \in Int /\ Len(seen) \in Int
        /\ (IF dropped + 1 > Len(seen) THEN 0 ELSE Len(seen) - (dropped + 1) + 1) = Len(times)
    BY <1>1
  <2> HIDE DEF dropped
  <2> QED BY <2>1, FS_Interval
<1>7. Len(times) <= Cardinality(within)
  BY <1>3, <1>5, <1>6, FS_Subset
<1>8. CASE Len(times) = MaxLen
  BY <1>1, <1>5, <1>7, <1>8 DEF Least
<1>9. CASE \A i \in 1 .. dropped : seen[i] > Hour
  <2>1. \A i \in within : i \in latest
    <3> SUFFICES ASSUME NEW i \in 1 .. Len(seen), seen[i] <= Hour PROVE i \in latest
      BY <1>1 DEF WithinHour
    <3>1. ~ (i \in 1 .. dropped)
      BY <1>1, <1>2, <1>9
    <3> QED BY <1>1, <3>1
  <2>2. within = latest
    BY <1>3, <2>1
  <2> QED BY <1>1, <1>6, <2>2 DEF Least
<1> QED BY <1>8, <1>9 DEF Holds

-----------------------------------------------------------------------------
(* The invariant. *)

\* Nothing has been seen yet.
LEMMA HoldsNothing == Holds(<< >>, << >>)
<1>1. << >> \in Seq(Ages) /\ Len(<< >>) = 0
  BY EmptySeq
<1> QED BY <1>1, Constants DEF Holds, Sorted

LEMMA NoReadingTyped == NoReading \in Readings
  BY DEF NoReading, Readings

LEMMA InvInit == Init => IInv
<1> SUFFICES ASSUME Init PROVE IInv
  OBVIOUS
<1>1. pump \in {"on", "off"} /\ circulating_since = None
  BY TelemetryAssumption DEF Init
<1>2. switch_times = << >> /\ switches = << >> /\ mode_switches = 0 /\ polls = {}
  BY DEF Init
<1>3. data = NoReading /\ result = NoReading /\ issue = FALSE /\ loaded = FALSE /\ strayed = FALSE
  BY DEF Init
<1>4. TypeOK
  BY <1>1, <1>2, <1>3, EmptySeq, NoReadingTyped DEF TypeOK
<1>5. DequeInv
  BY <1>2, HoldsNothing, EmptySeq DEF DequeInv
<1> QED BY <1>1, <1>3, <1>4, <1>5 DEF IInv, CirculatingInv, IssueMatchesData

\* The machine, and a refresh that begins or fails.
LEMMA UnseenStep ==
  ASSUME IInv, pump' \in {"on", "off"},
         UNCHANGED << memory, data, issue, loaded, result, history >>
  PROVE  IInv'
  BY DEF memory, history, IInv, TypeOK, DequeInv, CirculatingInv, IssueMatchesData

LEMMA TickStep ==
  ASSUME IInv, Tick
  PROVE  IInv'
<1>1. /\ circulating_since' = IF circulating_since = None THEN None
                                                          ELSE Older(circulating_since, Settle)
      /\ switch_times' = [i \in DOMAIN switch_times |-> Older(switch_times[i], Hour + 1)]
      /\ polls' = {[p EXCEPT !.age = Older(@, Settle)] : p \in polls}
      /\ switches' = [i \in DOMAIN switches |-> Older(switches[i], Hour + 1)]
      /\ UNCHANGED << pump, mode_switches, data, issue, loaded, result, strayed >>
  BY DEF Tick, flight
<1>2. TypeOK /\ Holds(switch_times, switches)
  BY DEF IInv, DequeInv
<1>3. Holds(switch_times', switches')
  BY <1>1, <1>2, HoldsAged
<1>4. DequeInv'
  BY <1>1, <1>2, <1>3, AgedShape DEF IInv, DequeInv, TypeOK
<1>5. \A a \in 0 .. Settle : /\ Older(a, Settle) \in 0 .. Settle
                            /\ \A b \in 0 .. Settle :
                                 Older(a, Settle) < Older(b, Settle) => a < b
  BY Constants DEF Older, Least
<1>6. polls' \subseteq [age : 0 .. Settle, running : BOOLEAN]
  <2> SUFFICES ASSUME NEW q \in polls' PROVE q \in [age : 0 .. Settle, running : BOOLEAN]
    OBVIOUS
  <2>1. PICK p \in polls : q = [p EXCEPT !.age = Older(@, Settle)]
    BY <1>1
  <2>2. p \in [age : 0 .. Settle, running : BOOLEAN]
    BY <1>2 DEF TypeOK
  <2>3. Older(p.age, Settle) \in 0 .. Settle
    BY <1>5, <2>2
  <2> QED BY <2>1, <2>2, <2>3
<1>7. circulating_since' \in {None} \cup 0 .. Settle
  BY <1>1, <1>2, <1>5, Constants DEF TypeOK
<1>8. TypeOK'
  BY <1>1, <1>2, <1>3, <1>6, <1>7 DEF TypeOK, Holds
<1>9. CirculatingInv'
  <2> SUFFICES ASSUME circulating_since' # None PROVE Settled(circulating_since', polls')
    BY DEF CirculatingInv
  <2>1. circulating_since \in 0 .. Settle /\ Settled(circulating_since, polls)
    BY <1>1, <1>2 DEF IInv, CirculatingInv, TypeOK
  <2>2. PICK p \in polls : /\ p.running /\ p.age = circulating_since
                           /\ \A q \in polls : q.age < circulating_since => q.running
    BY <2>1 DEF Settled
  <2> DEFINE older == [p EXCEPT !.age = Older(@, Settle)]
  <2>3. older \in polls' /\ older.running /\ older.age = circulating_since'
    BY <1>1, <1>2, <2>1, <2>2, Constants DEF TypeOK
  <2>4. ASSUME NEW q \in polls', q.age < circulating_since' PROVE q.running
    <3>1. PICK r \in polls : q = [r EXCEPT !.age = Older(@, Settle)]
      BY <1>1
    <3>2. r.age \in 0 .. Settle /\ q.age = Older(r.age, Settle) /\ q.running = r.running
      BY <1>2, <3>1 DEF TypeOK
    <3>3. circulating_since' = Older(circulating_since, Settle)
      BY <1>1, <2>1, Constants
    <3>4. r.age < circulating_since
      BY <1>5, <2>1, <2>4, <3>2, <3>3
    <3> QED BY <2>2, <3>2, <3>4
  <2> QED BY <2>3, <2>4 DEF Settled
<1> QED BY <1>1, <1>4, <1>8, <1>9 DEF IInv, IssueMatchesData

\* What a poll leaves behind, apart from its reading.
LEMMA JobDoneMemory ==
  ASSUME IInv, NEW circulator \in {"on", "off", None}, NEW delta_t \in {None, "normal", "high"},
         NEW state, JobDone(circulator, delta_t, state)
  PROVE  /\ Holds(switch_times', switches')
         /\ mode_switches' \in Nat /\ Len(switch_times') <= mode_switches'
         /\ Len(switch_times') > 0 => switch_times'[1] <= Hour
<1> DEFINE changed == state # None /\ last_state # None /\ state # last_state
           times == IF changed THEN AppendTime(switch_times) ELSE switch_times
<1>1. /\ switch_times' = Recent(times)
      /\ mode_switches' = IF changed THEN mode_switches + 1 ELSE mode_switches
      /\ switches' = IF changed THEN Append(switches, 0) ELSE switches
  BY DEF JobDone
<1>2. Holds(switch_times, switches) /\ mode_switches \in Nat /\ Len(switch_times) <= mode_switches
  BY DEF IInv, DequeInv, TypeOK
<1>3. switch_times \in Seq(Ages) /\ Len(switch_times) <= MaxLen /\ Len(switch_times) \in Nat
  BY <1>2, LenProperties DEF Holds
<1>4. Holds(times, switches')
  BY <1>1, <1>2, HoldsAppend
<1>5. Len(times) <= mode_switches' /\ mode_switches' \in Nat
  <2>1. CASE changed
    <3>1. Len(AppendTime(switch_times)) <= Len(switch_times) + 1
      BY <1>3, AppendTimeShape, Constants
    <3>2. AppendTime(switch_times) \in Seq(Ages)
      BY <1>3, AppendTimeShape
    <3>3. Len(AppendTime(switch_times)) \in Nat
      BY <3>2, LenProperties
    <3> QED BY <1>1, <1>2, <1>3, <2>1, <3>1, <3>3
  <2>2. CASE ~ changed
    BY <1>1, <1>2, <2>2
  <2> QED BY <2>1, <2>2
<1>6. times \in Seq(Ages)
  BY <1>4 DEF Holds
<1> HIDE DEF times
<1>7. Holds(switch_times', switches')
  BY <1>1, <1>4, HoldsRecent
<1>8. /\ Len(times) \in Nat /\ Expired(times) \in 0 .. Len(times)
      /\ Expired(times) < Len(times) => times[Expired(times) + 1] <= Hour
      /\ Len(switch_times') = Len(times) - Expired(times)
      /\ \A i \in 1 .. Len(switch_times') : switch_times'[i] = times[Expired(times) + i]
  BY <1>1, <1>6, ExpiredPrefix, RecentShape, LenProperties
<1>9. Len(switch_times') <= mode_switches'
  BY <1>5, <1>8
<1>10. Len(switch_times') > 0 => switch_times'[1] <= Hour
  BY <1>8
<1> QED BY <1>5, <1>7, <1>9, <1>10

\* The reading: its rate, and the time since when the pump has been seen running.
LEMMA JobDoneReading ==
  ASSUME IInv, NEW circulator \in {"on", "off", None}, NEW delta_t \in {None, "normal", "high"},
         NEW state, JobDone(circulator, delta_t, state)
  PROVE  /\ result' = [delta_t           |-> delta_t,
                       flow_restricted   |-> FlowRestricted(circulating_since', delta_t),
                       mode_switches     |-> mode_switches',
                       switches_per_hour |-> Len(switch_times')]
         /\ circulating_since' \in {None} \cup 0 .. Settle
         /\ polls' \subseteq [age : 0 .. Settle, running : BOOLEAN]
         /\ CirculatingInv'
<1> DEFINE made == [age |-> 0, running |-> circulator = "on"]
<1>1. /\ result' = [delta_t           |-> delta_t,
                    flow_restricted   |-> FlowRestricted(circulating_since', delta_t),
                    mode_switches     |-> mode_switches',
                    switches_per_hour |-> Len(switch_times')]
      /\ circulating_since' = CirculatingSince(circulator)
      /\ polls' = polls \cup {made}
  BY DEF JobDone
<1>2. /\ circulating_since \in {None} \cup 0 .. Settle
      /\ polls \subseteq [age : 0 .. Settle, running : BOOLEAN]
      /\ circulating_since # None => Settled(circulating_since, polls)
  BY DEF IInv, TypeOK, CirculatingInv
<1>3. circulating_since' \in {None} \cup 0 .. Settle
  BY <1>1, <1>2, Constants DEF CirculatingSince
<1>4. polls' \subseteq [age : 0 .. Settle, running : BOOLEAN]
  <2>1. 0 \in 0 .. Settle
    BY Constants
  <2>2. (circulator = "on") \in BOOLEAN
    OBVIOUS
  <2>3. made \in [age : 0 .. Settle, running : BOOLEAN]
    BY <2>1, <2>2
  <2> QED BY <1>1, <1>2, <2>3
<1>5. CirculatingInv'
  <2> SUFFICES ASSUME circulating_since' # None PROVE Settled(circulating_since', polls')
    BY DEF CirculatingInv
  <2>1. circulator = "on" /\ made.running /\ made.age = 0
    BY <1>1 DEF CirculatingSince
  <2>2. CASE circulating_since = None
    <3>1. circulating_since' = 0 /\ \A q \in polls' : ~ (q.age < 0)
      BY <1>1, <1>4, <2>1, <2>2, Constants DEF CirculatingSince
    <3> QED BY <1>1, <2>1, <3>1 DEF Settled
  <2>3. CASE circulating_since # None
    <3>1. circulating_since' = circulating_since
      BY <1>1, <2>1, <2>3 DEF CirculatingSince
    <3> QED BY <1>1, <1>2, <2>1, <2>3, <3>1 DEF Settled
  <2> QED BY <2>2, <2>3
<1> QED BY <1>1, <1>3, <1>4, <1>5

LEMMA JobReadsArguments ==
  ASSUME IInv, JobReads
  PROVE  \E circulator \in {"on", "off", None}, delta_t \in {None, "normal", "high"} :
           \E state : JobDone(circulator, delta_t, state)
  BY TelemetryAssumption DEF JobReads, IInv, TypeOK

LEMMA JobReadsStep ==
  ASSUME IInv, JobReads
  PROVE  IInv'
<1>1. PICK circulator \in {"on", "off", None}, delta_t \in {None, "normal", "high"} :
        \E state : JobDone(circulator, delta_t, state)
  BY JobReadsArguments
<1>2. PICK state : JobDone(circulator, delta_t, state)
  BY <1>1
<1>3. UNCHANGED << pump, data, issue, loaded, strayed >>
  BY <1>2 DEF JobDone, machine
<1>4. DequeInv' /\ mode_switches' \in Nat
  BY <1>2, JobDoneMemory DEF DequeInv
<1>5. switch_times' \in Seq(Ages) /\ switches' \in Seq(Ages)
  BY <1>4 DEF DequeInv, Holds
<1>6. /\ circulating_since' \in {None} \cup 0 .. Settle
      /\ polls' \subseteq [age : 0 .. Settle, running : BOOLEAN]
      /\ CirculatingInv'
  BY <1>2, JobDoneReading
<1>7. result' \in Readings
  <2>1. FlowRestricted(circulating_since', delta_t) \in {None} \cup BOOLEAN
    BY DEF FlowRestricted
  <2>2. Len(switch_times') \in Nat
    BY <1>5, LenProperties
  <2> QED BY <1>2, <1>4, <2>1, <2>2, JobDoneReading DEF Readings
<1>8. TypeOK'
  BY <1>3, <1>4, <1>5, <1>6, <1>7 DEF IInv, TypeOK
<1> QED BY <1>3, <1>4, <1>6, <1>8 DEF IInv, IssueMatchesData

LEMMA AtThreshold ==
  ASSUME NEW switches_per_hour
  PROVE  async_check(switches_per_hour) \in BOOLEAN
<1>1. CASE switches_per_hour >= Threshold
  BY <1>1 DEF async_check
<1>2. CASE ~ (switches_per_hour >= Threshold)
  BY <1>2 DEF async_check
<1> QED BY <1>1, <1>2

LEMMA FinishStep ==
  ASSUME IInv, Finish
  PROVE  IInv'
<1>1. /\ issue' = (result.switches_per_hour >= Threshold)
      /\ data' = result /\ loaded' = TRUE /\ strayed' = FALSE
      /\ UNCHANGED << pump, memory, result, polls, switches >>
  BY DEF Finish, async_check, machine
<1>2. TypeOK'
  <2>1. issue' \in BOOLEAN
    BY AtThreshold DEF Finish
  <2> QED BY <1>1, <2>1 DEF IInv, TypeOK, memory
<1>3. DequeInv' /\ CirculatingInv'
  BY <1>1 DEF IInv, DequeInv, CirculatingInv, memory
<1>4. IssueMatchesData'
  BY <1>1 DEF IssueMatchesData
<1> QED BY <1>2, <1>3, <1>4 DEF IInv

LEMMA SetupStep ==
  ASSUME IInv, Setup
  PROVE  IInv'
<1>1. /\ ~ loaded /\ circulating_since' = None /\ switch_times' = << >> /\ mode_switches' = 0
      /\ data' = NoReading /\ result' = NoReading /\ polls' = {} /\ switches' = << >>
      /\ UNCHANGED << pump, issue, loaded, strayed >>
  BY DEF Setup, Forgotten, machine
<1>2. TypeOK'
  BY <1>1, EmptySeq, NoReadingTyped DEF IInv, TypeOK
<1>3. DequeInv'
  BY <1>1, HoldsNothing, EmptySeq DEF DequeInv
<1> QED BY <1>1, <1>2, <1>3 DEF IInv, CirculatingInv, IssueMatchesData

\* Unload, and the end of a refresh that outlived one.
LEMMA OutliveStep ==
  ASSUME IInv, Unload \/ StrayEnds
  PROVE  IInv'
<1>1. /\ UNCHANGED << pump, memory, data, result, polls, switches >>
      /\ issue' \in BOOLEAN /\ loaded' \in BOOLEAN /\ strayed' \in BOOLEAN
      /\ \/ loaded' = FALSE
         \/ strayed' = TRUE
         \/ UNCHANGED << issue, loaded, strayed >>
  <2>1. issue \in BOOLEAN /\ loaded \in BOOLEAN /\ strayed \in BOOLEAN
    BY DEF IInv, TypeOK
  <2>2. CASE Unload
    BY <2>1, <2>2 DEF Unload, machine
  <2>3. CASE StrayEnds
    <3>1. /\ UNCHANGED << pump, memory, data, result, polls, switches, loaded >>
          /\ \/ issue' = async_check(stray) /\ strayed' = TRUE
             \/ UNCHANGED << issue, strayed >>
      BY <2>3 DEF StrayEnds, machine, flight
    <3>2. CASE issue' = async_check(stray) /\ strayed' = TRUE
      <4>1. issue' \in BOOLEAN
        BY <3>2, AtThreshold
      <4> QED BY <2>1, <3>1, <3>2, <4>1
    <3>3. CASE UNCHANGED << issue, strayed >>
      BY <2>1, <3>1, <3>3
    <3> QED BY <3>1, <3>2, <3>3
  <2> QED BY <2>2, <2>3
<1>2. TypeOK'
  BY <1>1 DEF IInv, TypeOK, memory
<1> QED BY <1>1, <1>2 DEF IInv, DequeInv, CirculatingInv, IssueMatchesData, memory

LEMMA InvStep == IInv /\ [Next]_vars => IInv'
<1> SUFFICES ASSUME IInv, [Next]_vars PROVE IInv'
  OBVIOUS
<1>1. CASE ChangeState \/ SwitchPump \/ JobFails \/ Begin("scheduled") \/ Begin("requested")
           \/ UNCHANGED vars
  <2>1. pump' \in {"on", "off"}
    BY <1>1, TelemetryAssumption
       DEF ChangeState, SwitchPump, JobFails, Begin, vars, machine, IInv, TypeOK
  <2> QED BY <1>1, <2>1, UnseenStep
          DEF ChangeState, SwitchPump, JobFails, Begin, vars, flight
<1>2. CASE Tick
  BY <1>2, TickStep
<1>3. CASE JobReads
  BY <1>3, JobReadsStep
<1>4. CASE Finish
  BY <1>4, FinishStep
<1>5. CASE Setup
  BY <1>5, SetupStep
<1>6. CASE Unload \/ StrayEnds
  BY <1>6, OutliveStep
<1> QED BY <1>1, <1>2, <1>3, <1>4, <1>5, <1>6 DEF Next

LEMMA Invariance == Spec => []IInv
  BY InvInit, InvStep, PTL DEF Spec

-----------------------------------------------------------------------------
\* While the entry is loaded the issue is there exactly when the data says so, whatever
\* polls failed, unless a refresh that outlived an unload was the last to check
\* (health.py:20-21, coordinator.py:229).
THEOREM IssueFollowsData == Spec => []IssueMatchesData
<1>1. IInv => IssueMatchesData
  BY DEF IInv
<1> QED BY <1>1, Invariance, PTL

\* A reading is only made by a poll that answers, or forgotten with its coordinator.
LEMMA ResultChanges ==
  ASSUME Next, result' # result
  PROVE  JobReads \/ Setup
  BY DEF Next, ChangeState, SwitchPump, Tick, Begin, JobReads, JobFails, Finish, Setup, Unload,
         StrayEnds, flight

\* The deque, pruned and bounded, counts the changes of the last hour
\* (coordinator.py:107-110, 336-341).
THEOREM RatesCountTheLastHour == Spec => RateIsTheLastHour
<1> DEFINE Right == /\ result'.switches_per_hour =
                         Least(Cardinality(WithinHour(switches')), MaxLen)
                    /\ result'.switches_per_hour <= result'.mode_switches
<1>1. ASSUME IInv, Next, result' # result PROVE Right
  <2>1. CASE JobReads
    <3>1. PICK circulator \in {"on", "off", None}, delta_t \in {None, "normal", "high"} :
            \E state : JobDone(circulator, delta_t, state)
      BY <1>1, <2>1, JobReadsArguments
    <3>2. PICK state : JobDone(circulator, delta_t, state)
      BY <3>1
    <3>3. /\ Holds(switch_times', switches')
          /\ Len(switch_times') <= mode_switches'
          /\ Len(switch_times') > 0 => switch_times'[1] <= Hour
      BY <1>1, <3>2, JobDoneMemory
    <3>4. Len(switch_times') = Least(Cardinality(WithinHour(switches')), MaxLen)
      BY <3>3, HoldsCounts
    <3>5. result'.switches_per_hour = Len(switch_times') /\ result'.mode_switches = mode_switches'
      BY <1>1, <3>2, JobDoneReading
    <3> QED BY <3>3, <3>4, <3>5
  <2>2. CASE Setup
    <3>1. switches' = << >> /\ result'.switches_per_hour = 0 /\ result'.mode_switches = 0
      BY <2>2 DEF Setup, NoReading
    <3>2. Len(switches') = Least(Cardinality(WithinHour(switches')), MaxLen)
      BY <3>1, HoldsNothing, HoldsCounts, EmptySeq
    <3> QED BY <3>1, <3>2, EmptySeq
  <2> QED BY <1>1, <2>1, <2>2, ResultChanges
<1>2. IInv /\ [Next]_vars => [result' # result => Right]_vars
  BY <1>1
<1> QED BY <1>2, Invariance, PTL DEF Spec, RateIsTheLastHour

\* A restriction is reported only after the pump has been seen running for the settling
\* time, by every poll in between (coordinator.py:282-307).
THEOREM FlowIsJudgedWhenSettled == Spec => RestrictedOnlyAfterSettling
<1> DEFINE Right == \E p \in polls' : /\ p.running /\ p.age >= Settle
                                      /\ \A q \in polls' : q.age < Settle => q.running
<1>1. ASSUME IInv, Next, result' # result, result'.flow_restricted = TRUE PROVE Right
  <2>1. ~ Setup
    <3> SUFFICES ASSUME Setup PROVE FALSE
      OBVIOUS
    <3>1. result'.flow_restricted = None
      BY DEF Setup, NoReading
    <3> QED BY <1>1, <3>1, Constants
  <2>2. PICK circulator \in {"on", "off", None}, delta_t \in {None, "normal", "high"} :
          \E state : JobDone(circulator, delta_t, state)
    BY <1>1, <2>1, ResultChanges, JobReadsArguments
  <2>3. PICK state : JobDone(circulator, delta_t, state)
    BY <2>2
  <2>4. /\ FlowRestricted(circulating_since', delta_t) = TRUE
        /\ circulating_since' \in {None} \cup 0 .. Settle
        /\ polls' \subseteq [age : 0 .. Settle, running : BOOLEAN]
        /\ CirculatingInv'
    BY <1>1, <2>3, JobDoneReading
  <2>5. circulating_since' = Settle
    <3>1. circulating_since' # None /\ circulating_since' >= Settle
      <4>1. None # TRUE
        BY Constants
      <4> QED BY <2>4, <4>1 DEF FlowRestricted
    <3> QED BY <2>4, <3>1, Constants
  <2> QED BY <2>4, <2>5, Constants DEF CirculatingInv, Settled
<1>2. IInv /\ [Next]_vars => [result' # result /\ result'.flow_restricted = TRUE => Right]_vars
  BY <1>1
<1> QED BY <1>2, Invariance, PTL DEF Spec, RestrictedOnlyAfterSettling
=============================================================================
