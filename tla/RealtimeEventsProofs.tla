------------------------ MODULE RealtimeEventsProofs ------------------------
(***************************************************************************)
(* Proofs about RealtimeEvents for any number of processes, browsers and   *)
(* events, and any capacity and limit: what a browser is sent is in order  *)
(* and without repetition, and what it is not sent has a known reason.     *)
(***************************************************************************)
EXTENDS RealtimeEvents, FiniteSetTheorems, WellFoundedInduction, TLAPS

-----------------------------------------------------------------------------
\* Every element of T comes after all of S, the elements of X apart.
Before(S, T, X) == \A e \in S, f \in T : e < f \/ f \in X

\* s is in the order of the ids, the elements of X apart.
Ordered(s, X) == \A i, j \in DOMAIN s : i < j => s[i] < s[j] \/ s[j] \in X

(* Notifications are of committed events, a stream's channel has only      *)
(* those its user may see, and a stream is connected from its replay on.   *)
Relayed ==
  /\ open \cap table = {}
  /\ \A p \in Processes : ToSet(inbox[p]) \subseteq table
  /\ \A c \in Clients :
       /\ ToSet(channel[c]) \subseteq table \cap Sees[c]
       /\ stage[c] = "off" <=> conn[c] = NoProcess

(* An event waits behind a later one only when it was committed after it:  *)
(* then every client is excused.                                           *)
Queued(c) ==
  /\ \A p \in Processes : Ordered(inbox[p], excused[c])
  /\ Ordered(channel[c], excused[c])
  /\ conn[c] # NoProcess => Before(ToSet(channel[c]), ToSet(inbox[conn[c]]), excused[c])

(* The cursor of a stream is the last event sent, or the event from which  *)
(* a browser that has received none starts.                                *)
CursorSaved(c) ==
  /\ stage[c] = "replay" => cursor[c] = Saved(c)
  /\ stage[c] \in {"flush", "loop"} =>
       cursor[c] = Saved(c) \/ (received[c] = <<>> /\ cursor[c] = start[c])

Covered(c) == ToSet(received[c]) \cup dropped[c] \cup excused[c]

(* After its replay a stream will be sent every event it has not passed:   *)
(* the event is in its channel, or on the connection of its process.       *)
InFlight(c) ==
  stage[c] \in {"flush", "loop"} =>
    \A e \in table \cap Sees[c] :
      e > cursor[c] /\ e > start[c] =>
        e \in Covered(c) \cup ToSet(channel[c]) \cup ToSet(inbox[conn[c]])

IInv ==
  /\ TypeOK
  /\ Relayed
  /\ \A c \in Clients : Queued(c) /\ CursorSaved(c) /\ InFlight(c)
  /\ InOrderOnce
  /\ NoUnexplainedGap

-----------------------------------------------------------------------------
(* Sequences of event ids.                                                 *)
LEMMA AppendFacts ==
  ASSUME NEW s \in Seq(Events), NEW e \in Events, NEW X
  PROVE  /\ Append(s, e) \in Seq(Events) /\ Append(s, e) # <<>>
         /\ Last(Append(s, e)) = e /\ Len(Append(s, e)) = Len(s) + 1
         /\ ToSet(Append(s, e)) = ToSet(s) \cup {e}
         /\ Ordered(s, X) /\ Before(ToSet(s), {e}, X) => Ordered(Append(s, e), X)
<1> DEFINE t == Append(s, e)
<1>1. /\ t \in Seq(Events) /\ t # <<>> /\ Len(t) = Len(s) + 1
      /\ Len(s) \in Nat /\ DOMAIN s = 1..Len(s) /\ DOMAIN t = 1..(Len(s) + 1)
      /\ t[Len(s) + 1] = e /\ \A i \in 1..Len(s) : t[i] = s[i]
  OBVIOUS
<1> HIDE DEF t
<1>2. Last(t) = e
  BY <1>1 DEF Last
<1>3. ToSet(t) = ToSet(s) \cup {e}
  <2>1. \A i \in 1..Len(s) : i \in 1..(Len(s) + 1)
    BY <1>1
  <2>2. Len(s) + 1 \in 1..(Len(s) + 1)
    BY <1>1
  <2>3. \A i \in 1..(Len(s) + 1) : i \in 1..Len(s) \/ i = Len(s) + 1
    BY <1>1
  <2>4. ToSet(s) = {s[i] : i \in 1..Len(s)} /\ ToSet(t) = {t[i] : i \in 1..(Len(s) + 1)}
    BY <1>1 DEF ToSet
  <2>5. ToSet(s) \subseteq ToSet(t) /\ e \in ToSet(t)
    BY <1>1, <2>1, <2>2, <2>4
  <2>6. ToSet(t) \subseteq ToSet(s) \cup {e}
    BY <1>1, <2>3, <2>4
  <2>7. QED
    BY <2>5, <2>6
<1>4. ASSUME Ordered(s, X), Before(ToSet(s), {e}, X), NEW i \in DOMAIN t, NEW j \in DOMAIN t, i < j
      PROVE  t[i] < t[j] \/ t[j] \in X
  <2>1. i \in DOMAIN s
    BY <1>1, <1>4
  <2>2. CASE j \in DOMAIN s
    BY <1>1, <1>4, <2>1, <2>2 DEF Ordered
  <2>3. CASE j \notin DOMAIN s
    <3>1. t[j] = e /\ t[i] = s[i] /\ s[i] \in ToSet(s)
      BY <1>1, <2>1, <2>3 DEF ToSet
    <3>2. QED
      BY <1>4, <3>1 DEF Before
  <2>4. QED
    BY <2>2, <2>3
<1>5. QED
  BY <1>1, <1>2, <1>3, <1>4 DEF t, Ordered

LEMMA TailFacts ==
  ASSUME NEW s \in Seq(Events), s # <<>>, NEW X
  PROVE  /\ Head(s) \in Events /\ Tail(s) \in Seq(Events) /\ Len(Tail(s)) = Len(s) - 1
         /\ ToSet(s) = {Head(s)} \cup ToSet(Tail(s))
         /\ Ordered(s, X) => Ordered(Tail(s), X) /\ Before({Head(s)}, ToSet(Tail(s)), X)
<1> DEFINE t == Tail(s)
           n == Len(s)
<1>1. /\ t \in Seq(Events) /\ Len(t) = n - 1 /\ n \in Nat /\ n > 0
      /\ DOMAIN s = 1..n /\ DOMAIN t = 1..(n - 1)
      /\ Head(s) = s[1] /\ \A i \in 1..(n - 1) : t[i] = s[i + 1]
      /\ s[1] \in Events
  OBVIOUS
<1> HIDE DEF t, n
<1>2. ToSet(s) = {Head(s)} \cup ToSet(t)
  <2>1. \A i \in 1..n : i = 1 \/ (i - 1 \in 1..(n - 1) /\ t[i - 1] = s[i])
    BY <1>1
  <2>2. \A i \in 1..(n - 1) : i + 1 \in 1..n
    BY <1>1
  <2>3. 1 \in 1..n
    BY <1>1
  <2>4. ToSet(s) = {s[i] : i \in 1..n} /\ ToSet(t) = {t[i] : i \in 1..(n - 1)}
    BY <1>1 DEF ToSet
  <2>5. Head(s) \in ToSet(s) /\ ToSet(t) \subseteq ToSet(s)
    BY <1>1, <2>2, <2>3, <2>4
  <2>6. ToSet(s) \subseteq {Head(s)} \cup ToSet(t)
    BY <1>1, <2>1, <2>4
  <2>7. QED
    BY <2>5, <2>6
<1>3. ASSUME Ordered(s, X) PROVE Ordered(t, X)
  <2>1. SUFFICES ASSUME NEW i \in 1..(n - 1), NEW j \in 1..(n - 1), i < j
                 PROVE  t[i] < t[j] \/ t[j] \in X
    BY <1>1 DEF Ordered
  <2>2. i + 1 \in 1..n /\ j + 1 \in 1..n /\ i + 1 < j + 1
    BY <1>1, <2>1
  <2>3. QED
    BY <1>1, <1>3, <2>2 DEF Ordered
<1>4. ASSUME Ordered(s, X) PROVE Before({Head(s)}, ToSet(t), X)
  <2>1. SUFFICES ASSUME NEW i \in 1..(n - 1) PROVE s[1] < t[i] \/ t[i] \in X
    BY <1>1 DEF Before, ToSet
  <2>2. 1 \in 1..n /\ i + 1 \in 1..n /\ 1 < i + 1
    BY <1>1
  <2>3. QED
    BY <1>1, <1>4, <2>2 DEF Ordered
<1>5. QED
  BY <1>1, <1>2, <1>3, <1>4 DEF t, n

LEMMA ConcatFacts ==
  ASSUME NEW s \in Seq(Events), NEW t \in Seq(Events)
  PROVE  /\ s \o t \in Seq(Events)
         /\ ToSet(s \o t) = ToSet(s) \cup ToSet(t)
         /\ t # <<>> => s \o t # <<>> /\ Last(s \o t) = Last(t)
         /\ t = <<>> => s \o t = s
         /\ Ordered(s, {}) /\ Ordered(t, {}) /\ Before(ToSet(s), ToSet(t), {})
              => Ordered(s \o t, {})
<1> DEFINE u == s \o t
           m == Len(s)
           n == Len(t)
<1>1. /\ u \in Seq(Events) /\ Len(u) = m + n /\ m \in Nat /\ n \in Nat
      /\ DOMAIN s = 1..m /\ DOMAIN t = 1..n /\ DOMAIN u = 1..(m + n)
      /\ \A i \in 1..m : u[i] = s[i]
      /\ \A i \in 1..n : u[m + i] = t[i]
      /\ (t # <<>> => n > 0)
  OBVIOUS
<1>2. t = <<>> => u = s
  OBVIOUS
<1> HIDE DEF u, m, n
<1>3. \A i \in 1..(m + n) : i \in 1..m \/ (i - m \in 1..n /\ u[i] = t[i - m])
  <2>1. ASSUME NEW i \in 1..(m + n), i \notin 1..m PROVE i - m \in 1..n /\ m + (i - m) = i
    BY <1>1, <2>1
  <2>2. QED
    BY <1>1, <2>1
<1>4. ToSet(u) = ToSet(s) \cup ToSet(t)
  <2>1. \A i \in 1..m : i \in 1..(m + n)
    BY <1>1
  <2>2. \A i \in 1..n : m + i \in 1..(m + n)
    BY <1>1
  <2>3. /\ ToSet(s) = {s[i] : i \in 1..m} /\ ToSet(t) = {t[i] : i \in 1..n}
        /\ ToSet(u) = {u[i] : i \in 1..(m + n)}
    BY <1>1 DEF ToSet
  <2>4. ToSet(s) \subseteq ToSet(u)
    BY <1>1, <2>1, <2>3
  <2>5. ToSet(t) \subseteq ToSet(u)
    <3>1. SUFFICES ASSUME NEW i \in 1..n PROVE t[i] \in ToSet(u)
      BY <2>3
    <3>2. m + i \in 1..(m + n) /\ u[m + i] = t[i]
      BY <1>1, <2>2
    <3>3. QED
      BY <2>3, <3>2
  <2>6. ToSet(u) \subseteq ToSet(s) \cup ToSet(t)
    <3>1. SUFFICES ASSUME NEW i \in 1..(m + n) PROVE u[i] \in ToSet(s) \cup ToSet(t)
      BY <2>3
    <3>2. CASE i \in 1..m
      BY <1>1, <2>3, <3>2
    <3>3. CASE i - m \in 1..n /\ u[i] = t[i - m]
      BY <2>3, <3>3
    <3>4. QED
      BY <1>3, <3>2, <3>3
  <2>7. QED
    BY <2>4, <2>5, <2>6
<1>5. ASSUME t # <<>> PROVE u # <<>> /\ Last(u) = Last(t)
  <2>1. n \in 1..n /\ m + n > 0
    BY <1>1, <1>5
  <2>2. u[m + n] = t[n]
    BY <1>1, <2>1
  <2>3. u # <<>>
    BY <1>1, <2>1
  <2>4. QED
    BY <1>1, <2>2, <2>3 DEF Last, n
<1>6. ASSUME Ordered(s, {}), Ordered(t, {}), Before(ToSet(s), ToSet(t), {}),
             NEW i \in 1..(m + n), NEW j \in 1..(m + n), i < j
      PROVE  u[i] < u[j]
  <2>1. CASE i \in 1..m /\ j \in 1..m
    BY <1>1, <1>6, <2>1 DEF Ordered
  <2>2. CASE i \in 1..m /\ j \notin 1..m
    <3>1. u[i] \in ToSet(s) /\ u[j] \in ToSet(t)
      BY <1>1, <1>3, <2>2 DEF ToSet
    <3>2. QED
      BY <1>6, <3>1 DEF Before
  <2>3. CASE i \notin 1..m
    <3>1. j \notin 1..m
      BY <1>1, <1>6, <2>3
    <3>2. i - m \in 1..n /\ j - m \in 1..n /\ u[i] = t[i - m] /\ u[j] = t[j - m] /\ i - m < j - m
      BY <1>1, <1>3, <1>6, <2>3, <3>1
    <3>3. QED
      BY <1>1, <1>6, <3>2 DEF Ordered
  <2>4. QED
    BY <2>1, <2>2, <2>3
<1>7. QED
  BY <1>1, <1>2, <1>4, <1>5, <1>6 DEF u, Ordered

LEMMA LastFacts ==
  ASSUME NEW s \in Seq(Events), s # <<>>
  PROVE  /\ Last(s) \in Events /\ Last(s) \in ToSet(s)
         /\ Ordered(s, {}) => \A e \in ToSet(s) : e <= Last(s)
<1> DEFINE n == Len(s)
<1>1. /\ n \in Nat /\ n \in 1..n /\ DOMAIN s = 1..n /\ \A i \in 1..n : s[i] \in Events
  OBVIOUS
<1> HIDE DEF n
<1>2. Last(s) = s[n]
  BY DEF Last, n
<1>3. ASSUME Ordered(s, {}), NEW i \in 1..n PROVE s[i] <= s[n]
  <2>1. i = n \/ i < n
    BY <1>1
  <2>2. s[i] \in Nat /\ s[n] \in Nat
    BY <1>1, RealtimeEventsAssumption DEF Events
  <2>3. QED
    BY <1>1, <1>3, <2>1, <2>2 DEF Ordered
<1>4. QED
  BY <1>1, <1>2, <1>3 DEF ToSet

LEMMA EmptyFacts ==
  ASSUME NEW X, NEW T
  PROVE  /\ <<>> \in Seq(Events) /\ ToSet(<<>>) = {} /\ Ordered(<<>>, X)
         /\ Before({}, T, X) /\ Before(T, {}, X)
<1>1. <<>> \in Seq(Events) /\ DOMAIN <<>> = {}
  OBVIOUS
<1>2. QED
  BY <1>1 DEF ToSet, Ordered, Before

-----------------------------------------------------------------------------
(* A query ORDER BY id LIMIT n returns the ids in order.                   *)
LEMMA HighestExists ==
  ASSUME NEW n \in Nat, NEW S \in SUBSET (0..n), S # {}
  PROVE  \E i \in S : \A j \in S : j <= i
<1> DEFINE U == 0..n
           Above(i) == {j \in S : j > i}
           T == {Above(i) : i \in S}
<1>1. IsWellFoundedOn(StrictSubsetOrdering(U), SUBSET U)
  <2>1. IsFiniteSet(U)
    BY FS_Interval
  <2> HIDE DEF U
  <2>2. FiniteSubsetsOf(U) = SUBSET U
    BY <2>1, FS_FiniteSubsetsOfFinite
  <2> QED
    BY <2>2, FS_StrictSubsetOrderingWellFounded
<1>2. T \subseteq SUBSET U /\ T # {}
  OBVIOUS
<1>3. PICK x \in T : \A y \in T : ~(<<y, x>> \in StrictSubsetOrdering(U))
  <2> HIDE DEF T, U
  <2> QED
    BY <1>1, <1>2, WFMin
<1>4. PICK i \in S : x = Above(i)
  OBVIOUS
<1>5. ASSUME NEW j \in S, j > i
      PROVE  FALSE
  <2>0. i \in Int /\ j \in Int /\ \A k \in S : k \in Int
    OBVIOUS
  <2>1. /\ \A a, b, c \in Int : a > b /\ b > c => a > c
        /\ \A a \in Int : ~(a > a)
    OBVIOUS
  <2>2. Above(j) \subseteq Above(i) /\ j \in Above(i) /\ j \notin Above(j)
    BY <1>5, <2>0, <2>1, Zenon
  <2>3. Above(j) \in T /\ Above(j) \in SUBSET U /\ Above(i) \in SUBSET U
    OBVIOUS
  <2> HIDE DEF Above, U, T
  <2>4. <<Above(j), Above(i)>> \in StrictSubsetOrdering(U)
    BY <2>2, <2>3 DEF StrictSubsetOrdering
  <2> QED
    BY <1>3, <1>4, <2>3, <2>4
<1>6. \A j \in S : j <= i
  BY <1>5
<1>7. QED
  BY <1>6

LEMMA LowestExists ==
  ASSUME NEW n \in Nat, NEW S \in SUBSET (0..n), S # {}
  PROVE  \E i \in S : \A j \in S : i <= j
<1> DEFINE T == {n - i : i \in S}
<1>1. T \in SUBSET (0..n) /\ T # {}
  <2>1. \A i \in S : n - i \in 0..n
    OBVIOUS
  <2>2. QED
    BY <2>1
<1>2. PICK m \in T : \A j \in T : j <= m
  <2> HIDE DEF T
  <2>1. QED
    BY <1>1, HighestExists
<1>3. PICK i \in S : m = n - i
  OBVIOUS
<1>4. ASSUME NEW j \in S PROVE i <= j
  <2>1. n - j <= n - i
    BY <1>2, <1>3
  <2>2. i \in Int /\ j \in Int
    OBVIOUS
  <2>3. QED
    BY <2>1, <2>2
<1>5. QED
  BY <1>4

LEMMA EventsFinite == IsFiniteSet(Events)
<1>1. 1 \in Int /\ MaxEvent \in Int
  BY RealtimeEventsAssumption
<1>2. IsFiniteSet(1..MaxEvent)
  BY <1>1, FS_Interval
<1>3. QED
  BY <1>2 DEF Events

LEMMA RankedExists ==
  ASSUME NEW S \in SUBSET Events, NEW k \in Nat, k < Cardinality(S)
  PROVE  \E e \in S : Cardinality({f \in S : f < e}) = k
<1> DEFINE N == Cardinality(S)
           Below(e) == {f \in S : f < e}
           B == {i \in 0..(N - 1) : \A e \in S : Cardinality(Below(e)) # i}
<1>0. MaxEvent \in Nat /\ S \subseteq 0..MaxEvent /\ \A e \in S : e \in Nat
  BY RealtimeEventsAssumption DEF Events
<1>1. IsFiniteSet(S) /\ N \in Nat
  <2>1. IsFiniteSet(S)
    BY EventsFinite, FS_Subset
  <2>2. QED
    BY <2>1, FS_CardinalityType
<1>2. N - 1 \in Nat /\ k \in 0..(N - 1) /\ S # {}
  <2>1. k \in 0..(N - 1) /\ N - 1 \in Nat
    BY <1>1
  <2>2. S # {}
    BY <1>1, <2>1, FS_EmptySet
  <2>3. QED
    BY <2>1, <2>2
<1>3. \A e \in S : IsFiniteSet(Below(e)) /\ Cardinality(Below(e)) \in Nat
  BY <1>1, FS_Subset, FS_CardinalityType
<1>4. SUFFICES B = {}
  BY <1>2
<1>5. SUFFICES ASSUME B # {} PROVE FALSE
  OBVIOUS
<1>6. PICK m \in B : \A i \in B : m <= i
  <2>1. B \in SUBSET (0..(N - 1))
    OBVIOUS
  <2> HIDE DEF B
  <2>2. QED
    BY <1>2, <1>5, <2>1, LowestExists
<1>7. m \in 0..(N - 1) /\ \A e \in S : Cardinality(Below(e)) # m
  OBVIOUS
<1>8. CASE m = 0
  <2>1. PICK e \in S : \A f \in S : e <= f
    BY <1>0, <1>2, LowestExists
  <2>2. Below(e) = {}
    <3>1. \A f \in S : e \in Nat /\ f \in Nat /\ e <= f
      BY <1>0, <2>1
    <3>2. \A f \in S : ~(f < e)
      BY <3>1
    <3>3. QED
      BY <3>2
  <2>3. QED
    BY <1>7, <1>8, <2>2, FS_EmptySet
<1>9. CASE m > 0
  <2>1. m - 1 \in 0..(N - 1) /\ m - 1 \notin B
    <3>1. m - 1 \in 0..(N - 1) /\ ~(m <= m - 1)
      BY <1>1, <1>7, <1>9
    <3> HIDE DEF B
    <3>2. QED
      BY <1>6, <3>1
  <2>2. PICK e \in S : Cardinality(Below(e)) = m - 1
    BY <2>1
  <2>3. e \notin Below(e) /\ IsFiniteSet(Below(e)) /\ e \in Nat
    BY <1>0, <1>3
  <2>4. Cardinality(Below(e) \cup {e}) = m
    <3>1. Cardinality(Below(e) \cup {e}) = Cardinality(Below(e)) + 1
      BY <2>3, FS_AddElement
    <3>2. QED
      BY <1>7, <2>2, <3>1
  <2> DEFINE U == {f \in S : f > e}
  <2>5. U # {}
    <3>1. SUFFICES ASSUME U = {} PROVE FALSE
      OBVIOUS
    <3>2. S = Below(e) \cup {e}
      <4>1. \A f \in S : ~(f > e) /\ f \in Nat
        BY <1>0, <3>1
      <4>2. \A f \in S : f < e \/ f = e
        BY <2>3, <4>1
      <4>3. QED
        BY <4>2
    <3>3. m = N
      BY <2>4, <3>2
    <3>4. QED
      BY <1>1, <1>7, <3>3
  <2>6. PICK g \in U : \A f \in U : g <= f
    <3>1. U \in SUBSET (0..MaxEvent)
      BY <1>0
    <3> HIDE DEF U
    <3>2. QED
      BY <1>0, <2>5, <3>1, LowestExists
  <2>7. Below(g) = Below(e) \cup {e}
    <3>1. \A f \in S : f < g <=> f < e \/ f = e
      BY <1>0, <2>3, <2>6
    <3>2. QED
      BY <3>1
  <2>8. QED
    BY <1>7, <2>4, <2>6, <2>7
<1>10. m \in Nat
  BY <1>1, <1>7
<1>11. QED
  BY <1>8, <1>9, <1>10

LEMMA FirstOfFacts ==
  ASSUME NEW S \in SUBSET Events, NEW n \in Nat \ {0}
  PROVE  /\ FirstOf(S, n) \in Seq(Events) /\ ToSet(FirstOf(S, n)) \subseteq S
         /\ Ordered(FirstOf(S, n), {})
<1> DEFINE N == Cardinality(S)
           m == Min({n, N})
           Below(e) == {f \in S : f < e}
           s == FirstOf(S, n)
<1>0. MaxEvent \in Nat /\ \A e \in S : e \in Nat
  BY RealtimeEventsAssumption DEF Events
<1>1. IsFiniteSet(S) /\ N \in Nat
  <2>1. IsFiniteSet(S)
    BY EventsFinite, FS_Subset
  <2>2. QED
    BY <2>1, FS_CardinalityType
<1>2. m \in Nat /\ m <= N
  <2> HIDE DEF N
  <2>1. \E x \in {n, N} : \A y \in {n, N} : x <= y
    BY <1>1
  <2>2. m \in {n, N} /\ \A y \in {n, N} : m <= y
    BY <2>1 DEF Min
  <2>3. QED
    BY <1>1, <2>2
<1>3. ASSUME NEW i \in 1..m PROVE Ranked(S, i) \in S /\ Cardinality(Below(Ranked(S, i))) = i - 1
  <2>1. i - 1 \in Nat /\ i - 1 < N
    BY <1>1, <1>2
  <2>2. \E e \in S : Cardinality(Below(e)) = i - 1
    BY <2>1, RankedExists
  <2>3. QED
    BY <2>2 DEF Ranked
<1>4. s = [i \in 1..m |-> Ranked(S, i)]
  BY DEF FirstOf
<1> HIDE DEF m, s
<1>5. DOMAIN s = 1..m /\ \A i \in 1..m : s[i] = Ranked(S, i)
  BY <1>4
<1>6. s \in Seq(Events)
  <2>1. \A i \in 1..m : Ranked(S, i) \in Events
    BY <1>3
  <2>2. QED
    BY <1>2, <1>4, <2>1
<1>7. ToSet(s) \subseteq S
  BY <1>3, <1>5 DEF ToSet
<1>8. ASSUME NEW i \in 1..m, NEW j \in 1..m, i < j PROVE s[i] < s[j]
  <2>1. s[i] \in S /\ s[j] \in S /\ s[i] \in Nat /\ s[j] \in Nat
    BY <1>0, <1>3, <1>5
  <2>2. Cardinality(Below(s[i])) = i - 1 /\ Cardinality(Below(s[j])) = j - 1
    BY <1>3, <1>5
  <2>3. ASSUME s[j] <= s[i] PROVE FALSE
    <3>1. Below(s[j]) \in SUBSET Below(s[i])
      BY <1>0, <2>1, <2>3
    <3>2. IsFiniteSet(Below(s[i]))
      BY <1>1, FS_Subset
    <3>3. j - 1 <= i - 1
      BY <2>2, <3>1, <3>2, FS_Subset
    <3>4. i \in Int /\ j \in Int
      BY <1>2
    <3>5. QED
      BY <1>8, <3>3, <3>4
  <2>4. QED
    BY <2>1, <2>3
<1>9. Ordered(s, {})
  BY <1>5, <1>8 DEF Ordered
<1>10. QED
  BY <1>6, <1>7, <1>9 DEF s

(* The cursor a browser starts from is the latest event it may see, or 0.  *)
LEMMA MaxFacts ==
  ASSUME NEW S \in SUBSET Events
  PROVE  /\ Max(S \cup {0}) \in 0..MaxEvent
         /\ \A e \in S : e <= Max(S \cup {0})
<1> DEFINE T == S \cup {0}
<1>1. MaxEvent \in Nat /\ T \in SUBSET (0..MaxEvent) /\ T # {}
  BY RealtimeEventsAssumption DEF Events
<1> HIDE DEF T
<1>2. \E i \in T : \A j \in T : j <= i
  BY <1>1, HighestExists
<1>3. \A i, j \in T : j <= i <=> i >= j
  BY <1>1
<1>4. Max(T) \in T /\ \A j \in T : j <= Max(T)
  BY <1>2, <1>3 DEF Max
<1>5. QED
  BY <1>1, <1>4 DEF T

-----------------------------------------------------------------------------
LEMMA InitIInv == Init => IInv
<1> SUFFICES ASSUME Init PROVE IInv
  OBVIOUS
<1>1. MaxEvent \in Nat /\ Capacity \in Nat /\ 0 <= Capacity
  BY RealtimeEventsAssumption
<1>2. <<>> \in Seq(Events) /\ ToSet(<<>>) = {} /\ Len(<<>>) = 0
  BY EmptyFacts
<1>3. TypeOK
  BY <1>1, <1>2 DEF Init, TypeOK, NotStarted
<1>4. Relayed
  BY <1>2 DEF Init, Relayed
<1>5. \A c \in Clients : Queued(c)
  BY EmptyFacts DEF Init, Queued
<1>6. \A c \in Clients : CursorSaved(c) /\ InFlight(c)
  BY DEF Init, CursorSaved, InFlight
<1>7. InOrderOnce
  BY <1>2 DEF Init, InOrderOnce
<1>8. NoUnexplainedGap
  BY <1>2 DEF Init, NoUnexplainedGap, Passed
<1>9. QED
  BY <1>3, <1>4, <1>5, <1>6, <1>7, <1>8 DEF IInv

LEMMA Types ==
  ASSUME TypeOK
  PROVE  /\ MaxEvent \in Nat /\ Capacity \in Nat /\ lastId \in 0..MaxEvent
         /\ open \subseteq Events /\ table \subseteq Events
         /\ open \subseteq 1..lastId /\ table \subseteq 1..lastId
         /\ inbox \in [Processes -> Seq(Events)] /\ listening \subseteq Processes
         /\ conn \in [Clients -> Processes \cup {NoProcess}]
         /\ stage \in [Clients -> {"off", "replay", "flush", "loop"}]
         /\ channel \in [Clients -> Seq(Events)] /\ received \in [Clients -> Seq(Events)]
         /\ \A c \in Clients : Len(channel[c]) <= Capacity
         /\ cursor \in [Clients -> 0..MaxEvent] /\ start \in [Clients -> 0..NotStarted]
         /\ dropped \in [Clients -> SUBSET Events] /\ excused \in [Clients -> SUBSET Events]
<1>1. MaxEvent \in Nat /\ Capacity \in Nat /\ lastId \in 0..MaxEvent
  BY RealtimeEventsAssumption DEF TypeOK
<1>2. 1..lastId \subseteq Events
  BY <1>1 DEF Events
<1>3. QED
  BY <1>1, <1>2 DEF TypeOK

LEMMA StepTypeOK == TypeOK /\ [Next]_vars => TypeOK'
<1> SUFFICES ASSUME TypeOK, [Next]_vars PROVE TypeOK'
  OBVIOUS
<1>0. /\ MaxEvent \in Nat /\ Capacity \in Nat /\ lastId \in 0..MaxEvent
      /\ open \subseteq Events /\ table \subseteq Events
      /\ open \subseteq 1..lastId /\ table \subseteq 1..lastId
      /\ inbox \in [Processes -> Seq(Events)] /\ listening \subseteq Processes
      /\ conn \in [Clients -> Processes \cup {NoProcess}]
      /\ stage \in [Clients -> {"off", "replay", "flush", "loop"}]
      /\ channel \in [Clients -> Seq(Events)] /\ received \in [Clients -> Seq(Events)]
      /\ \A c \in Clients : Len(channel[c]) <= Capacity
      /\ cursor \in [Clients -> 0..MaxEvent] /\ start \in [Clients -> 0..NotStarted]
      /\ dropped \in [Clients -> SUBSET Events] /\ excused \in [Clients -> SUBSET Events]
  BY Types
<1>1. CASE Emit
  <2>1. lastId' = lastId + 1 /\ lastId' \in 0..MaxEvent /\ lastId' \in 1..lastId'
    BY <1>0, <1>1 DEF Emit
  <2>2. 1..lastId \subseteq 1..lastId'
    BY <1>0, <2>1
  <2>3. open' \subseteq 1..lastId' /\ table' \subseteq 1..lastId'
    BY <1>0, <1>1, <2>1, <2>2 DEF Emit
  <2>4. QED
    BY <1>0, <1>1, <2>1, <2>3 DEF Emit, relayVars, streamVars, TypeOK
<1>2. ASSUME NEW e \in Events, Commit(e) PROVE TypeOK'
  <2>1. inbox' \in [Processes -> Seq(Events)]
    <3>1. \A p \in Processes : Append(inbox[p], e) \in Seq(Events)
      BY <1>0, <1>2, AppendFacts
    <3>2. QED
      BY <1>0, <1>2, <3>1 DEF Commit
  <2>2. excused' \in [Clients -> SUBSET Events]
    BY <1>0, <1>2 DEF Commit, Excuse
  <2>3. open' \subseteq 1..lastId /\ table' \subseteq 1..lastId
    BY <1>0, <1>2 DEF Commit
  <2>4. QED
    BY <1>0, <1>2, <2>1, <2>2, <2>3 DEF Commit, streamVars, TypeOK
<1>3. ASSUME NEW e \in Events, Abort(e) PROVE TypeOK'
  BY <1>0, <1>3 DEF Abort, relayVars, streamVars, TypeOK
<1>4. ASSUME NEW p \in Processes, Relay(p) PROVE TypeOK'
  <2> DEFINE e == Head(inbox[p])
  <2>1. e \in Events /\ Tail(inbox[p]) \in Seq(Events)
    BY <1>0, <1>4, TailFacts DEF Relay
  <2>2. inbox' \in [Processes -> Seq(Events)]
    BY <1>0, <1>4, <2>1 DEF Relay
  <2>3. ASSUME NEW c \in Clients
        PROVE  channel'[c] \in Seq(Events) /\ Len(channel'[c]) <= Capacity
    <3>1. CASE channel'[c] = channel[c]
      BY <1>0, <3>1
    <3>2. CASE channel'[c] = Append(channel[c], e) /\ ~Full(c)
      <4>1. /\ Append(channel[c], e) \in Seq(Events)
            /\ Len(Append(channel[c], e)) = Len(channel[c]) + 1
        BY <1>0, <2>1, AppendFacts
      <4>2. Len(channel[c]) \in Nat /\ ~(Len(channel[c]) >= Capacity)
        BY <1>0, <3>2 DEF Full
      <4>3. QED
        BY <1>0, <3>2, <4>1, <4>2
    <3>3. QED
      BY <1>0, <1>4, <3>1, <3>2 DEF Relay
  <2>4. channel' \in [Clients -> Seq(Events)]
    <3>1. channel' = [c \in Clients |-> channel'[c]]
      BY <1>4 DEF Relay
    <3>2. QED
      BY <2>3, <3>1
  <2>5. dropped' \in [Clients -> SUBSET Events]
    BY <1>0, <1>4, <2>1 DEF Relay
  <2>6. QED
    BY <1>0, <1>4, <2>2, <2>3, <2>4, <2>5 DEF Relay, tableVars, TypeOK
<1>5. ASSUME NEW p \in Processes, RelayDown(p) PROVE TypeOK'
  <2>1. <<>> \in Seq(Events) /\ ToSet(inbox[p]) \subseteq Events
    BY <1>0, EmptyFacts DEF ToSet
  <2>2. inbox' \in [Processes -> Seq(Events)] /\ excused' \in [Clients -> SUBSET Events]
    BY <1>0, <1>5, <2>1 DEF RelayDown, Excuse
  <2>3. QED
    BY <1>0, <1>5, <2>2 DEF RelayDown, tableVars, streamVars, TypeOK
<1>6. ASSUME NEW p \in Processes, RelayUp(p) PROVE TypeOK'
  BY <1>0, <1>6 DEF RelayUp, tableVars, streamVars, TypeOK
<1>7. ASSUME NEW c \in Clients, NEW p \in Processes, Connect(c, p) PROVE TypeOK'
  <2>1. Saved(c) \in 0..MaxEvent
    <3>1. received[c] # <<>> => Last(received[c]) \in Events
      BY <1>0, LastFacts
    <3>2. QED
      BY <1>0, <3>1 DEF Saved, Events
  <2>2. channel' \in [Clients -> Seq(Events)] /\ \A d \in Clients : Len(channel'[d]) <= Capacity
    <3>1. <<>> \in Seq(Events) /\ Len(<<>>) <= Capacity
      BY <1>0, EmptyFacts
    <3>2. QED
      BY <1>0, <1>7, <3>1 DEF Connect
  <2>3. QED
    BY <1>0, <1>7, <2>1, <2>2 DEF Connect, tableVars, relayVars, TypeOK
<1>8. ASSUME NEW c \in Clients, Replay(c) PROVE TypeOK'
  <2> DEFINE seen == table \cap Sees[c]
             later == {e \in seen : e > cursor[c]}
             sent == FirstOf(later, ReplayLimit)
  <2>1. later \in SUBSET Events /\ seen \in SUBSET Events /\ ReplayLimit \in Nat \ {0}
    BY <1>0, RealtimeEventsAssumption
  <2>2. sent \in Seq(Events) /\ received[c] \o sent \in Seq(Events)
    BY <1>0, <2>1, FirstOfFacts, ConcatFacts
  <2>3. sent # <<>> => Last(sent) \in 0..MaxEvent
    <3>1. sent # <<>> => Last(sent) \in Events
      BY <2>2, LastFacts
    <3>2. QED
      BY <1>0, <3>1 DEF Events
  <2>4. Max(seen \cup {0}) \in 0..MaxEvent /\ 0..MaxEvent \subseteq 0..NotStarted
    <3>1. Max(seen \cup {0}) \in 0..MaxEvent
      BY <2>1, MaxFacts
    <3>2. 0..MaxEvent \subseteq 0..NotStarted
      BY <1>0 DEF NotStarted
    <3>3. QED
      BY <3>1, <3>2
  <2>5. /\ stage' = [stage EXCEPT ![c] = "flush"]
        /\ IF cursor[c] > 0
           THEN /\ received' = [received EXCEPT ![c] = @ \o sent]
                /\ cursor' = [cursor EXCEPT ![c] = IF sent = <<>> THEN @ ELSE Last(sent)]
                /\ excused' = [excused EXCEPT ![c] = @ \cup (later \ ToSet(sent))]
                /\ UNCHANGED start
           ELSE /\ cursor' = [cursor EXCEPT ![c] = Max(seen \cup {0})]
                /\ start' = [start EXCEPT ![c] = cursor'[c]]
                /\ UNCHANGED <<received, excused>>
        /\ UNCHANGED <<lastId, open, table, inbox, listening, conn, channel, dropped>>
    BY <1>8 DEF Replay, tableVars, relayVars
  <2> HIDE DEF seen, later, sent
  <2>6. received' \in [Clients -> Seq(Events)] /\ excused' \in [Clients -> SUBSET Events]
    <3> DEFINE all == received[c] \o sent
               cut == excused[c] \cup (later \ ToSet(sent))
    <3>1. all \in Seq(Events) /\ cut \in SUBSET Events
      BY <1>0, <2>1, <2>2
    <3>2. CASE cursor[c] > 0
      <4>1. received' = [received EXCEPT ![c] = all] /\ excused' = [excused EXCEPT ![c] = cut]
        BY <2>5, <3>2
      <4> HIDE DEF all, cut
      <4>2. QED
        BY <1>0, <3>1, <4>1
    <3>3. CASE ~(cursor[c] > 0)
      BY <1>0, <2>5, <3>3
    <3>4. QED
      BY <3>2, <3>3
  <2>7. cursor' \in [Clients -> 0..MaxEvent]
    BY <1>0, <2>3, <2>4, <2>5
  <2>8. start' \in [Clients -> 0..NotStarted]
    <3>1. CASE cursor[c] > 0
      BY <1>0, <2>5, <3>1
    <3>2. CASE ~(cursor[c] > 0)
      <4>1. cursor'[c] \in 0..NotStarted
        BY <2>4, <2>7
      <4>2. QED
        BY <1>0, <2>5, <3>2, <4>1
    <3>3. QED
      BY <3>1, <3>2
  <2>9. QED
    BY <1>0, <2>5, <2>6, <2>7, <2>8 DEF TypeOK
<1>9. ASSUME NEW c \in Clients, Loop(c) PROVE TypeOK'
  BY <1>0, <1>9 DEF Loop, tableVars, relayVars, TypeOK
<1>10. ASSUME NEW c \in Clients, Deliver(c) PROVE TypeOK'
  <2> DEFINE e == Head(channel[c])
  <2>1. /\ e \in Events /\ Tail(channel[c]) \in Seq(Events)
        /\ Len(Tail(channel[c])) = Len(channel[c]) - 1 /\ Len(channel[c]) \in Nat
    BY <1>0, <1>10, TailFacts DEF Deliver
  <2>2. Append(received[c], e) \in Seq(Events) /\ e \in 0..MaxEvent
    BY <1>0, <2>1, AppendFacts DEF Events
  <2>3. /\ channel' = [channel EXCEPT ![c] = Tail(@)]
        /\ IF Fresh(c, e)
           THEN /\ received' = [received EXCEPT ![c] = Append(@, e)]
                /\ cursor' = [cursor EXCEPT ![c] = e]
           ELSE UNCHANGED <<received, cursor>>
        /\ UNCHANGED <<lastId, open, table, inbox, listening, conn, stage, start, dropped, excused>>
    BY <1>10 DEF Deliver, tableVars, relayVars
  <2> HIDE DEF e
  <2>4. received' \in [Clients -> Seq(Events)] /\ cursor' \in [Clients -> 0..MaxEvent]
    BY <1>0, <2>2, <2>3
  <2>5. channel' \in [Clients -> Seq(Events)] /\ \A d \in Clients : Len(channel'[d]) <= Capacity
    <3>1. Len(Tail(channel[c])) <= Capacity
      BY <1>0, <2>1
    <3>2. QED
      BY <1>0, <2>1, <2>3, <3>1
  <2>6. QED
    BY <1>0, <2>3, <2>4, <2>5 DEF TypeOK
<1>11. ASSUME NEW c \in Clients, Disconnect(c) PROVE TypeOK'
  <2>1. channel' \in [Clients -> Seq(Events)] /\ \A d \in Clients : Len(channel'[d]) <= Capacity
    <3>1. <<>> \in Seq(Events) /\ Len(<<>>) <= Capacity
      BY <1>0, EmptyFacts
    <3>2. QED
      BY <1>0, <1>11, <3>1 DEF Disconnect
  <2>2. QED
    BY <1>0, <1>11, <2>1 DEF Disconnect, tableVars, relayVars, TypeOK
<1>12. CASE UNCHANGED vars
  BY <1>12 DEF vars, TypeOK
<1>13. ASSUME NEW p \in Processes, Discard(p) PROVE TypeOK'
  <2>1. Head(inbox[p]) \in Events /\ Tail(inbox[p]) \in Seq(Events)
    BY <1>0, <1>13, TailFacts DEF Discard
  <2>2. inbox' \in [Processes -> Seq(Events)] /\ excused' \in [Clients -> SUBSET Events]
    BY <1>0, <1>13, <2>1 DEF Discard, Excuse
  <2>3. QED
    BY <1>0, <1>13, <2>2 DEF Discard, tableVars, streamVars, TypeOK
<1>14. QED
  BY <1>1, <1>2, <1>3, <1>4, <1>5, <1>6, <1>7, <1>8, <1>9, <1>10, <1>11, <1>12, <1>13 DEF Next

-----------------------------------------------------------------------------
\* What the relay of p does with its next notification, as a client sees it.
Published(p, c, e) ==
  IF conn[c] # p \/ e \notin Sees[c]
  THEN channel'[c] = channel[c] /\ dropped'[c] = dropped[c]
  ELSE \/ channel'[c] = Append(channel[c], e) /\ dropped'[c] = dropped[c]
       \/ channel'[c] = channel[c] /\ dropped'[c] = dropped[c] \cup {e}

LEMMA RelayEffect ==
  ASSUME TypeOK, NEW p \in Processes, Relay(p), NEW X
  PROVE  LET e == Head(inbox[p]) IN
         /\ e \in Events /\ ToSet(inbox[p]) = {e} \cup ToSet(inbox'[p])
         /\ Ordered(inbox[p], X) => Ordered(inbox'[p], X) /\ Before({e}, ToSet(inbox'[p]), X)
         /\ \A q \in Processes : q # p => inbox'[q] = inbox[q]
         /\ \A c \in Clients : Published(p, c, e)
         /\ UNCHANGED <<lastId, open, table, listening, conn, stage, cursor, received, start,
                        excused>>
<1>1. inbox[p] \in Seq(Events) /\ inbox[p] # <<>> /\ inbox' = [inbox EXCEPT ![p] = Tail(inbox[p])]
  BY Types DEF Relay
<1>2. inbox'[p] = Tail(inbox[p]) /\ \A q \in Processes : q # p => inbox'[q] = inbox[q]
  BY <1>1, Types
<1>3. \A c \in Clients : Published(p, c, Head(inbox[p]))
  <2>1. SUFFICES ASSUME NEW c \in Clients PROVE Published(p, c, Head(inbox[p]))
    OBVIOUS
  <2> DEFINE e == Head(inbox[p])
             to == {d \in Clients : conn[d] = p /\ Subscribed(d) /\ e \in Sees[d]}
             full == {d \in to : Full(d)}
  <2>2. /\ channel'[c] = IF c \in to \ full THEN Append(channel[c], e) ELSE channel[c]
        /\ dropped'[c] = dropped[c] \cup IF c \in full THEN {e} ELSE {}
    BY DEF Relay
  <2>3. c \in to <=> conn[c] = p /\ e \in Sees[c]
    BY RealtimeEventsAssumption DEF Subscribed
  <2> HIDE DEF to, e
  <2>4. QED
    BY <2>2, <2>3 DEF Published, e
<1>4. QED
  BY <1>1, <1>2, <1>3, TailFacts DEF Relay, tableVars

(* Passing over a notification takes it from the connection and excuses    *)
(* the streams of the process that have made their replay.                 *)
LEMMA DiscardEffect ==
  ASSUME TypeOK, NEW p \in Processes, Discard(p), NEW X
  PROVE  LET e == Head(inbox[p]) IN
         /\ e \in Events /\ ToSet(inbox[p]) = {e} \cup ToSet(inbox'[p])
         /\ Ordered(inbox[p], X) => Ordered(inbox'[p], X)
         /\ \A q \in Processes : q # p => inbox'[q] = inbox[q]
         /\ \A c \in Clients :
              excused'[c] = excused[c] \cup IF conn[c] = p /\ PastReplay(c) THEN {e} ELSE {}
         /\ UNCHANGED <<lastId, open, table, listening, conn, stage, channel, cursor, received,
                        start, dropped>>
<1>1. inbox[p] \in Seq(Events) /\ inbox[p] # <<>> /\ inbox' = [inbox EXCEPT ![p] = Tail(inbox[p])]
  BY Types DEF Discard
<1>2. inbox'[p] = Tail(inbox[p]) /\ \A q \in Processes : q # p => inbox'[q] = inbox[q]
  BY <1>1, Types
<1>3. \A c \in Clients :
        excused'[c] = excused[c] \cup IF conn[c] = p /\ PastReplay(c) THEN {Head(inbox[p])} ELSE {}
  BY DEF Discard, Excuse
<1>4. QED
  BY <1>1, <1>2, <1>3, TailFacts DEF Discard, tableVars, streamVars

LEMMA StepRelayed == IInv /\ [Next]_vars => Relayed'
<1> SUFFICES ASSUME IInv, [Next]_vars PROVE Relayed'
  OBVIOUS
<1>0. /\ TypeOK /\ open \cap table = {}
      /\ \A p \in Processes : ToSet(inbox[p]) \subseteq table
      /\ \A c \in Clients : ToSet(channel[c]) \subseteq table \cap Sees[c]
      /\ \A c \in Clients : stage[c] = "off" <=> conn[c] = NoProcess
  BY DEF IInv, Relayed
<1>a. /\ inbox \in [Processes -> Seq(Events)]
      /\ conn \in [Clients -> Processes \cup {NoProcess}] /\ NoProcess \notin Processes
      /\ stage \in [Clients -> {"off", "replay", "flush", "loop"}]
      /\ channel \in [Clients -> Seq(Events)]
  BY <1>0, Types, RealtimeEventsAssumption
<1>b. ToSet(<<>>) = {}
  BY EmptyFacts
<1>1. CASE Emit
  <2>1. lastId' \notin table
    BY <1>0, <1>1, Types DEF Emit
  <2>2. QED
    BY <1>0, <1>1, <2>1 DEF Emit, relayVars, streamVars, Relayed
<1>2. ASSUME NEW e \in Events, Commit(e) PROVE Relayed'
  <2>1. ASSUME NEW p \in Processes PROVE ToSet(inbox'[p]) \subseteq table'
    <3>1. ToSet(Append(inbox[p], e)) = ToSet(inbox[p]) \cup {e}
      BY <1>a, AppendFacts
    <3>2. inbox'[p] = Append(inbox[p], e) \/ inbox'[p] = inbox[p]
      BY <1>2 DEF Commit
    <3>3. table' = table \cup {e}
      BY <1>2 DEF Commit
    <3>4. QED
      BY <1>0, <3>1, <3>2, <3>3
  <2>2. QED
    BY <1>0, <1>2, <2>1 DEF Commit, streamVars, Relayed
<1>3. ASSUME NEW e \in Events, Abort(e) PROVE Relayed'
  BY <1>0, <1>3 DEF Abort, relayVars, streamVars, Relayed
<1>4. ASSUME NEW p \in Processes, Relay(p) PROVE Relayed'
  <2> DEFINE e == Head(inbox[p])
  <2>1. /\ e \in Events /\ ToSet(inbox[p]) = {e} \cup ToSet(inbox'[p])
        /\ \A q \in Processes : q # p => inbox'[q] = inbox[q]
        /\ \A c \in Clients : Published(p, c, e)
        /\ UNCHANGED <<open, table, conn, stage>>
    BY <1>0, <1>4, RelayEffect
  <2> HIDE DEF e
  <2>2. ASSUME NEW c \in Clients PROVE ToSet(channel'[c]) \subseteq table \cap Sees[c]
    <3>1. channel'[c] = channel[c] \/ (e \in Sees[c] /\ channel'[c] = Append(channel[c], e))
      BY <2>1 DEF Published
    <3>2. ToSet(Append(channel[c], e)) = ToSet(channel[c]) \cup {e}
      BY <1>a, <2>1, AppendFacts
    <3>3. QED
      BY <1>0, <2>1, <3>1, <3>2
  <2>3. \A q \in Processes : ToSet(inbox'[q]) \subseteq table
    BY <1>0, <2>1
  <2>4. QED
    BY <1>0, <2>1, <2>2, <2>3 DEF Relayed
<1>5. ASSUME NEW p \in Processes, RelayDown(p) PROVE Relayed'
  <2>1. \A q \in Processes : inbox'[q] = inbox[q] \/ inbox'[q] = <<>>
    BY <1>a, <1>5 DEF RelayDown
  <2>2. \A q \in Processes : ToSet(inbox'[q]) \subseteq table
    BY <1>0, <1>b, <2>1
  <2>3. QED
    BY <1>0, <1>5, <2>2 DEF RelayDown, tableVars, streamVars, Relayed
<1>6. ASSUME NEW p \in Processes, RelayUp(p) PROVE Relayed'
  BY <1>0, <1>6 DEF RelayUp, tableVars, streamVars, Relayed
<1>7. ASSUME NEW c \in Clients,
             Disconnect(c) \/ Loop(c) \/ (\E p \in Processes : Connect(c, p))
      PROVE  Relayed'
  <2>1. \A d \in Clients : channel'[d] = channel[d] \/ channel'[d] = <<>>
    BY <1>a, <1>7 DEF Disconnect, Loop, Connect
  <2>2. \A d \in Clients : ToSet(channel'[d]) \subseteq table \cap Sees[d]
    BY <1>0, <1>b, <2>1
  <2>3. \A d \in Clients : stage'[d] = "off" <=> conn'[d] = NoProcess
    BY <1>0, <1>a, <1>7 DEF Disconnect, Loop, Connect
  <2>4. UNCHANGED <<open, table, inbox>>
    BY <1>7 DEF Disconnect, Loop, Connect, tableVars, relayVars
  <2>5. QED
    BY <1>0, <2>2, <2>3, <2>4 DEF Relayed
<1>8. ASSUME NEW c \in Clients, Replay(c) PROVE Relayed'
  BY <1>0, <1>a, <1>8 DEF Replay, tableVars, relayVars, Relayed
<1>9. ASSUME NEW c \in Clients, Deliver(c) PROVE Relayed'
  <2>1. /\ ToSet(channel'[c]) \subseteq ToSet(channel[c])
        /\ \A d \in Clients : d # c => channel'[d] = channel[d]
    <3>1. channel[c] # <<>> /\ channel' = [channel EXCEPT ![c] = Tail(channel[c])]
      BY <1>9 DEF Deliver
    <3>2. ToSet(channel[c]) = {Head(channel[c])} \cup ToSet(Tail(channel[c]))
      BY <1>a, <3>1, TailFacts
    <3>3. QED
      BY <1>a, <3>1, <3>2
  <2>2. UNCHANGED <<open, table, inbox, conn, stage>>
    BY <1>9 DEF Deliver, tableVars, relayVars
  <2>3. \A d \in Clients : ToSet(channel'[d]) \subseteq table \cap Sees[d]
    BY <1>0, <2>1
  <2>4. QED
    BY <1>0, <2>2, <2>3 DEF Relayed
<1>10. CASE UNCHANGED vars
  BY <1>0, <1>10 DEF vars, Relayed
<1>11. ASSUME NEW p \in Processes, Discard(p) PROVE Relayed'
  <2>1. /\ ToSet(inbox'[p]) \subseteq ToSet(inbox[p])
        /\ \A q \in Processes : q # p => inbox'[q] = inbox[q]
        /\ UNCHANGED <<open, table, conn, stage, channel>>
    BY <1>0, <1>11, DiscardEffect
  <2>2. \A q \in Processes : ToSet(inbox'[q]) \subseteq table
    BY <1>0, <2>1
  <2>3. QED
    BY <1>0, <2>1, <2>2 DEF Relayed
<1>12. QED
  BY <1>1, <1>2, <1>3, <1>4, <1>5, <1>6, <1>7, <1>8, <1>9, <1>10, <1>11 DEF Next

-----------------------------------------------------------------------------
LEMMA OrderWeakens ==
  ASSUME NEW X, NEW Y, X \subseteq Y
  PROVE  /\ \A s : Ordered(s, X) => Ordered(s, Y)
         /\ \A S, T : Before(S, T, X) => Before(S, T, Y)
BY DEF Ordered, Before

(* A commit puts its event behind every event on its way, and excuses the  *)
(* clients when one of these is later.                                     *)
LEMMA CommitEffect ==
  ASSUME IInv, NEW e \in Events, Commit(e)
  PROVE  /\ e \notin table /\ table' = table \cup {e}
         /\ \A p \in Processes :
              inbox'[p] = IF p \in listening THEN Append(inbox[p], e) ELSE inbox[p]
         /\ \A c \in Clients :
              /\ excused[c] \subseteq excused'[c]
              /\ Before(table, {e}, excused'[c])
              /\ conn[c] # NoProcess /\ PastReplay(c) => conn[c] \in listening \/ e \in excused'[c]
         /\ UNCHANGED <<lastId, listening, conn, stage, channel, cursor, received, start, dropped>>
<1>1. /\ e \notin table /\ table \subseteq Events
      /\ conn \in [Clients -> Processes \cup {NoProcess}]
  BY Types DEF IInv, Relayed, Commit
<1>2. /\ table' = table \cup {e}
      /\ \A p \in Processes : inbox'[p] = IF p \in listening THEN Append(inbox[p], e) ELSE inbox[p]
      /\ UNCHANGED <<lastId, listening, conn, stage, channel, cursor, received, start, dropped>>
  BY DEF Commit, streamVars
<1>3. ASSUME NEW c \in Clients
      PROVE  /\ excused[c] \subseteq excused'[c]
             /\ Before(table, {e}, excused'[c])
             /\ conn[c] # NoProcess /\ PastReplay(c) => conn[c] \in listening \/ e \in excused'[c]
  <2>1. CASE \E f \in table : f > e
    <3>1. excused'[c] = excused[c] \cup {e}
      BY <2>1 DEF Commit, Excuse
    <3>2. QED
      BY <3>1 DEF Before
  <2>2. CASE ~(\E f \in table : f > e)
    <3>1. \A f \in table : f < e
      <4>1. \A f \in table : f \in Nat /\ e \in Nat /\ f # e /\ ~(f > e)
        BY <1>1, <2>2, RealtimeEventsAssumption DEF Events
      <4>2. QED
        BY <4>1
    <3>2. excused'[c] = excused[c] \cup
            IF conn[c] \in Processes \ listening /\ PastReplay(c) THEN {e} ELSE {}
      BY <2>2 DEF Commit, Excuse
    <3>3. QED
      BY <1>1, <3>1, <3>2 DEF Before
  <2>3. QED
    BY <2>1, <2>2
<1>4. QED
  BY <1>1, <1>2, <1>3

LEMMA StepQueued ==
  ASSUME IInv, [Next]_vars, NEW c \in Clients
  PROVE  Queued(c)'
<1> DEFINE X == excused[c]
           Y == excused'[c]
           Goal == /\ \A p \in Processes : Ordered(inbox'[p], Y)
                   /\ Ordered(channel'[c], Y)
                   /\ conn'[c] # NoProcess => Before(ToSet(channel'[c]), ToSet(inbox'[conn'[c]]), Y)
<1> SUFFICES Goal
  BY DEF Queued
<1>0. /\ \A p \in Processes : Ordered(inbox[p], X)
      /\ Ordered(channel[c], X)
      /\ conn[c] # NoProcess => Before(ToSet(channel[c]), ToSet(inbox[conn[c]]), X)
      /\ \A p \in Processes : ToSet(inbox[p]) \subseteq table
      /\ ToSet(channel[c]) \subseteq table
      /\ conn[c] # NoProcess => conn[c] \in Processes
      /\ TypeOK
  BY Types DEF IInv, Relayed, Queued
<1>a. /\ inbox \in [Processes -> Seq(Events)] /\ channel \in [Clients -> Seq(Events)]
      /\ conn \in [Clients -> Processes \cup {NoProcess}]
      /\ excused \in [Clients -> SUBSET Events]
  BY <1>0, Types
<1>b. /\ ToSet(<<>>) = {} /\ Ordered(<<>>, Y)
      /\ \A S : Before({}, S, Y) /\ Before(S, {}, Y)
  BY EmptyFacts
<1>1. ASSUME X \subseteq Y, inbox' = inbox, channel'[c] = channel[c], conn'[c] = conn[c] PROVE Goal
  BY <1>0, <1>1, OrderWeakens
<1>2. CASE Emit \/ UNCHANGED vars \/ \E e \in Events : Abort(e)
  BY <1>1, <1>2 DEF Emit, Abort, relayVars, streamVars, vars
<1>3. ASSUME NEW e \in Events, Commit(e) PROVE Goal
  <2>1. /\ X \subseteq Y /\ Before(table, {e}, Y) /\ UNCHANGED <<channel, conn>>
        /\ \A p \in Processes : inbox'[p] = inbox[p] \/ inbox'[p] = Append(inbox[p], e)
    BY <1>3, CommitEffect
  <2>2. \A p \in Processes : Before(ToSet(inbox[p]), {e}, Y)
    BY <1>0, <2>1 DEF Before
  <2>3. \A p \in Processes : Ordered(inbox[p], Y)
    BY <1>0, <2>1, OrderWeakens
  <2>4. \A p \in Processes : /\ Ordered(Append(inbox[p], e), Y)
                             /\ ToSet(Append(inbox[p], e)) = ToSet(inbox[p]) \cup {e}
    BY <1>a, <2>2, <2>3, AppendFacts
  <2>5. \A p \in Processes : /\ Ordered(inbox'[p], Y)
                             /\ ToSet(inbox'[p]) \subseteq ToSet(inbox[p]) \cup {e}
    BY <2>1, <2>3, <2>4
  <2>6. conn[c] # NoProcess => Before(ToSet(channel[c]), ToSet(inbox[conn[c]]), Y)
    BY <1>0, <2>1, OrderWeakens
  <2>7. conn[c] # NoProcess => Before(ToSet(channel[c]), ToSet(inbox'[conn[c]]), Y)
    BY <1>0, <2>1, <2>5, <2>6 DEF Before
  <2>8. QED
    BY <1>0, <2>1, <2>5, <2>7, OrderWeakens
<1>4. ASSUME NEW p \in Processes, Relay(p) PROVE Goal
  <2> DEFINE e == Head(inbox[p])
  <2>1. /\ e \in Events /\ ToSet(inbox[p]) = {e} \cup ToSet(inbox'[p])
        /\ Ordered(inbox'[p], Y) /\ Before({e}, ToSet(inbox'[p]), Y)
        /\ \A q \in Processes : q # p => inbox'[q] = inbox[q]
        /\ Published(p, c, e) /\ conn' = conn /\ Y = X
    <3>1. Y = X
      BY <1>4 DEF Relay
    <3>2. QED
      BY <1>0, <1>4, <3>1, RelayEffect
  <2> HIDE DEF e
  <2>2. \A q \in Processes : Ordered(inbox'[q], Y)
    BY <1>0, <2>1
  <2>3. CASE conn[c] = p /\ channel'[c] = Append(channel[c], e)
    <3>1. Before(ToSet(channel[c]), {e}, Y) /\ Before(ToSet(channel[c]), ToSet(inbox'[p]), Y)
      BY <1>0, <2>1, <2>3, RealtimeEventsAssumption DEF Before
    <3>2. Ordered(channel'[c], Y) /\ ToSet(channel'[c]) = ToSet(channel[c]) \cup {e}
      BY <1>0, <1>a, <2>1, <2>3, <3>1, AppendFacts
    <3>3. Before(ToSet(channel'[c]), ToSet(inbox'[p]), Y)
      BY <2>1, <3>1, <3>2 DEF Before
    <3>4. QED
      BY <2>1, <2>2, <2>3, <3>2, <3>3
  <2>4. CASE channel'[c] = channel[c]
    <3>1. conn[c] # NoProcess => ToSet(inbox'[conn[c]]) \subseteq ToSet(inbox[conn[c]])
      BY <1>0, <2>1
    <3>2. conn[c] # NoProcess => Before(ToSet(channel[c]), ToSet(inbox'[conn[c]]), Y)
      BY <1>0, <2>1, <3>1 DEF Before
    <3>3. QED
      BY <1>0, <2>1, <2>2, <2>4, <3>2
  <2>5. QED
    BY <2>1, <2>3, <2>4 DEF Published
<1>5. ASSUME NEW p \in Processes, RelayDown(p) PROVE Goal
  <2>1. /\ \A q \in Processes : inbox'[q] = inbox[q] \/ inbox'[q] = <<>>
        /\ X \subseteq Y /\ UNCHANGED <<channel, conn>>
    BY <1>a, <1>5 DEF RelayDown, Excuse, streamVars
  <2>2. \A q \in Processes : Ordered(inbox'[q], Y) /\ ToSet(inbox'[q]) \subseteq ToSet(inbox[q])
    BY <1>0, <1>b, <2>1, OrderWeakens
  <2>3. conn[c] # NoProcess => Before(ToSet(channel[c]), ToSet(inbox[conn[c]]), Y)
    BY <1>0, <2>1, OrderWeakens
  <2>4. conn[c] # NoProcess => Before(ToSet(channel[c]), ToSet(inbox'[conn[c]]), Y)
    BY <1>0, <2>2, <2>3 DEF Before
  <2>5. QED
    BY <1>0, <2>1, <2>2, <2>4, OrderWeakens
<1>6. ASSUME NEW p \in Processes, RelayUp(p) PROVE Goal
  BY <1>1, <1>6 DEF RelayUp, streamVars
<1>7. ASSUME NEW d \in Clients,
             Disconnect(d) \/ Loop(d) \/ (\E p \in Processes : Connect(d, p))
      PROVE  Goal
  <2>1. /\ channel'[c] = <<>> \/ (channel'[c] = channel[c] /\ conn'[c] = conn[c])
        /\ inbox' = inbox /\ Y = X
    BY <1>a, <1>7 DEF Disconnect, Loop, Connect, relayVars
  <2>2. QED
    BY <1>0, <1>1, <1>b, <2>1
<1>8. ASSUME NEW d \in Clients, Replay(d) PROVE Goal
  <2>1. X \subseteq Y
    BY <1>a, <1>8 DEF Replay
  <2>2. UNCHANGED <<inbox, channel, conn>>
    BY <1>8 DEF Replay, relayVars
  <2>3. QED
    BY <1>1, <2>1, <2>2
<1>9. ASSUME NEW d \in Clients, Deliver(d) PROVE Goal
  <2>1. /\ channel[d] # <<>> /\ channel' = [channel EXCEPT ![d] = Tail(channel[d])]
        /\ inbox' = inbox /\ conn' = conn /\ Y = X
    BY <1>9 DEF Deliver, relayVars
  <2>2. CASE d = c
    <3>1. /\ ToSet(channel[c]) = {Head(channel[c])} \cup ToSet(Tail(channel[c]))
          /\ Ordered(Tail(channel[c]), X) /\ channel'[c] = Tail(channel[c])
      BY <1>0, <1>a, <2>1, <2>2, TailFacts
    <3>2. conn[c] # NoProcess => Before(ToSet(channel'[c]), ToSet(inbox[conn[c]]), X)
      BY <1>0, <3>1 DEF Before
    <3>3. QED
      BY <1>0, <2>1, <3>1, <3>2
  <2>3. CASE d # c
    BY <1>1, <1>a, <2>1, <2>3
  <2>4. QED
    BY <2>2, <2>3
<1>10. ASSUME NEW p \in Processes, Discard(p) PROVE Goal
  <2>1. X \subseteq Y
    BY <1>0, <1>10, DiscardEffect
  <2>2. /\ Ordered(inbox[p], Y) => Ordered(inbox'[p], Y)
        /\ ToSet(inbox'[p]) \subseteq ToSet(inbox[p])
        /\ \A q \in Processes : q # p => inbox'[q] = inbox[q]
        /\ UNCHANGED <<channel, conn>>
    BY <1>0, <1>10, DiscardEffect
  <2>3. \A q \in Processes : Ordered(inbox'[q], Y) /\ ToSet(inbox'[q]) \subseteq ToSet(inbox[q])
    BY <1>0, <2>1, <2>2, OrderWeakens
  <2>4. conn[c] # NoProcess => Before(ToSet(channel[c]), ToSet(inbox[conn[c]]), Y)
    BY <1>0, <2>1, OrderWeakens
  <2>5. conn[c] # NoProcess => Before(ToSet(channel[c]), ToSet(inbox'[conn[c]]), Y)
    BY <1>0, <2>3, <2>4 DEF Before
  <2>6. QED
    BY <1>0, <2>1, <2>2, <2>3, <2>5, OrderWeakens
<1> HIDE DEF Goal
<1>11. QED
  BY <1>2, <1>3, <1>4, <1>5, <1>6, <1>7, <1>8, <1>9, <1>10 DEF Next

-----------------------------------------------------------------------------
\* What holds of the streams of one browser.
Stream(c) ==
  /\ CursorSaved(c) /\ InFlight(c)
  /\ Ordered(received[c], {}) /\ ToSet(received[c]) \subseteq table \cap Sees[c]
  /\ Passed(c) \subseteq Covered(c)

LEMMA StreamHolds == IInv => \A c \in Clients : Stream(c)
BY DEF IInv, InOrderOnce, NoUnexplainedGap, Stream, Covered, Ordered

LEMMA SavedFacts ==
  ASSUME TypeOK, NEW c \in Clients, Ordered(received[c], {})
  PROVE  /\ Saved(c) \in 0..MaxEvent /\ Saved(c) \in Nat
         /\ \A e \in ToSet(received[c]) : e <= Saved(c)
         /\ received[c] = <<>> <=> Saved(c) = 0
         /\ received[c] # <<>> => Saved(c) \in ToSet(received[c])
<1>1. received[c] \in Seq(Events) /\ MaxEvent \in Nat
  BY Types
<1>2. CASE received[c] = <<>>
  BY <1>1, <1>2, EmptyFacts DEF Saved
<1>3. CASE received[c] # <<>>
  <2>1. /\ Saved(c) \in Events /\ Saved(c) \in ToSet(received[c])
        /\ \A e \in ToSet(received[c]) : e <= Saved(c)
    BY <1>1, <1>3, LastFacts DEF Saved
  <2>2. Saved(c) \in 0..MaxEvent /\ Saved(c) \in Nat /\ Saved(c) # 0
    BY <1>1, <2>1 DEF Events
  <2>3. QED
    BY <1>3, <2>1, <2>2
<1>4. QED
  BY <1>2, <1>3

(* A replay sends, in order, events after the cursor, and the client is    *)
(* excused for the rest of these; a browser without a cursor starts after  *)
(* every event there is.                                                   *)
LEMMA ReplayEffect ==
  ASSUME IInv, NEW c \in Clients, Replay(c)
  PROVE  /\ stage[c] = "replay" /\ stage'[c] = "flush"
         /\ UNCHANGED <<table, inbox, conn, channel, dropped>>
         /\ \A d \in Clients : d # c =>
              /\ received'[d] = received[d] /\ cursor'[d] = cursor[d] /\ start'[d] = start[d]
              /\ excused'[d] = excused[d] /\ stage'[d] = stage[d]
         /\ \/ /\ start'[c] = start[c] /\ excused[c] \subseteq excused'[c]
               /\ \E sent \in Seq(Events) :
                    /\ received'[c] = received[c] \o sent
                    /\ cursor'[c] = IF sent = <<>> THEN cursor[c] ELSE Last(sent)
                    /\ Ordered(sent, {})
                    /\ \A e \in ToSet(sent) : e \in table \cap Sees[c] /\ e > cursor[c]
                    /\ \A e \in table \cap Sees[c] :
                         e > cursor[c] => e \in ToSet(sent) \cup excused'[c]
            \/ /\ cursor[c] = 0 /\ received'[c] = received[c] /\ excused'[c] = excused[c]
               /\ cursor'[c] = start'[c]
               /\ \A e \in table \cap Sees[c] : e <= start'[c]
<1> DEFINE seen == table \cap Sees[c]
           later == {e \in seen : e > cursor[c]}
           sent == FirstOf(later, ReplayLimit)
<1>1. /\ stage[c] = "replay" /\ stage' = [stage EXCEPT ![c] = "flush"]
      /\ IF cursor[c] > 0
         THEN /\ received' = [received EXCEPT ![c] = @ \o sent]
              /\ cursor' = [cursor EXCEPT ![c] = IF sent = <<>> THEN @ ELSE Last(sent)]
              /\ excused' = [excused EXCEPT ![c] = @ \cup (later \ ToSet(sent))]
              /\ UNCHANGED start
         ELSE /\ cursor' = [cursor EXCEPT ![c] = Max(seen \cup {0})]
              /\ start' = [start EXCEPT ![c] = cursor'[c]]
              /\ UNCHANGED <<received, excused>>
      /\ UNCHANGED <<table, inbox, conn, channel, dropped>>
  BY DEF Replay, tableVars, relayVars
<1>2. /\ cursor \in [Clients -> 0..MaxEvent] /\ start \in [Clients -> 0..NotStarted]
      /\ stage \in [Clients -> {"off", "replay", "flush", "loop"}]
      /\ received \in [Clients -> Seq(Events)] /\ excused \in [Clients -> SUBSET Events]
      /\ seen \in SUBSET Events /\ later \in SUBSET Events /\ ReplayLimit \in Nat \ {0}
  BY Types, RealtimeEventsAssumption DEF IInv
<1>3. sent \in Seq(Events) /\ ToSet(sent) \subseteq later /\ Ordered(sent, {})
  BY <1>2, FirstOfFacts
<1>4. \A e \in seen : e <= Max(seen \cup {0})
  BY <1>2, MaxFacts
<1>5. \A e \in later : e \in seen /\ e > cursor[c]
  OBVIOUS
<1>6. \A e \in seen : e > cursor[c] => e \in later
  OBVIOUS
<1> HIDE DEF sent, later
<1>7. CASE cursor[c] > 0
  <2>1. /\ received'[c] = received[c] \o sent
        /\ cursor'[c] = IF sent = <<>> THEN cursor[c] ELSE Last(sent)
        /\ excused'[c] = excused[c] \cup (later \ ToSet(sent)) /\ start' = start
        /\ \A d \in Clients : d # c =>
             received'[d] = received[d] /\ cursor'[d] = cursor[d] /\ excused'[d] = excused[d]
    BY <1>1, <1>2, <1>7
  <2>2. /\ \A e \in ToSet(sent) : e \in seen /\ e > cursor[c]
        /\ \A e \in seen : e > cursor[c] => e \in ToSet(sent) \cup excused'[c]
    BY <1>3, <1>5, <1>6, <2>1
  <2>3. stage'[c] = "flush" /\ \A d \in Clients : d # c => stage'[d] = stage[d]
    BY <1>1, <1>2
  <2> HIDE DEF seen
  <2>4. QED
    BY <1>1, <1>3, <2>1, <2>2, <2>3 DEF seen
<1>8. CASE ~(cursor[c] > 0)
  <2>1. cursor[c] = 0
    BY <1>2, <1>8
  <2>2. /\ cursor'[c] = Max(seen \cup {0}) /\ start'[c] = cursor'[c]
        /\ received' = received /\ excused' = excused
        /\ \A d \in Clients : d # c => cursor'[d] = cursor[d] /\ start'[d] = start[d]
    BY <1>1, <1>2, <1>8
  <2>3. stage'[c] = "flush" /\ \A d \in Clients : d # c => stage'[d] = stage[d]
    BY <1>1, <1>2
  <2>4. \A e \in seen : e <= start'[c]
    BY <1>4, <2>2
  <2> HIDE DEF seen
  <2>5. QED
    BY <1>1, <2>1, <2>2, <2>3, <2>4 DEF seen
<1>9. QED
  BY <1>7, <1>8

(* What a browser has when its stream has been replayed.                   *)
LEMMA ReplayStream ==
  ASSUME IInv, NEW c \in Clients, Replay(c)
  PROVE  Stream(c)'
<1>0. /\ TypeOK /\ Stream(c) /\ received[c] \in Seq(Events) /\ cursor[c] \in Nat
      /\ table \subseteq Events /\ \A e \in Events : e \in Nat
      /\ cursor[c] = Saved(c)
  BY StreamHolds, ReplayEffect, Types, RealtimeEventsAssumption
     DEF IInv, Stream, CursorSaved, Events
<1>1. /\ stage'[c] = "flush" /\ UNCHANGED <<table, dropped>>
  BY ReplayEffect
<1>2. /\ Saved(c) \in Nat
      /\ \A e \in ToSet(received[c]) : e <= Saved(c)
      /\ received[c] = <<>> <=> Saved(c) = 0
  BY <1>0, SavedFacts DEF Stream
<1>3. CASE /\ start'[c] = start[c] /\ excused[c] \subseteq excused'[c]
           /\ \E sent \in Seq(Events) :
                    /\ received'[c] = received[c] \o sent
                    /\ cursor'[c] = IF sent = <<>> THEN cursor[c] ELSE Last(sent)
                    /\ Ordered(sent, {})
                    /\ \A e \in ToSet(sent) : e \in table \cap Sees[c] /\ e > cursor[c]
                    /\ \A e \in table \cap Sees[c] :
                         e > cursor[c] => e \in ToSet(sent) \cup excused'[c]
  <2>1. PICK sent \in Seq(Events) :
          /\ received'[c] = received[c] \o sent
          /\ cursor'[c] = IF sent = <<>> THEN cursor[c] ELSE Last(sent)
          /\ Ordered(sent, {})
          /\ \A e \in ToSet(sent) : e \in table \cap Sees[c] /\ e > cursor[c]
          /\ \A e \in table \cap Sees[c] : e > cursor[c] => e \in ToSet(sent) \cup excused'[c]
    BY <1>3
  <2>2. Before(ToSet(received[c]), ToSet(sent), {})
    <3>1. SUFFICES ASSUME NEW e \in ToSet(received[c]), NEW f \in ToSet(sent) PROVE e < f
      BY DEF Before
    <3>2. e <= Saved(c) /\ f > Saved(c) /\ e \in Nat /\ f \in Nat
      BY <1>0, <1>2, <2>1 DEF Stream
    <3>3. QED
      BY <1>2, <3>2
  <2>3. /\ ToSet(received'[c]) = ToSet(received[c]) \cup ToSet(sent)
        /\ Ordered(received'[c], {})
        /\ sent # <<>> => received'[c] # <<>> /\ Last(received'[c]) = Last(sent)
        /\ sent = <<>> => received'[c] = received[c]
    BY <1>0, <2>1, <2>2, ConcatFacts DEF Stream
  <2>4. Saved(c)' = cursor'[c]
    BY <1>0, <2>1, <2>3 DEF Saved
  <2>5. ToSet(received'[c]) \subseteq table \cap Sees[c]
    BY <1>0, <2>1, <2>3 DEF Stream
  <2>6. \A e \in table \cap Sees[c] : start[c] < e => e \in Covered(c)'
    <3>1. SUFFICES ASSUME NEW e \in table \cap Sees[c], start[c] < e PROVE e \in Covered(c)'
      OBVIOUS
    <3>2. CASE e > cursor[c]
      BY <2>1, <2>3, <3>2 DEF Covered
    <3>3. CASE ~(e > cursor[c])
      <4>1. e <= Saved(c)
        BY <1>0, <3>3
      <4>2. e \in Covered(c)
        BY <1>0, <3>1, <4>1 DEF Stream, Passed
      <4>3. QED
        BY <1>1, <1>3, <2>3, <4>2 DEF Covered
    <3>4. QED
      BY <3>2, <3>3
  <2>7. CursorSaved(c)'
    BY <1>1, <2>4 DEF CursorSaved
  <2>8. \A e \in table' \cap Sees[c] : start'[c] < e => e \in Covered(c)'
    BY <1>1, <1>3, <2>6
  <2>9. InFlight(c)'
    <3>1. start'[c] \in Int /\ \A e \in table' : e \in Int
      BY <1>0, <1>1, <1>3, Types DEF NotStarted
    <3>2. \A e \in table' \cap Sees[c] : e > start'[c] => e \in Covered(c)'
      BY <2>8, <3>1
    <3>3. QED
      BY <3>2 DEF InFlight
  <2>10. (Passed(c) \subseteq Covered(c))'
    BY <2>8 DEF Passed
  <2>11. (ToSet(received[c]) \subseteq table \cap Sees[c])'
    BY <1>1, <2>5
  <2>12. QED
    BY <2>3, <2>7, <2>9, <2>10, <2>11 DEF Stream
<1>4. CASE /\ cursor[c] = 0 /\ received'[c] = received[c] /\ excused'[c] = excused[c]
           /\ cursor'[c] = start'[c]
           /\ \A e \in table \cap Sees[c] : e <= start'[c]
  <2>1. received'[c] = <<>> /\ received[c] = <<>>
    BY <1>0, <1>2, <1>4
  <2>2. CursorSaved(c)'
    BY <1>1, <1>4, <2>1 DEF CursorSaved
  <2>3. start'[c] \in Int
    <3>1. TypeOK' /\ NotStarted \in Nat
      BY <1>0, StepTypeOK, RealtimeEventsAssumption DEF Next, NotStarted
    <3>2. start' \in [Clients -> 0..NotStarted]
      BY <3>1 DEF TypeOK, NotStarted
    <3>3. QED
      BY <3>1, <3>2
  <2>4. \A e \in table' \cap Sees[c] : ~(e > start'[c]) /\ ~(start'[c] < e)
    BY <1>0, <1>1, <1>4, <2>3
  <2>5. InFlight(c)' /\ (Passed(c) \subseteq Covered(c))'
    BY <2>4 DEF InFlight, Passed
  <2>6. QED
    BY <1>0, <1>1, <2>1, <2>2, <2>5 DEF Stream
<1>5. QED
  BY <1>3, <1>4, ReplayEffect

(* A stream that takes the next event from its channel passes only events  *)
(* that are covered: an event on its way behind this one is later, or was  *)
(* committed out of order.                                                 *)
LEMMA DeliverStream ==
  ASSUME IInv, NEW c \in Clients, Deliver(c)
  PROVE  Stream(c)'
<1> DEFINE e == Head(channel[c])
           rest == Tail(channel[c])
<1>0. /\ TypeOK /\ Stream(c) /\ Queued(c)
      /\ received[c] \in Seq(Events) /\ channel[c] \in Seq(Events) /\ channel[c] # <<>>
      /\ cursor[c] \in Nat /\ start[c] \in Nat /\ \A f \in Events : f \in Nat
      /\ table \subseteq Events /\ ToSet(channel[c]) \subseteq table \cap Sees[c]
      /\ stage[c] = "loop" /\ conn[c] # NoProcess
  BY StreamHolds, Types, RealtimeEventsAssumption
     DEF IInv, Relayed, Events, NotStarted, Deliver
<1>1. /\ e \in Events /\ e \in table \cap Sees[c]
      /\ ToSet(channel[c]) = {e} \cup ToSet(rest)
      /\ Before({e}, ToSet(rest), excused[c])
      /\ Before({e}, ToSet(inbox[conn[c]]), excused[c])
  <2>1. /\ e \in Events /\ ToSet(channel[c]) = {e} \cup ToSet(rest)
        /\ Before({e}, ToSet(rest), excused[c])
    BY <1>0, TailFacts DEF Queued
  <2>2. Before({e}, ToSet(inbox[conn[c]]), excused[c])
    BY <1>0, <2>1 DEF Queued, Before
  <2>3. QED
    BY <1>0, <2>1, <2>2
<1>2. /\ UNCHANGED <<table, inbox, conn, stage, start, dropped, excused>>
      /\ channel'[c] = rest
  BY <1>0, Types DEF Deliver, tableVars, relayVars
<1>3. /\ Saved(c) \in Nat /\ Saved(c) <= cursor[c]
      /\ cursor[c] = Saved(c) \/ cursor[c] = start[c]
      /\ \A f \in ToSet(received[c]) : f <= Saved(c)
  <2>1. /\ Saved(c) \in Nat /\ \A f \in ToSet(received[c]) : f <= Saved(c)
        /\ received[c] = <<>> <=> Saved(c) = 0
    BY <1>0, SavedFacts DEF Stream
  <2>2. cursor[c] = Saved(c) \/ (received[c] = <<>> /\ cursor[c] = start[c])
    BY <1>0 DEF Stream, CursorSaved
  <2>3. QED
    BY <1>0, <2>1, <2>2
<1> HIDE DEF e, rest
<1>4. \A f \in table \cap Sees[c] :
        f > cursor[c] /\ f > start[c] =>
          f \in Covered(c) \cup {e} \cup ToSet(rest) \cup ToSet(inbox[conn[c]])
  BY <1>0, <1>1 DEF Stream, InFlight
<1>5. \A f \in table \cap Sees[c] : start[c] < f /\ f <= Saved(c) => f \in Covered(c)
  BY <1>0 DEF Stream, Passed
<1>6. CASE ~Fresh(c, e)
  <2>1. UNCHANGED <<received, cursor>> /\ ~(e > cursor[c])
    BY <1>6 DEF Deliver, Fresh, e
  <2>2. InFlight(c)'
    BY <1>2, <1>4, <2>1 DEF InFlight, Covered
  <2>3. CursorSaved(c)' /\ (Passed(c) \subseteq Covered(c))'
    BY <1>0, <1>2, <2>1 DEF Stream, CursorSaved, Saved, Passed, Covered
  <2>4. QED
    BY <1>0, <1>2, <2>1, <2>2, <2>3 DEF Stream
<1>7. CASE Fresh(c, e)
  <2>1. /\ received'[c] = Append(received[c], e) /\ cursor'[c] = e /\ e > cursor[c]
    BY <1>0, <1>7, Types DEF Deliver, Fresh, e
  <2>2. Before(ToSet(received[c]), {e}, {})
    <3>1. \A f \in ToSet(received[c]) : f \in Nat /\ f <= Saved(c)
      BY <1>0, <1>3 DEF Stream
    <3>2. e \in Nat
      BY <1>0, <1>1
    <3>3. \A f \in ToSet(received[c]) : f < e
      BY <1>0, <1>3, <2>1, <3>1, <3>2
    <3>4. QED
      BY <3>3 DEF Before
  <2>3. /\ received'[c] # <<>> /\ Last(received'[c]) = e
        /\ ToSet(received'[c]) = ToSet(received[c]) \cup {e}
        /\ Ordered(received'[c], {})
    <3>1. Ordered(received[c], {})
      BY <1>0 DEF Stream
    <3> DEFINE r == Append(received[c], e)
    <3>2. received[c] \in Seq(Events) /\ e \in Events
      BY <1>0, <1>1
    <3>3. /\ r # <<>> /\ Last(r) = e /\ ToSet(r) = ToSet(received[c]) \cup {e}
          /\ Ordered(r, {})
      BY <2>2, <3>1, <3>2, AppendFacts
    <3> HIDE DEF r
    <3>4. received'[c] = r
      BY <2>1 DEF r
    <3>5. QED
      BY <3>3, <3>4
  <2>4. Saved(c)' = e
    BY <2>3 DEF Saved
  <2>5. CursorSaved(c)'
    BY <1>0, <1>2, <2>1, <2>4 DEF CursorSaved
  <2>6. Covered(c)' = Covered(c) \cup {e}
    BY <1>2, <2>3 DEF Covered
  <2>7. ASSUME NEW f \in table \cap Sees[c], f > start[c], f > e
        PROVE  f \in Covered(c)' \cup ToSet(rest) \cup ToSet(inbox[conn[c]])
    <3>1. f > cursor[c]
      BY <1>0, <1>1, <2>1, <2>7
    <3>2. QED
      BY <1>4, <2>6, <2>7, <3>1
  <2>8. InFlight(c)'
    BY <1>2, <2>1, <2>7 DEF InFlight
  <2>9. ASSUME NEW f \in table \cap Sees[c], start[c] < f, f <= e
        PROVE  f \in Covered(c)'
    <3>0. f \in Nat /\ e \in Nat
      BY <1>0, <1>1
    <3>1. CASE f = e
      BY <2>6, <3>1
    <3>2. CASE f <= Saved(c)
      BY <1>5, <2>6, <2>9, <3>2
    <3>3. CASE f # e /\ ~(f <= Saved(c))
      <4>1. f > cursor[c] /\ f > start[c] /\ ~(e < f)
        BY <1>0, <1>3, <2>9, <3>0, <3>3
      <4>2. f \in Covered(c) \cup ToSet(rest) \cup ToSet(inbox[conn[c]])
        BY <1>4, <3>3, <4>1
      <4>3. f \in ToSet(rest) \cup ToSet(inbox[conn[c]]) => f \in excused[c]
        BY <1>1, <4>1 DEF Before
      <4>4. QED
        BY <2>6, <4>2, <4>3 DEF Covered
    <3>4. QED
      BY <3>1, <3>2, <3>3
  <2>10. (Passed(c) \subseteq Covered(c))'
    BY <1>2, <2>4, <2>9 DEF Passed
  <2>11. (ToSet(received[c]) \subseteq table \cap Sees[c])'
    BY <1>0, <1>1, <1>2, <2>3 DEF Stream
  <2>12. QED
    BY <2>3, <2>5, <2>8, <2>10, <2>11 DEF Stream
<1>8. QED
  BY <1>6, <1>7

LEMMA StepStream ==
  ASSUME IInv, [Next]_vars, NEW c \in Clients
  PROVE  Stream(c)'
<1> DEFINE Goal == Stream(c)'
<1>0. /\ TypeOK /\ Stream(c)
      /\ inbox \in [Processes -> Seq(Events)] /\ channel \in [Clients -> Seq(Events)]
      /\ conn \in [Clients -> Processes \cup {NoProcess}]
      /\ stage \in [Clients -> {"off", "replay", "flush", "loop"}]
      /\ received \in [Clients -> Seq(Events)] /\ cursor \in [Clients -> 0..MaxEvent]
      /\ stage[c] = "off" <=> conn[c] = NoProcess
      /\ table \subseteq Events /\ \A e \in Events : e \in Nat
  BY StreamHolds, Types, RealtimeEventsAssumption DEF IInv, Relayed, Events
<1>1. ASSUME received'[c] = received[c], start'[c] = start[c], dropped'[c] = dropped[c],
             excused'[c] = excused[c], table' = table,
             stage'[c] \in {"flush", "loop"} =>
               /\ stage[c] \in {"flush", "loop"} /\ cursor'[c] = cursor[c]
               /\ conn'[c] = conn[c] /\ inbox' = inbox /\ channel'[c] = channel[c],
             stage'[c] = "replay" => cursor'[c] = Saved(c)
      PROVE  Goal
  <2>1. Saved(c)' = Saved(c) /\ Covered(c)' = Covered(c)
    BY <1>1 DEF Saved, Covered
  <2>2. CursorSaved(c)'
    BY <1>0, <1>1, <2>1 DEF Stream, CursorSaved
  <2>3. InFlight(c)'
    BY <1>0, <1>1, <2>1 DEF Stream, InFlight
  <2>4. QED
    BY <1>0, <1>1, <2>1, <2>2, <2>3 DEF Stream, Passed
<1>2. ASSUME UNCHANGED <<table, inbox, streamVars, dropped, excused>> PROVE Goal
  BY <1>0, <1>1, <1>2 DEF streamVars, Stream, CursorSaved
<1>3. ASSUME Emit \/ UNCHANGED vars \/ \E e \in Events : Abort(e) PROVE Goal
  BY <1>2, <1>3 DEF Emit, Abort, relayVars, streamVars, vars
<1>4. ASSUME NEW e \in Events, Commit(e) PROVE Goal
  <2>1. /\ e \notin table /\ table' = table \cup {e}
        /\ \A p \in Processes :
             inbox'[p] = IF p \in listening THEN Append(inbox[p], e) ELSE inbox[p]
        /\ excused[c] \subseteq excused'[c] /\ Before(table, {e}, excused'[c])
        /\ conn[c] # NoProcess /\ PastReplay(c) => conn[c] \in listening \/ e \in excused'[c]
        /\ UNCHANGED <<listening, conn, stage, channel, cursor, received, start, dropped>>
    BY <1>4, CommitEffect
  <2>2. Covered(c) \subseteq Covered(c)' /\ Saved(c)' = Saved(c)
    BY <2>1 DEF Covered, Saved
  <2>3. \A p \in Processes :
          /\ ToSet(inbox[p]) \subseteq ToSet(inbox'[p])
          /\ p \in listening => e \in ToSet(inbox'[p])
    <3>1. \A p \in Processes : ToSet(Append(inbox[p], e)) = ToSet(inbox[p]) \cup {e}
      BY <1>0, <1>4, AppendFacts
    <3>2. QED
      BY <2>1, <3>1
  <2>4. CursorSaved(c)'
    BY <1>0, <2>1, <2>2 DEF Stream, CursorSaved
  <2>5. InFlight(c)'
    <3>1. ASSUME stage[c] \in {"flush", "loop"}, NEW f \in table' \cap Sees[c],
                 f > cursor[c], f > start[c]
          PROVE  f \in Covered(c)' \cup ToSet(channel[c]) \cup ToSet(inbox'[conn[c]])
      <4>1. conn[c] \in Processes
        BY <1>0, <3>1
      <4>2. CASE f = e
        <5>1. conn[c] \in listening \/ e \in excused'[c]
          BY <1>0, <2>1, <3>1 DEF PastReplay
        <5>2. QED
          BY <2>3, <4>1, <4>2, <5>1 DEF Covered
      <4>3. CASE f # e
        BY <1>0, <2>1, <2>2, <2>3, <3>1, <4>1, <4>3 DEF Stream, InFlight
      <4>4. QED
        BY <4>2, <4>3
    <3>2. QED
      BY <2>1, <3>1 DEF InFlight
  <2>6. (Passed(c) \subseteq Covered(c))'
    <3>1. SUFFICES ASSUME NEW f \in table' \cap Sees[c], start[c] < f, f <= Saved(c)
                   PROVE  f \in Covered(c)'
      BY <2>1, <2>2 DEF Passed
    <3>2. CASE f \in table
      BY <1>0, <2>2, <3>1, <3>2 DEF Stream, Passed
    <3>3. CASE f = e
      <4>1. /\ received[c] # <<>> => Saved(c) \in ToSet(received[c])
            /\ received[c] = <<>> <=> Saved(c) = 0
        BY <1>0, SavedFacts DEF Stream
      <4>2. e \in Nat /\ e # 0
        BY <1>0 DEF Events
      <4>3. Saved(c) \in table /\ Saved(c) \in Nat
        BY <1>0, <3>1, <3>3, <4>1, <4>2 DEF Stream
      <4>4. ~(Saved(c) < e)
        BY <3>1, <3>3, <4>2, <4>3
      <4>5. e \in excused'[c]
        BY <2>1, <4>3, <4>4 DEF Before
      <4>6. QED
        BY <3>3, <4>5 DEF Covered
    <3>4. QED
      BY <2>1, <3>2, <3>3
  <2>7. QED
    BY <1>0, <2>1, <2>4, <2>5, <2>6 DEF Stream
<1>5. ASSUME NEW p \in Processes, Relay(p) PROVE Goal
  <2> DEFINE e == Head(inbox[p])
  <2>1. /\ e \in Events /\ ToSet(inbox[p]) = {e} \cup ToSet(inbox'[p])
        /\ \A q \in Processes : q # p => inbox'[q] = inbox[q]
        /\ Published(p, c, e)
        /\ UNCHANGED <<table, conn, stage, cursor, received, start, excused>>
    BY <1>0, <1>5, RelayEffect
  <2> HIDE DEF e
  <2>2. ToSet(Append(channel[c], e)) = ToSet(channel[c]) \cup {e}
    BY <1>0, <2>1, AppendFacts
  <2>3. /\ ToSet(channel[c]) \subseteq ToSet(channel'[c]) /\ dropped[c] \subseteq dropped'[c]
        /\ conn[c] = p /\ e \in Sees[c] => e \in ToSet(channel'[c]) \cup dropped'[c]
    BY <2>1, <2>2 DEF Published
  <2>4. /\ Covered(c) \subseteq Covered(c)' /\ dropped'[c] \subseteq Covered(c)'
        /\ Saved(c)' = Saved(c)
    BY <2>1, <2>3 DEF Covered, Saved
  <2>5. CursorSaved(c)' /\ (Passed(c) \subseteq Covered(c))'
    BY <1>0, <2>1, <2>4 DEF Stream, CursorSaved, Passed
  <2>6. InFlight(c)'
    <3>1. ASSUME stage[c] \in {"flush", "loop"}, NEW f \in table \cap Sees[c],
                 f > cursor[c], f > start[c]
          PROVE  f \in Covered(c)' \cup ToSet(channel'[c]) \cup ToSet(inbox'[conn[c]])
      <4>1. f \in Covered(c) \cup ToSet(channel[c]) \cup ToSet(inbox[conn[c]])
        BY <1>0, <3>1 DEF Stream, InFlight
      <4>2. conn[c] \in Processes
        BY <1>0, <3>1
      <4>3. CASE conn[c] = p
        BY <2>1, <2>3, <2>4, <4>1, <4>3
      <4>4. CASE conn[c] # p
        BY <2>1, <2>3, <2>4, <4>1, <4>2, <4>4
      <4>5. QED
        BY <4>3, <4>4
    <3>2. QED
      BY <2>1, <3>1 DEF InFlight
  <2>7. QED
    BY <1>0, <2>1, <2>5, <2>6 DEF Stream
<1>6. ASSUME NEW p \in Processes, RelayDown(p) PROVE Goal
  <2>1. /\ UNCHANGED <<table, conn, stage, channel, cursor, received, start, dropped>>
        /\ \A q \in Processes : q # p => inbox'[q] = inbox[q]
        /\ excused'[c] = excused[c] \cup
                          IF conn[c] = p /\ PastReplay(c) THEN ToSet(inbox[p]) ELSE {}
    BY <1>0, <1>6 DEF RelayDown, Excuse, tableVars, streamVars
  <2>2. /\ Covered(c) \subseteq Covered(c)' /\ excused'[c] \subseteq Covered(c)'
        /\ Saved(c)' = Saved(c)
    BY <2>1 DEF Covered, Saved
  <2>3. CursorSaved(c)' /\ (Passed(c) \subseteq Covered(c))'
    BY <1>0, <2>1, <2>2 DEF Stream, CursorSaved, Passed
  <2>4. InFlight(c)'
    <3>1. ASSUME stage[c] \in {"flush", "loop"}, NEW f \in table \cap Sees[c],
                 f > cursor[c], f > start[c]
          PROVE  f \in Covered(c)' \cup ToSet(channel[c]) \cup ToSet(inbox'[conn[c]])
      <4>1. f \in Covered(c) \cup ToSet(channel[c]) \cup ToSet(inbox[conn[c]])
        BY <1>0, <3>1 DEF Stream, InFlight
      <4>2. conn[c] \in Processes
        BY <1>0, <3>1
      <4>3. CASE conn[c] = p
        BY <2>1, <2>2, <3>1, <4>1, <4>3 DEF PastReplay
      <4>4. CASE conn[c] # p
        BY <2>1, <2>2, <4>1, <4>2, <4>4
      <4>5. QED
        BY <4>3, <4>4
    <3>2. QED
      BY <2>1, <3>1 DEF InFlight
  <2>5. QED
    BY <1>0, <2>1, <2>3, <2>4 DEF Stream
<1>7. ASSUME NEW p \in Processes, RelayUp(p) PROVE Goal
  BY <1>2, <1>7 DEF RelayUp, tableVars
<1>8. ASSUME NEW d \in Clients,
             Disconnect(d) \/ Loop(d) \/ (\E p \in Processes : Connect(d, p))
      PROVE  Goal
  <2>1. UNCHANGED <<table, inbox, received, start, dropped, excused>>
    BY <1>8 DEF Disconnect, Loop, Connect, tableVars, relayVars
  <2>2. stage'[c] \in {"flush", "loop"} =>
               /\ stage[c] \in {"flush", "loop"} /\ cursor'[c] = cursor[c]
               /\ conn'[c] = conn[c] /\ channel'[c] = channel[c]
    BY <1>0, <1>8 DEF Disconnect, Loop, Connect
  <2>3. stage'[c] = "replay" => cursor'[c] = Saved(c)
    BY <1>0, <1>8 DEF Disconnect, Loop, Connect, Stream, CursorSaved
  <2>4. QED
    BY <1>1, <2>1, <2>2, <2>3
<1>9. ASSUME NEW d \in Clients, Replay(d), d # c PROVE Goal
  BY <1>0, <1>1, <1>9, ReplayEffect DEF Stream, CursorSaved
<1>10. ASSUME NEW d \in Clients, Deliver(d), d # c PROVE Goal
  <2>1. /\ UNCHANGED <<table, inbox, conn, stage, start, dropped, excused>>
        /\ channel'[c] = channel[c] /\ received'[c] = received[c] /\ cursor'[c] = cursor[c]
    BY <1>0, <1>10 DEF Deliver, tableVars, relayVars
  <2>2. QED
    BY <1>0, <1>1, <2>1 DEF Stream, CursorSaved
<1>11. ASSUME Replay(c) \/ Deliver(c) PROVE Goal
  BY <1>11, ReplayStream, DeliverStream
<1>12. ASSUME NEW p \in Processes, Discard(p) PROVE Goal
  <2> DEFINE e == Head(inbox[p])
  <2>1. /\ UNCHANGED <<table, conn, stage, channel, cursor, received, start, dropped>>
        /\ ToSet(inbox[p]) = {e} \cup ToSet(inbox'[p])
        /\ \A q \in Processes : q # p => inbox'[q] = inbox[q]
        /\ excused'[c] = excused[c] \cup IF conn[c] = p /\ PastReplay(c) THEN {e} ELSE {}
    BY <1>0, <1>12, DiscardEffect
  <2> HIDE DEF e
  <2>2. /\ Covered(c) \subseteq Covered(c)' /\ excused'[c] \subseteq Covered(c)'
        /\ Saved(c)' = Saved(c)
    BY <2>1 DEF Covered, Saved
  <2>3. CursorSaved(c)' /\ (Passed(c) \subseteq Covered(c))'
    BY <1>0, <2>1, <2>2 DEF Stream, CursorSaved, Passed
  <2>4. InFlight(c)'
    <3>1. ASSUME stage[c] \in {"flush", "loop"}, NEW f \in table \cap Sees[c],
                 f > cursor[c], f > start[c]
          PROVE  f \in Covered(c)' \cup ToSet(channel[c]) \cup ToSet(inbox'[conn[c]])
      <4>1. f \in Covered(c) \cup ToSet(channel[c]) \cup ToSet(inbox[conn[c]])
        BY <1>0, <3>1 DEF Stream, InFlight
      <4>2. conn[c] \in Processes
        BY <1>0, <3>1
      <4>3. CASE conn[c] = p
        BY <2>1, <2>2, <3>1, <4>1, <4>3 DEF PastReplay
      <4>4. CASE conn[c] # p
        BY <2>1, <2>2, <4>1, <4>2, <4>4
      <4>5. QED
        BY <4>3, <4>4
    <3>2. QED
      BY <2>1, <3>1 DEF InFlight
  <2>5. QED
    BY <1>0, <2>1, <2>3, <2>4 DEF Stream
<1> HIDE DEF Goal
<1>13. Goal
  BY <1>3, <1>4, <1>5, <1>6, <1>7, <1>8, <1>9, <1>10, <1>11, <1>12 DEF Next
<1>14. QED
  BY <1>13 DEF Goal

-----------------------------------------------------------------------------
LEMMA StepIInv == IInv /\ [Next]_vars => IInv'
<1> SUFFICES ASSUME IInv, [Next]_vars PROVE IInv'
  OBVIOUS
<1>1. TypeOK' /\ Relayed'
  BY StepTypeOK, StepRelayed DEF IInv
<1>2. \A c \in Clients : Queued(c)' /\ Stream(c)'
  BY StepQueued, StepStream
<1>3. \A c \in Clients : CursorSaved(c)' /\ InFlight(c)'
  BY <1>2 DEF Stream
<1>4. InOrderOnce' /\ NoUnexplainedGap'
  BY <1>2 DEF InOrderOnce, NoUnexplainedGap, Stream, Covered, Ordered
<1>5. QED
  BY <1>1, <1>2, <1>3, <1>4 DEF IInv

LEMMA Invariance == Spec => []IInv
BY InitIInv, StepIInv, PTL DEF Spec

(* Every event, channel and cursor is one of those the code distinguishes, *)
(* and a subscriber's channel never holds more than its capacity.          *)
THEOREM TypeInvariance == Spec => []TypeOK
<1>1. IInv => TypeOK
  BY DEF IInv
<1>2. QED
  BY <1>1, Invariance, PTL

(* What a browser is sent over any number of streams is in the order of    *)
(* the ids, never twice, of its own user and committed.                    *)
THEOREM DeliveryInOrder == Spec => []InOrderOnce
<1>1. IInv => InOrderOnce
  BY DEF IInv
<1>2. QED
  BY <1>1, Invariance, PTL

(* An event that a browser's cursor has passed was sent to it, dropped by  *)
(* the hub, or lost for one of the known reasons.                          *)
THEOREM GapsExplained == Spec => []NoUnexplainedGap
<1>1. IInv => NoUnexplainedGap
  BY DEF IInv
<1>2. QED
  BY <1>1, Invariance, PTL
=============================================================================
