----------------------- MODULE CharmTracingBufferProofs -----------------------
(***************************************************************************)
(* Proofs about CharmTracingBuffer, for any limits of the file, any sizes  *)
(* of the batches and any number of them in a hook. First what the sizes   *)
(* of entries add up to, then what saving a batch leaves in the file, then *)
(* the hooks.                                                              *)
(***************************************************************************)
EXTENDS CharmTracingBuffer, TLAPS, NaturalsInduction, WellFoundedInduction, SequenceTheorems

(***************************************************************************)
(* Sizes.                                                                  *)
(*                                                                         *)
(* What Sums defines is computed by induction. The induction is on sets of *)
(* numbers, as the principle for predicates cannot be cited.               *)
(***************************************************************************)

\* A set of numbers with 0 and the successor of each of its members has them all.
LEMMA SetInduction ==
  ASSUME NEW S, 0 \in S, \A n \in Nat : n \in S => n + 1 \in S
  PROVE  Nat \subseteq S
<1> SUFFICES ASSUME Nat \ S # {} PROVE FALSE
  OBVIOUS
<1>1. PICK m \in Nat \ S : \A n \in Nat \ S : ~ (<<n, m>> \in OpToRel(<, Nat))
  <2> DEFINE R == OpToRel(<, Nat)
  <2>1. IsWellFoundedOn(R, Nat)
    BY NatLessThanWellFounded
  <2> HIDE DEF R
  <2>2. \E x \in Nat \ S : \A y \in Nat \ S : ~ (<<y, x>> \in R)
    BY <2>1, WFMin
  <2> QED BY <2>2 DEF R
<1>2. \A n \in Nat \ S : ~ (n < m)
  BY <1>1 DEF OpToRel
<1>3. m \in Nat /\ m \notin S /\ m # 0
  OBVIOUS
<1>4. m - 1 \in Nat /\ m - 1 < m /\ (m - 1) + 1 = m
  BY <1>3
<1>5. m - 1 \in S
  BY <1>2, <1>4
<1> QED BY <1>3, <1>4, <1>5

\* A set of numbers up to N that is not empty has a greatest.
LEMMA GreatestExists ==
  ASSUME NEW N \in Nat, NEW S, S \subseteq 0..N, S # {}
  PROVE  \E m \in S : \A k \in S : k <= m
<1> DEFINE Least(d) == \E m \in S : m = N - d
           T == {d \in Nat : N - d \notin S /\ \A e \in 0..d : N - e \notin S}
<1> SUFFICES ASSUME \A m \in S : \E k \in S : ~ k <= m PROVE FALSE
  OBVIOUS
<1>1. 0 \in T
  OBVIOUS
<1>2. ASSUME NEW d \in Nat, d \in T PROVE d + 1 \in T
  <2>1. N - (d + 1) \notin S
    <3> SUFFICES ASSUME N - (d + 1) \in S PROVE FALSE
      OBVIOUS
    <3>1. PICK k \in S : ~ k <= N - (d + 1)
      OBVIOUS
    <3>2. k \in 0..N /\ N - k \in 0..d /\ N - (N - k) = k
      BY <3>1
    <3> QED BY <1>2, <3>1, <3>2
  <2>2. \A e \in 0..(d + 1) : e \in 0..d \/ e = d + 1
    OBVIOUS
  <2> QED BY <1>2, <2>1, <2>2
<1>3. Nat \subseteq T
  <2> HIDE DEF T
  <2> QED BY <1>1, <1>2, SetInduction
<1>4. PICK s \in S : TRUE
  OBVIOUS
<1>5. N - s \in T /\ N - (N - s) = s
  BY <1>3, <1>4
<1> QED BY <1>4, <1>5

\* Entries whose sizes are numbers.
Sized(sizes, entries) ==
  /\ Len(entries) \in Nat
  /\ \A i \in 1..Len(entries) : SizeOf(sizes, entries[i]) \in Nat

\* What Sums defines recursively exists.
LEMMA SumsDefined ==
  ASSUME NEW sizes, NEW entries, Sized(sizes, entries)
  PROVE  Sums(sizes, entries) =
           [n \in 0..Len(entries) |->
              IF n = 0 THEN 0 ELSE SizeOf(sizes, entries[n]) + Sums(sizes, entries)[n - 1]]
<1> DEFINE L == Len(entries)
           size(n) == SizeOf(sizes, entries[n])
           Step(g, m) == [n \in 0..m |-> IF n = 0 THEN 0 ELSE size(n) + g[n - 1]]
           T == {m \in Nat : \E g : g = Step(g, m)}
<1>0. L \in Nat
  BY DEF Sized
<1>1. 0 \in T
  <2> DEFINE g == [n \in 0..0 |-> 0]
  <2>1. g = Step(g, 0)
    OBVIOUS
  <2> QED BY <2>1
<1>2. ASSUME NEW m \in Nat, m \in T PROVE m + 1 \in T
  <2>1. PICK g : g = Step(g, m)
    BY <1>2
  <2> DEFINE h == [n \in 0..(m + 1) |-> IF n = m + 1 THEN size(m + 1) + g[m] ELSE g[n]]
  <2>2. ASSUME NEW n \in 0..(m + 1)
        PROVE  h[n] = IF n = 0 THEN 0 ELSE size(n) + h[n - 1]
    <3>1. CASE n = m + 1
      <4>1. n # 0 /\ n - 1 = m /\ m \in 0..(m + 1) /\ m # m + 1
        BY <3>1
      <4>2. h[n] = size(m + 1) + g[m] /\ h[m] = g[m]
        BY <3>1, <4>1
      <4> QED BY <3>1, <4>1, <4>2
    <3>2. CASE n # m + 1
      <4>1. n \in 0..m
        BY <3>2
      <4>2. h[n] = g[n] /\ (n # 0 => h[n - 1] = g[n - 1])
        BY <3>2, <4>1
      <4>3. g[n] = IF n = 0 THEN 0 ELSE size(n) + g[n - 1]
        BY <2>1, <4>1
      <4> QED BY <4>2, <4>3
    <3> QED BY <3>1, <3>2
  <2>3. h = Step(h, m + 1)
    <3> DEFINE k == Step(h, m + 1)
    <3>1. \A n \in 0..(m + 1) : h[n] = k[n]
      BY <2>2
    <3> QED BY <3>1
  <2> HIDE DEF h, Step
  <2>4. \E g_1 : g_1 = Step(g_1, m + 1)
    BY <2>3
  <2> QED BY <2>4
<1>3. L \in T
  <2> HIDE DEF T
  <2> QED BY <1>0, <1>1, <1>2, SetInduction
<1>4. \E g : g = Step(g, L)
  BY <1>3
<1>5. Sums(sizes, entries) = CHOOSE g : g = Step(g, L)
  BY DEF Sums
<1> HIDE DEF Step
<1>6. Sums(sizes, entries) = Step(Sums(sizes, entries), L)
  BY <1>4, <1>5
<1> QED BY <1>6 DEF Step

\* Sums step by step: numbers, from 0, by the size of each entry.
LEMMA SumsStep ==
  ASSUME NEW sizes, NEW entries, Sized(sizes, entries)
  PROVE  /\ Sums(sizes, entries)[0] = 0
         /\ \A n \in 1..Len(entries) :
              Sums(sizes, entries)[n] =
                SizeOf(sizes, entries[n]) + Sums(sizes, entries)[n - 1]
         /\ \A n \in 0..Len(entries) : Sums(sizes, entries)[n] \in Nat
<1> DEFINE sum == Sums(sizes, entries)
           L == Len(entries)
           T == {n \in Nat : n <= L => sum[n] \in Nat}
<1>0. L \in Nat /\ \A i \in 1..L : SizeOf(sizes, entries[i]) \in Nat
  BY DEF Sized
<1>1. sum = [n \in 0..L |-> IF n = 0 THEN 0 ELSE SizeOf(sizes, entries[n]) + sum[n - 1]]
  BY SumsDefined
<1> HIDE DEF sum, L
<1>2. sum[0] = 0
  BY <1>0, <1>1
<1>3. \A n \in 1..L : sum[n] = SizeOf(sizes, entries[n]) + sum[n - 1]
  BY <1>0, <1>1
<1>4. 0 \in T
  BY <1>2
<1>5. ASSUME NEW n \in Nat, n \in T PROVE n + 1 \in T
  <2> SUFFICES ASSUME n + 1 <= L PROVE sum[n + 1] \in Nat
    OBVIOUS
  <2>1. n + 1 \in 1..L /\ (n + 1) - 1 = n /\ n <= L
    BY <1>0
  <2>2. sum[n] \in Nat
    BY <1>5, <2>1
  <2> QED BY <1>0, <1>3, <2>1, <2>2
<1>6. Nat \subseteq T
  <2> HIDE DEF T
  <2> QED BY <1>4, <1>5, SetInduction
<1>7. \A n \in 0..L : sum[n] \in Nat
  BY <1>0, <1>6
<1> QED BY <1>2, <1>3, <1>7 DEF sum, L

LEMMA TotalIsNumber ==
  ASSUME NEW sizes, NEW entries, Sized(sizes, entries)
  PROVE  TotalSize(sizes, entries) \in Nat
<1>1. Len(entries) \in 0..Len(entries)
  BY DEF Sized
<1> QED BY <1>1, SumsStep DEF TotalSize

\* Nothing takes nothing, and one entry its size.
LEMMA TotalOfFew ==
  ASSUME NEW sizes, NEW entries, Sized(sizes, entries)
  PROVE  /\ Len(entries) = 0 => TotalSize(sizes, entries) = 0
         /\ Len(entries) = 1 => TotalSize(sizes, entries) = SizeOf(sizes, entries[1])
<1>1. CASE Len(entries) = 0
  BY <1>1, SumsStep DEF TotalSize
<1>2. CASE Len(entries) = 1
  <2>1. Sums(sizes, entries)[1] = SizeOf(sizes, entries[1]) + Sums(sizes, entries)[0]
    <3>1. 1 \in 1..Len(entries) /\ 1 - 1 = 0
      BY <1>2
    <3> QED BY <3>1, SumsStep
  <2>2. SizeOf(sizes, entries[1]) \in Nat
    BY <1>2 DEF Sized
  <2> QED BY <1>2, <2>1, <2>2, SumsStep DEF TotalSize
<1> QED BY <1>1, <1>2

\* Sums grow.
LEMMA SumsGrow ==
  ASSUME NEW sizes, NEW entries, Sized(sizes, entries),
         NEW n \in 0..Len(entries), NEW m \in n..Len(entries)
  PROVE  Sums(sizes, entries)[n] <= Sums(sizes, entries)[m]
<1> DEFINE sum == Sums(sizes, entries)
           L == Len(entries)
           T == {d \in Nat : n + d <= L => sum[n] <= sum[n + d]}
<1>0. L \in Nat /\ n \in Nat /\ m \in Nat
  BY DEF Sized
<1>1. /\ \A k \in 1..L : sum[k] = SizeOf(sizes, entries[k]) + sum[k - 1]
      /\ \A k \in 1..L : SizeOf(sizes, entries[k]) \in Nat
      /\ \A k \in 0..L : sum[k] \in Nat
  BY SumsStep DEF Sized
<1>8. n <= m /\ m <= L
  BY <1>0
<1> HIDE DEF sum, L
<1>2. 0 \in T
  <2>1. n + 0 = n /\ (n <= L => sum[n] \in Nat)
    BY <1>0, <1>1
  <2> QED BY <2>1
<1>3. ASSUME NEW d \in Nat, d \in T PROVE d + 1 \in T
  <2> SUFFICES ASSUME n + (d + 1) <= L PROVE sum[n] <= sum[n + (d + 1)]
    OBVIOUS
  <2> DEFINE k == n + (d + 1)
  <2>1. k \in 1..L /\ k - 1 = n + d /\ n + d \in 0..L /\ n \in 0..L
    BY <1>0
  <2>2. sum[n] <= sum[n + d]
    BY <1>3, <2>1
  <2>3. sum[k] = SizeOf(sizes, entries[k]) + sum[n + d] /\ SizeOf(sizes, entries[k]) \in Nat
    BY <1>1, <2>1
  <2>4. sum[n] \in Nat /\ sum[n + d] \in Nat
    BY <1>1, <2>1
  <2> HIDE DEF k
  <2>5. sum[n] <= sum[k]
    BY <2>2, <2>3, <2>4
  <2> QED BY <2>5 DEF k
<1>4. Nat \subseteq T
  <2> HIDE DEF T
  <2> QED BY <1>2, <1>3, SetInduction
<1>5. m - n \in T /\ n + (m - n) = m
  BY <1>0, <1>4, <1>8
<1>6. sum[n] <= sum[n + (m - n)]
  BY <1>5, <1>8
<1> QED BY <1>5, <1>6 DEF sum

\* Entries that begin alike have the same sums as far as that.
LEMMA SumsAgree ==
  ASSUME NEW sizes, NEW entries, Sized(sizes, entries),
         NEW others, NEW longer, Sized(others, longer),
         Len(entries) <= Len(longer),
         \A i \in 1..Len(entries) : SizeOf(sizes, entries[i]) = SizeOf(others, longer[i])
  PROVE  \A n \in 0..Len(entries) : Sums(sizes, entries)[n] = Sums(others, longer)[n]
<1> DEFINE sum == Sums(sizes, entries)
           long == Sums(others, longer)
           L == Len(entries)
           M == Len(longer)
           T == {n \in Nat : n <= L => sum[n] = long[n]}
<1>0. L \in Nat /\ M \in Nat /\ L <= M
  BY DEF Sized
<1>1. sum[0] = 0 /\ \A n \in 1..L : sum[n] = SizeOf(sizes, entries[n]) + sum[n - 1]
  BY SumsStep
<1>2. long[0] = 0 /\ \A n \in 1..M : long[n] = SizeOf(others, longer[n]) + long[n - 1]
  BY SumsStep
<1>7. \A i \in 1..L : SizeOf(sizes, entries[i]) = SizeOf(others, longer[i])
  OBVIOUS
<1> HIDE DEF sum, long, L, M
<1>3. 0 \in T
  BY <1>1, <1>2
<1>4. ASSUME NEW n \in Nat, n \in T PROVE n + 1 \in T
  <2> SUFFICES ASSUME n + 1 <= L PROVE sum[n + 1] = long[n + 1]
    OBVIOUS
  <2>1. n + 1 \in 1..L /\ n + 1 \in 1..M /\ (n + 1) - 1 = n /\ n <= L
    BY <1>0
  <2>2. sum[n] = long[n]
    BY <1>4, <2>1
  <2> QED BY <1>1, <1>2, <1>7, <2>1, <2>2
<1>5. Nat \subseteq T
  <2> HIDE DEF T
  <2> QED BY <1>3, <1>4, SetInduction
<1>6. \A n \in 0..L : sum[n] = long[n]
  BY <1>0, <1>5
<1> QED BY <1>6 DEF sum, long, L

\* Some of a row of batches, in order, are no more than the row and take no more.
LEMMA SomeOfRow ==
  ASSUME NEW sizes, NEW some, Sized(sizes, some), NEW row, Sized(sizes, row), NEW b \in Nat,
         \A i \in 1..Len(row) : row[i] = b + i - 1,
         \A i \in 1..Len(some) : some[i] \in b..(b + Len(row) - 1),
         \A i, j \in 1..Len(some) : i < j => some[i] < some[j]
  PROVE  /\ Len(some) <= Len(row)
         /\ TotalSize(sizes, some) <= TotalSize(sizes, row)
<1> DEFINE sum == Sums(sizes, some)
           all == Sums(sizes, row)
           L == Len(some)
           M == Len(row)
           at(n) == some[n] - b + 1
           T == {n \in Nat : n \in 1..L => n <= at(n) /\ sum[n] <= all[at(n)]}
<1>0. L \in Nat /\ M \in Nat
  BY DEF Sized
<1>1. /\ sum[0] = 0
      /\ \A n \in 1..L : sum[n] = SizeOf(sizes, some[n]) + sum[n - 1]
      /\ \A n \in 1..L : SizeOf(sizes, some[n]) \in Nat
      /\ \A n \in 0..L : sum[n] \in Nat
  BY SumsStep DEF Sized
<1>2. /\ \A n \in 1..M : all[n] = SizeOf(sizes, row[n]) + all[n - 1]
      /\ \A n \in 0..M : all[n] \in Nat
  BY SumsStep
<1>3. \A m \in 0..M : \A n \in 0..m : all[n] <= all[m]
  <2> SUFFICES ASSUME NEW m \in 0..M, NEW n \in 0..m PROVE all[n] <= all[m]
    OBVIOUS
  <2>1. n \in 0..M /\ m \in n..M
    BY <1>0
  <2> QED BY <2>1, SumsGrow
<1>4. \A i \in 1..M : row[i] = b + i - 1
  OBVIOUS
<1>5. \A i \in 1..L : some[i] \in b..(b + M - 1)
  OBVIOUS
<1>6. \A i, j \in 1..L : i < j => some[i] < some[j]
  OBVIOUS
<1> HIDE DEF sum, all, L, M
<1>7. \A n \in 1..L : at(n) \in 1..M /\ row[at(n)] = some[n] /\ some[n] \in Int
  BY <1>0, <1>4, <1>5
<1>8. 0 \in T
  BY <1>0
<1>9. ASSUME NEW n \in Nat, n \in T PROVE n + 1 \in T
  <2> DEFINE k == n + 1
  <2> SUFFICES ASSUME k \in 1..L PROVE k <= at(k) /\ sum[k] <= all[at(k)]
    OBVIOUS
  <2>1. /\ sum[k] = SizeOf(sizes, some[k]) + sum[n] /\ sum[n] \in Nat
        /\ SizeOf(sizes, some[k]) \in Nat
    <3>1. k - 1 = n /\ n \in 0..L
      BY <1>0
    <3> QED BY <1>1, <3>1
  <2>2. /\ all[at(k)] = SizeOf(sizes, some[k]) + all[at(k) - 1]
        /\ at(k) \in 1..M /\ all[at(k) - 1] \in Nat
    <3>1. at(k) \in 1..M /\ row[at(k)] = some[k] /\ at(k) - 1 \in 0..M
      BY <1>0, <1>7
    <3> QED BY <1>2, <3>1
  <2>3. CASE n = 0
    BY <1>1, <2>1, <2>2, <2>3
  <2>4. CASE n # 0
    <3>1. n \in 1..L /\ n < k
      BY <1>0, <2>4
    <3>2. n <= at(n) /\ sum[n] <= all[at(n)]
      BY <1>9, <3>1
    <3>3. at(n) <= at(k) - 1 /\ at(n) \in 0..(at(k) - 1) /\ at(k) - 1 \in 0..M
      <4>1. some[n] < some[k] /\ some[n] \in Int /\ some[k] \in Int
        BY <1>6, <1>7, <3>1
      <4> QED BY <1>0, <1>7, <3>1, <4>1
    <3>4. all[at(n)] <= all[at(k) - 1] /\ all[at(n)] \in Nat
      <4>1. at(n) \in 0..M
        BY <1>0, <3>3
      <4> QED BY <1>2, <1>3, <3>3, <4>1
    <3>5. k <= at(k)
      BY <1>7, <3>1, <3>2, <3>3
    <3>6. sum[k] <= all[at(k)]
      <4> HIDE DEF at, k
      <4> QED BY <2>1, <2>2, <3>2, <3>4
    <3> QED BY <3>5, <3>6
  <2> QED BY <2>3, <2>4
<1>10. Nat \subseteq T
  <2> HIDE DEF T
  <2> QED BY <1>8, <1>9, SetInduction
<1>11. L <= M /\ sum[L] <= all[M]
  <2>1. CASE L = 0
    <3>1. M \in 0..M
      BY <1>0
    <3> QED BY <1>0, <1>1, <1>2, <2>1, <3>1
  <2>2. CASE L # 0
    <3>1. L \in T /\ L \in 1..L
      BY <1>0, <1>10, <2>2
    <3>2. L <= at(L) /\ sum[L] <= all[at(L)] /\ at(L) \in 1..M
      BY <1>7, <3>1
    <3>3. at(L) \in 0..M /\ M \in 0..M
      BY <1>0, <3>2
    <3>4. all[at(L)] <= all[M] /\ all[at(L)] \in Nat /\ all[M] \in Nat /\ sum[L] \in Nat
      <4>1. at(L) \in 0..M /\ L \in 0..L
        BY <1>0, <3>3
      <4> QED BY <1>1, <1>2, <1>3, <3>3, <4>1
    <3> HIDE DEF at
    <3> QED BY <1>0, <3>2, <3>4
  <2> QED BY <2>1, <2>2
<1> QED BY <1>11 DEF sum, all, L, M, TotalSize

(***************************************************************************)
(* What is saved.                                                          *)
(***************************************************************************)

\* What the file can hold: batches in the order of their export, an empty entry
\* before them at most.
IsBuffer(sizes, entries) ==
  /\ sizes \in Seq(Sizes)
  /\ entries \in Seq(0..Len(sizes))
  /\ \A i, j \in 1..Len(entries) : i < j => entries[i] < entries[j]

LEMMA BuffersAreSized ==
  ASSUME NEW sizes \in Seq(Sizes), NEW entries \in Seq(0..Len(sizes))
  PROVE  Sized(sizes, entries)
<1>1. \A n \in 1..Len(sizes) : sizes[n] \in Nat
  <2>1. \A n \in 1..Len(sizes) : sizes[n] \in Sizes
    OBVIOUS
  <2>2. Sizes \subseteq Nat
    BY BufferAssumption
  <2> QED BY <2>1, <2>2
<1>2. \A i \in 1..Len(entries) : entries[i] \in 0..Len(sizes)
  OBVIOUS
<1>3. Len(sizes) \in Nat /\ Len(entries) \in Nat
  OBVIOUS
<1> QED BY <1>1, <1>2, <1>3 DEF Sized, SizeOf, Ghost

\* The last n entries.
LEMMA LastOfBuffer ==
  ASSUME NEW sizes, NEW queue, IsBuffer(sizes, queue), NEW n \in 0..Len(queue)
  PROVE  /\ IsBuffer(sizes, LastOf(n, queue))
         /\ Len(LastOf(n, queue)) = n
         /\ \A i \in 1..n : LastOf(n, queue)[i] = queue[Len(queue) - n + i]
<1> DEFINE L == Len(queue)
           last == LastOf(n, queue)
<1>1. L \in Nat /\ n \in Nat /\ n <= L
  BY DEF IsBuffer
<1>2. last = SubSeq(queue, L - n + 1, L)
  BY DEF LastOf
<1>3. \A i \in (L - n + 1)..L : queue[i] \in 0..Len(sizes)
  BY <1>1 DEF IsBuffer
<1>4. L - n + 1 \in Int /\ L \in Int
  BY <1>1
<1> HIDE DEF last, L
<1>5. /\ last \in Seq(0..Len(sizes))
      /\ Len(last) = IF L - n + 1 <= L THEN L - (L - n + 1) + 1 ELSE 0
      /\ \A i \in 1..(L - (L - n + 1) + 1) : last[i] = queue[(L - n + 1) + i - 1]
  BY <1>2, <1>3, <1>4, SubSeqProperties
<1>6. Len(last) = n /\ \A i \in 1..n : last[i] = queue[L - n + i]
  BY <1>1, <1>5
<1>7. \A i, j \in 1..n : i < j => last[i] < last[j]
  <2> SUFFICES ASSUME NEW i \in 1..n, NEW j \in 1..n, i < j PROVE last[i] < last[j]
    OBVIOUS
  <2>1. L - n + i \in 1..L /\ L - n + j \in 1..L /\ L - n + i < L - n + j
    BY <1>1
  <2>2. queue[L - n + i] < queue[L - n + j]
    BY <2>1 DEF IsBuffer, L
  <2> QED BY <1>6, <2>2
<1> QED BY <1>5, <1>6, <1>7 DEF IsBuffer, last, L

\* Pruned, a queue keeps as many of its last entries as both limits allow.
LEMMA PruneKeepsMost ==
  ASSUME NEW sizes, NEW queue, IsBuffer(sizes, queue)
  PROVE  \E n \in 0..Len(queue) :
           /\ Prune(sizes, queue) = LastOf(n, queue)
           /\ n <= MaxHistory
           /\ TotalSize(sizes, LastOf(n, queue)) <= MaxSize
           /\ \A k \in (n + 1)..Len(queue) :
                k > MaxHistory \/ TotalSize(sizes, LastOf(k, queue)) > MaxSize
<1> DEFINE fits == {n \in 0..Len(queue) :
                      /\ n <= MaxHistory
                      /\ TotalSize(sizes, LastOf(n, queue)) <= MaxSize}
           n == CHOOSE n \in fits : \A k \in fits : k <= n
<1>0. Len(queue) \in Nat
  BY DEF IsBuffer
<1>1. ASSUME NEW k \in 0..Len(queue)
      PROVE  TotalSize(sizes, LastOf(k, queue)) \in Nat
  <2>1. IsBuffer(sizes, LastOf(k, queue))
    BY LastOfBuffer
  <2> QED BY <2>1, BuffersAreSized, TotalIsNumber DEF IsBuffer
<1>2. 0 \in fits
  <2>1. 0 \in 0..Len(queue)
    BY <1>0
  <2>2. IsBuffer(sizes, LastOf(0, queue)) /\ Len(LastOf(0, queue)) = 0
    BY <2>1, LastOfBuffer
  <2>3. Sized(sizes, LastOf(0, queue))
    BY <2>2, BuffersAreSized DEF IsBuffer
  <2>4. TotalSize(sizes, LastOf(0, queue)) = 0
    BY <2>2, <2>3, TotalOfFew
  <2> QED BY <2>1, <2>4, BufferAssumption
<1>3. \E m \in fits : \A k \in fits : k <= m
  <2>1. fits \subseteq 0..Len(queue) /\ fits # {}
    BY <1>2
  <2> HIDE DEF fits
  <2> QED BY <1>0, <2>1, GreatestExists
<1>4. n \in fits /\ \A k \in fits : k <= n
  <2> HIDE DEF fits
  <2> QED BY <1>3
<1>5. Prune(sizes, queue) = LastOf(n, queue)
  BY DEF Prune
<1>6. ASSUME NEW k \in (n + 1)..Len(queue)
      PROVE  k > MaxHistory \/ TotalSize(sizes, LastOf(k, queue)) > MaxSize
  <2>1. n \in Nat /\ k \in 0..Len(queue) /\ ~ k <= n
    <3>1. n \in 0..Len(queue)
      BY <1>4
    <3> HIDE DEF n
    <3> QED BY <1>0, <3>1
  <2>2. k \notin fits
    BY <1>4, <2>1
  <2>3. ~ (k <= MaxHistory /\ TotalSize(sizes, LastOf(k, queue)) <= MaxSize)
    BY <2>1, <2>2
  <2> QED BY <1>1, <2>1, <2>3, BufferAssumption
<1>7. n \in 0..Len(queue) /\ n <= MaxHistory /\ TotalSize(sizes, LastOf(n, queue)) <= MaxSize
  BY <1>4
<1> HIDE DEF n, fits
<1> QED BY <1>5, <1>6, <1>7

\* The batches exported since b, and b itself.
Since(sizes, b) == [i \in 1..(Len(sizes) - b + 1) |-> b + i - 1]

\* What BeyondLimits says, of any sizes.
Beyond(sizes, b) ==
  Len(sizes) - b + 1 > MaxHistory \/ TotalSize(sizes, Since(sizes, b)) > MaxSize

LEMMA SinceIsBuffer ==
  ASSUME NEW sizes \in Seq(Sizes), NEW b \in 1..Len(sizes)
  PROVE  /\ IsBuffer(sizes, Since(sizes, b))
         /\ Sized(sizes, Since(sizes, b))
         /\ Len(Since(sizes, b)) = Len(sizes) - b + 1
         /\ \A i \in 1..(Len(sizes) - b + 1) : Since(sizes, b)[i] = b + i - 1
<1> DEFINE n == Len(sizes) - b + 1
           row == Since(sizes, b)
<1>1. n \in Nat /\ Len(sizes) \in Nat /\ b \in Nat
  OBVIOUS
<1>2. row = [i \in 1..n |-> b + i - 1] /\ \A i \in 1..n : b + i - 1 \in 0..Len(sizes)
  BY <1>1 DEF Since
<1>3. row \in Seq(0..Len(sizes)) /\ Len(row) = n
  <2> HIDE DEF n, row
  <2> QED BY <1>1, <1>2
<1>4. \A i \in 1..n : row[i] = b + i - 1
  BY <1>2
<1>5. IsBuffer(sizes, row)
  <2> HIDE DEF n, row
  <2> QED BY <1>1, <1>3, <1>4 DEF IsBuffer
<1> QED BY <1>3, <1>4, <1>5, BuffersAreSized

\* What is beyond the limits stays so when more is exported.
LEMMA BeyondStays ==
  ASSUME NEW sizes \in Seq(Sizes), NEW more \in Seq(Sizes), NEW b \in 1..Len(sizes),
         Len(more) = Len(sizes) + 1, \A i \in 1..Len(sizes) : more[i] = sizes[i],
         Beyond(sizes, b)
  PROVE  Beyond(more, b)
<1>1. b \in 1..Len(more) /\ Len(sizes) \in Nat /\ b \in Nat
  OBVIOUS
<1> DEFINE row == Since(sizes, b)
           all == Since(more, b)
           n == Len(sizes) - b + 1
<1>2. Sized(sizes, row) /\ Len(row) = n /\ \A i \in 1..n : row[i] = b + i - 1
  BY SinceIsBuffer
<1>3. Sized(more, all) /\ Len(all) = n + 1 /\ \A i \in 1..(n + 1) : all[i] = b + i - 1
  <2>1. Len(more) - b + 1 = n + 1
    BY <1>1
  <2> QED BY <1>1, <2>1, SinceIsBuffer
<1>4. n \in Nat
  BY <1>1
<1>5. \A i \in 1..n : SizeOf(sizes, row[i]) = SizeOf(more, all[i])
  <2> SUFFICES ASSUME NEW i \in 1..n PROVE SizeOf(sizes, row[i]) = SizeOf(more, all[i])
    OBVIOUS
  <2>1. row[i] = b + i - 1 /\ all[i] = b + i - 1
    BY <1>2, <1>3, <1>4
  <2>2. b + i - 1 \in 1..Len(sizes)
    BY <1>1
  <2> QED BY <2>1, <2>2 DEF SizeOf
<1> HIDE DEF row, all
<1>6. Sums(sizes, row)[n] = Sums(more, all)[n]
  <2>1. n \in 0..Len(row) /\ Len(row) <= Len(all)
    BY <1>2, <1>3, <1>4
  <2>2. \A i \in 1..Len(row) : SizeOf(sizes, row[i]) = SizeOf(more, all[i])
    BY <1>2, <1>5
  <2>3. \A k \in 0..Len(row) : Sums(sizes, row)[k] = Sums(more, all)[k]
    BY ONLY <1>2, <1>3, <2>1, <2>2, SumsAgree
  <2> QED BY <2>1, <2>3
<1>7. Sums(more, all)[n] <= Sums(more, all)[n + 1]
  <2>1. n \in 0..Len(all) /\ n + 1 \in n..Len(all)
    BY <1>3, <1>4
  <2> QED BY <1>3, <2>1, SumsGrow
<1>8. TotalSize(sizes, row) \in Nat /\ TotalSize(more, all) \in Nat
  BY <1>2, <1>3, TotalIsNumber
<1>9. TotalSize(sizes, row) <= TotalSize(more, all)
  BY <1>2, <1>3, <1>6, <1>7 DEF TotalSize
<1>10. Len(more) - b + 1 > Len(sizes) - b + 1
  BY <1>1
<1> QED BY <1>1, <1>8, <1>9, <1>10, BufferAssumption DEF Beyond, row, all

LEMMA SpansOf ==
  ASSUME NEW S, NEW entries \in Seq(S), NEW b
  PROVE  b \in Spans(entries) <=> b # Ghost /\ \E i \in 1..Len(entries) : entries[i] = b
BY DEF Spans, ToSet

\* An entry that pruning left out is beyond the limits.
LEMMA DroppedIsBeyond ==
  ASSUME NEW sizes, NEW queue, IsBuffer(sizes, queue),
         NEW p \in 1..Len(queue), queue[p] # Ghost,
         \/ Len(queue) - p + 1 > MaxHistory
         \/ TotalSize(sizes, LastOf(Len(queue) - p + 1, queue)) > MaxSize
  PROVE  Beyond(sizes, queue[p])
<1> DEFINE L == Len(queue)
           k == L - p + 1
           some == LastOf(k, queue)
           b == queue[p]
           row == Since(sizes, b)
           m == Len(sizes) - b + 1
<1>1. L \in Nat /\ p \in 1..L /\ k \in 1..L /\ k \in 0..L
  BY DEF IsBuffer
<1>2. b \in 1..Len(sizes) /\ Len(sizes) \in Nat
  BY DEF IsBuffer, Ghost
<1>3. IsBuffer(sizes, some) /\ Len(some) = k /\ \A i \in 1..k : some[i] = queue[L - k + i]
  <2> HIDE DEF k
  <2> QED BY <1>1, LastOfBuffer
<1>4. Sized(sizes, some)
  BY <1>3, BuffersAreSized DEF IsBuffer
<1>5. /\ Sized(sizes, row) /\ Len(row) = m
      /\ \A i \in 1..m : row[i] = b + i - 1
  BY <1>2, SinceIsBuffer DEF IsBuffer
<1>6. \A i \in 1..Len(some) : some[i] \in b..(b + Len(row) - 1)
  <2> SUFFICES ASSUME NEW i \in 1..k PROVE some[i] \in b..Len(sizes)
    BY <1>2, <1>3, <1>5
  <2>1. L - k + i = p + i - 1 /\ p + i - 1 \in p..L /\ p + i - 1 \in 1..L
    BY <1>1
  <2>2. some[i] = queue[p + i - 1]
    BY <1>3, <2>1
  <2>3. queue[p + i - 1] \in 0..Len(sizes)
    BY <2>1 DEF IsBuffer
  <2>4. b <= queue[p + i - 1]
    <3>1. CASE i = 1
      <4>1. p + i - 1 = p
        BY <1>1, <3>1
      <4> QED BY <1>2, <4>1
    <3>2. CASE i # 1
      <4>1. p < p + i - 1
        BY <1>1, <3>2
      <4>2. queue[p] < queue[p + i - 1]
        BY <2>1, <4>1 DEF IsBuffer
      <4> QED BY <1>2, <2>3, <4>2
    <3> QED BY <3>1, <3>2
  <2> QED BY <1>2, <2>2, <2>3, <2>4
<1>7. \A i, j \in 1..Len(some) : i < j => some[i] < some[j]
  BY <1>3 DEF IsBuffer
<1>8. k > MaxHistory \/ TotalSize(sizes, some) > MaxSize
  OBVIOUS
<1>9. \A i \in 1..Len(row) : row[i] = b + i - 1
  BY <1>5
<1>10. b \in Nat /\ m \in Nat /\ k \in Nat
  BY <1>1, <1>2
<1> HIDE DEF some, row, b, k, m
<1>11. k <= m /\ TotalSize(sizes, some) <= TotalSize(sizes, row)
  BY <1>3, <1>4, <1>5, <1>6, <1>7, <1>9, <1>10, SomeOfRow
<1>12. TotalSize(sizes, some) \in Nat /\ TotalSize(sizes, row) \in Nat
  BY <1>4, <1>5, TotalIsNumber
<1>13. m > MaxHistory \/ TotalSize(sizes, row) > MaxSize
  BY <1>8, <1>10, <1>11, <1>12, BufferAssumption
<1> QED BY <1>13 DEF Beyond, row, b, m

FileLimit == IF MaxHistory = 0 THEN 1 ELSE MaxHistory

\* What the file holds is not affected by the sizes of later batches.
LEMMA TotalStays ==
  ASSUME NEW sizes \in Seq(Sizes), NEW more \in Seq(Sizes),
         Len(more) = Len(sizes) + 1, \A i \in 1..Len(sizes) : more[i] = sizes[i],
         NEW entries, IsBuffer(sizes, entries)
  PROVE  /\ IsBuffer(more, entries)
         /\ TotalSize(more, entries) = TotalSize(sizes, entries)
<1>1. entries \in Seq(0..Len(sizes)) /\ Len(sizes) \in Nat /\ Len(entries) \in Nat
  BY DEF IsBuffer
<1>2. \A i \in 1..Len(entries) : entries[i] \in 0..Len(sizes) /\ entries[i] \in 0..Len(more)
  BY <1>1
<1>3. entries \in Seq(0..Len(more))
  BY <1>1, <1>2
<1>4. \A i \in 1..Len(entries) : SizeOf(sizes, entries[i]) = SizeOf(more, entries[i])
  BY <1>1, <1>2 DEF SizeOf, Ghost
<1>5. Sized(sizes, entries) /\ Sized(more, entries)
  BY <1>1, <1>3, BuffersAreSized
<1>6. Len(entries) <= Len(entries) /\ Len(entries) \in 0..Len(entries)
  BY <1>1
<1>7. \A n \in 0..Len(entries) : Sums(sizes, entries)[n] = Sums(more, entries)[n]
  BY <1>4, <1>5, <1>6, SumsAgree
<1> QED BY <1>3, <1>6, <1>7 DEF TotalSize, IsBuffer

\* A batch is appended to the file.
LEMMA Appended ==
  ASSUME NEW sizes \in Seq(Sizes), NEW more \in Seq(Sizes),
         Len(more) = Len(sizes) + 1, \A i \in 1..Len(sizes) : more[i] = sizes[i],
         NEW entries, IsBuffer(sizes, entries)
  PROVE  LET queue == Append(entries, Len(more)) IN
         /\ IsBuffer(more, queue)
         /\ Len(queue) = Len(entries) + 1
         /\ \A i \in 1..Len(entries) : queue[i] = entries[i]
         /\ queue[Len(entries) + 1] = Len(more)
<1> DEFINE queue == Append(entries, Len(more))
           L == Len(entries)
<1>1. entries \in Seq(0..Len(sizes)) /\ Len(sizes) \in Nat /\ L \in Nat
  BY DEF IsBuffer
<1>2. entries \in Seq(0..Len(more)) /\ Len(more) \in 0..Len(more)
  BY <1>1
<1>3. /\ queue \in Seq(0..Len(more)) /\ Len(queue) = L + 1
      /\ \A i \in 1..L : queue[i] = entries[i]
      /\ queue[L + 1] = Len(more)
  BY <1>2, AppendProperties
<1>4. \A i, j \in 1..(L + 1) : i < j => queue[i] < queue[j]
  <2> SUFFICES ASSUME NEW i \in 1..(L + 1), NEW j \in 1..(L + 1), i < j
               PROVE  queue[i] < queue[j]
    OBVIOUS
  <2>1. i \in 1..L /\ queue[i] = entries[i] /\ entries[i] \in 0..Len(sizes)
    BY <1>1, <1>3
  <2>2. CASE j = L + 1
    <3> HIDE DEF queue
    <3> QED BY <1>1, <1>3, <2>1, <2>2
  <2>3. CASE j # L + 1
    <3>1. j \in 1..L /\ queue[j] = entries[j]
      BY <1>1, <1>3, <2>3
    <3>2. entries[i] < entries[j]
      BY <2>1, <3>1 DEF IsBuffer
    <3> QED BY <2>1, <3>1, <3>2
  <2> QED BY <2>2, <2>3
<1> QED BY <1>3, <1>4 DEF IsBuffer

\* Saving a batch keeps the file within its limits; what leaves the file, or does
\* not get into it, is beyond them.
LEMMA SaveKeeps ==
  ASSUME NEW sizes \in Seq(Sizes), NEW more \in Seq(Sizes),
         Len(more) = Len(sizes) + 1, \A i \in 1..Len(sizes) : more[i] = sizes[i],
         IsBuffer(sizes, file), Len(file) <= FileLimit, TotalSize(sizes, file) <= MaxSize
  PROVE  LET new == Save(more, Len(more)) IN
         /\ IsBuffer(more, new)
         /\ Len(new) <= FileLimit
         /\ TotalSize(more, new) <= MaxSize
         /\ Spans(new) \subseteq Spans(file) \cup {Len(more)}
         /\ \A b \in Spans(file) : b \in Spans(new) \/ Beyond(more, b)
         /\ Len(more) \in Spans(new) \/ Beyond(more, Len(more))
<1> DEFINE queue == Append(file, Len(more))
           kept == Prune(more, queue)
           new == Save(more, Len(more))
           L == Len(queue)
<1>1. Len(sizes) \in Nat /\ Len(more) \in Nat /\ Len(more) # Ghost /\ Len(more) \in 1..Len(more)
  BY DEF Ghost
<1>2. /\ IsBuffer(more, queue) /\ L = Len(file) + 1
      /\ \A i \in 1..Len(file) : queue[i] = file[i]
      /\ queue[Len(file) + 1] = Len(more)
      /\ Len(file) \in Nat
  BY Appended DEF IsBuffer
<1>3. IsBuffer(more, file) /\ TotalSize(more, file) <= MaxSize
  BY TotalStays
<1>4. new = IF MaxHistory < 1 \/ kept = <<>> THEN file ELSE Written(kept)
  BY DEF Save
<1> HIDE DEF queue, kept, new, L
<1>5. PICK n \in 0..L : /\ kept = LastOf(n, queue)
                        /\ n <= MaxHistory
                        /\ TotalSize(more, LastOf(n, queue)) <= MaxSize
                        /\ \A k \in (n + 1)..L :
                             k > MaxHistory \/ TotalSize(more, LastOf(k, queue)) > MaxSize
  BY <1>2, PruneKeepsMost DEF kept, L
<1>6. /\ IsBuffer(more, kept) /\ Len(kept) = n
      /\ \A i \in 1..n : kept[i] = queue[L - n + i]
  <2>1. n \in 0..Len(queue) /\ L = Len(queue)
    BY DEF L
  <2>2. /\ IsBuffer(more, LastOf(n, queue)) /\ Len(LastOf(n, queue)) = n
        /\ \A i \in 1..n : LastOf(n, queue)[i] = queue[Len(queue) - n + i]
    <3>1. IsBuffer(more, queue)
      BY <1>2
    <3> QED BY ONLY <3>1, <2>1, LastOfBuffer
  <2> QED BY <1>5, <2>1, <2>2
<1>7. ASSUME NEW p \in 1..L, p <= L - n, queue[p] # Ghost PROVE Beyond(more, queue[p])
  <2>1. L - p + 1 \in (n + 1)..L
    BY <1>2, <1>7
  <2>2. L - p + 1 > MaxHistory \/ TotalSize(more, LastOf(L - p + 1, queue)) > MaxSize
    BY <1>5, <2>1
  <2> QED BY <1>2, <1>7, <2>2, DroppedIsBeyond DEF L
<1>8. CASE MaxHistory < 1 \/ kept = <<>>
  <2>1. new = file
    BY <1>4, <1>8
  <2>2. Beyond(more, Len(more))
    <3>1. CASE MaxHistory < 1
      <4>1. Len(more) - Len(more) + 1 > MaxHistory
        BY <1>1, <3>1, BufferAssumption
      <4> QED BY <4>1 DEF Beyond
    <3>2. CASE kept = <<>>
      <4>1. n = 0
        BY <1>6, <3>2
      <4>2. L \in 1..L /\ L <= L - n /\ queue[L] = Len(more)
        BY <1>2, <4>1
      <4> QED BY <1>1, <1>7, <4>2
    <3> QED BY <1>8, <3>1, <3>2
  <2> QED BY <1>3, <2>1, <2>2 DEF new
<1>9. CASE ~ (MaxHistory < 1 \/ kept = <<>>)
  <2>1. new = kept
    BY <1>4, <1>9 DEF Written
  <2>2. n # 0 /\ n \in 1..n
    <3>1. kept \in Seq(0..Len(more))
      BY <1>6 DEF IsBuffer
    <3> QED BY <1>6, <1>9, <3>1
  <2>3. Len(kept) <= FileLimit /\ TotalSize(more, kept) <= MaxSize
    BY <1>5, <1>6, <1>9, BufferAssumption DEF FileLimit
  <2>4. file \in Seq(0..Len(sizes)) /\ kept \in Seq(0..Len(more))
    BY <1>6 DEF IsBuffer
  <2>5. Spans(kept) \subseteq Spans(file) \cup {Len(more)}
    <3> SUFFICES ASSUME NEW b \in Spans(kept), b # Len(more) PROVE b \in Spans(file)
      OBVIOUS
    <3>1. PICK i \in 1..n : kept[i] = b
      BY <1>6, <2>4, SpansOf
    <3>2. b # Ghost
      BY <2>4, SpansOf
    <3>3. queue[L - n + i] = b /\ L - n + i \in 1..L
      BY <1>2, <1>6, <3>1
    <3>4. L - n + i \in 1..Len(file)
      BY <1>2, <3>3
    <3>5. file[L - n + i] = b
      BY <1>2, <3>3, <3>4
    <3> QED BY <2>4, <3>2, <3>4, <3>5, SpansOf
  <2>6. ASSUME NEW p \in 1..L, queue[p] # Ghost
        PROVE  queue[p] \in Spans(kept) \/ Beyond(more, queue[p])
    <3>1. CASE p <= L - n
      BY <1>7, <2>6, <3>1
    <3>2. CASE ~ p <= L - n
      <4>1. p - (L - n) \in 1..n /\ L - n + (p - (L - n)) = p
        BY <1>2, <3>2
      <4>2. kept[p - (L - n)] = queue[p]
        BY <1>6, <4>1
      <4> QED BY <1>6, <2>4, <2>6, <4>1, <4>2, SpansOf
    <3> QED BY <3>1, <3>2
  <2>7. \A b \in Spans(file) : b \in Spans(kept) \/ Beyond(more, b)
    <3> SUFFICES ASSUME NEW b \in Spans(file) PROVE b \in Spans(kept) \/ Beyond(more, b)
      OBVIOUS
    <3>1. b # Ghost /\ \E i \in 1..Len(file) : file[i] = b
      BY <2>4, SpansOf
    <3>2. PICK i \in 1..Len(file) : file[i] = b
      BY <3>1
    <3>3. i \in 1..L /\ queue[i] = b
      BY <1>2, <3>2
    <3> QED BY <2>6, <3>1, <3>3
  <2>8. Len(more) \in Spans(kept) \/ Beyond(more, Len(more))
    <3>1. L \in 1..L /\ queue[L] = Len(more)
      BY <1>2
    <3> QED BY <1>1, <2>6, <3>1
  <2> QED BY <1>6, <2>1, <2>3, <2>5, <2>7, <2>8 DEF new
<1> QED BY <1>8, <1>9

(***************************************************************************)
(* The hooks.                                                              *)
(*                                                                         *)
(* The invariant says what the file may hold while a hook is on its way to *)
(* emptying it: a hook that found it empty has put into it what it exposes *)
(* by that, and what Tempo has taken; a flush has sent what is behind it.  *)
(***************************************************************************)

FileHolds ==
  /\ IsBuffer(made, file)
  /\ Len(file) <= FileLimit
  /\ TotalSize(made, file) <= MaxSize
  /\ Spans(file) \cap torn = {}

OnTheWay ==
  /\ hook.phase = "running" => ~hook.errors
  /\ hook.phase = "running" /\ FoundEmpty => Spans(file) \subseteq exposed
  /\ hook.phase = "dropping" => Spans(file) \subseteq exposed \cup accepted
  /\ hook.phase = "flushing" => hook.next # 0
  /\ hook.phase = "flushing" /\ ~hook.errors =>
       \A i \in 1..Len(file) : i < hook.next => file[i] = Ghost \/ file[i] \in accepted

Undisturbed ==
  calm /\ ~BufferOnly /\ backend = "up" =>
    /\ hook.phase = "none" => IsEmpty
    /\ hook.phase = "running" => ~hook.bufferOnly
    /\ hook.phase = "flushing" => ~hook.errors

BufferInv ==
  BufferTypeOK /\ FileHolds /\ OnTheWay /\ Undisturbed /\ KeptUnlessExposed

LEMMA EmptyFile ==
  ASSUME NEW sizes \in Seq(Sizes)
  PROVE  /\ \A entries \in {<<>>, <<Ghost>>} :
              /\ IsBuffer(sizes, entries)
              /\ Len(entries) <= FileLimit
              /\ TotalSize(sizes, entries) <= MaxSize
              /\ Spans(entries) = {}
         /\ Written(<<>>) = <<Ghost>>
<1>1. Len(sizes) \in Nat
  OBVIOUS
<1>2. IsBuffer(sizes, <<>>) /\ IsBuffer(sizes, <<Ghost>>)
  <2>1. <<>> \in Seq(0..Len(sizes)) /\ Len(<<>>) = 0
    OBVIOUS
  <2>2. <<Ghost>> \in Seq(0..Len(sizes)) /\ Len(<<Ghost>>) = 1
    BY <1>1 DEF Ghost
  <2> QED BY <1>1, <2>1, <2>2 DEF IsBuffer
<1>3. Sized(sizes, <<>>) /\ Sized(sizes, <<Ghost>>)
  BY <1>2, BuffersAreSized DEF IsBuffer
<1>4. TotalSize(sizes, <<>>) = 0 /\ TotalSize(sizes, <<Ghost>>) = 0
  <2>1. TotalSize(sizes, <<>>) = 0
    BY <1>3, TotalOfFew
  <2>2. TotalSize(sizes, <<Ghost>>) = SizeOf(sizes, <<Ghost>>[1])
    BY <1>3, TotalOfFew
  <2> QED BY <2>1, <2>2 DEF SizeOf
<1>5. Spans(<<>>) = {} /\ Spans(<<Ghost>>) = {}
  BY DEF Spans, ToSet
<1> QED BY <1>2, <1>4, <1>5, BufferAssumption DEF FileLimit, Written

HookTypes == [phase : {"none", "running", "dropping", "flushing"},
              bufferOnly : BOOLEAN, previous : BOOLEAN, exported : Nat,
              next : Nat, errors : BOOLEAN]

LEMMA NoHookIsTyped == NoHook \in HookTypes
BY DEF NoHook, HookTypes

LEMMA InitBuffer == BufferInit => BufferInv
<1> SUFFICES ASSUME BufferInit PROVE BufferInv
  OBVIOUS
<1> USE DEF BufferInit
<1>1. made \in Seq(Sizes) /\ Len(made) = 0 /\ file = <<>>
  BY DEF NoFile
<1>2. hook.phase = "none"
  BY DEF NoHook
<1>3. hook \in HookTypes
  BY NoHookIsTyped
<1>4. file \in Seq(Batches \cup {Ghost})
  BY <1>1
<1>5. BufferTypeOK
  BY <1>1, <1>3, <1>4 DEF BufferTypeOK, HookTypes, Backends
<1>6. FileHolds
  BY <1>1, EmptyFile DEF FileHolds
<1>7. KeptUnlessExposed
  BY <1>1 DEF KeptUnlessExposed, Batches
<1>8. OnTheWay /\ Undisturbed
  BY <1>2 DEF OnTheWay, Undisturbed
<1> QED BY <1>5, <1>6, <1>7, <1>8 DEF BufferInv

LEMMA BeyondIsBeyond == \A b : BeyondLimits(b) <=> Beyond(made, b)
BY DEF BeyondLimits, Beyond, Since

\* A batch that was kept still is when another is exported, and that one is.
LEMMA ExportKeeps ==
  ASSUME BufferTypeOK, FileHolds, NEW size \in Sizes, ExportBatch(size)
  PROVE  /\ made' \in Seq(Sizes) /\ Len(made') = Len(made) + 1
         /\ FileHolds'
         /\ accepted \subseteq accepted' /\ accepted' \subseteq Batches'
         /\ Batches' = Batches \cup {Len(made')}
         /\ file' \in Seq(Batches' \cup {Ghost})
         /\ Spans(file') \subseteq Spans(file) \cup {Len(made')}
         /\ \A b \in Batches' : (b \in Batches /\ ~Kept(b)) \/ Kept(b)'
<1> DEFINE N == Len(made')
<1>1. made \in Seq(Sizes) /\ made' = Append(made, size)
  BY DEF BufferTypeOK, ExportBatch
<1>2. made' \in Seq(Sizes) /\ Len(made') = Len(made) + 1
      /\ (\A i \in 1..Len(made) : made'[i] = made[i]) /\ Len(made) \in Nat
  BY <1>1
<1>3. file' = Save(made', N) /\ torn' = torn
  BY DEF ExportBatch
<1>4. IsBuffer(made, file) /\ Len(file) <= FileLimit /\ TotalSize(made, file) <= MaxSize
  BY DEF FileHolds
<1>5. /\ IsBuffer(made', file')
      /\ Len(file') <= FileLimit
      /\ TotalSize(made', file') <= MaxSize
      /\ Spans(file') \subseteq Spans(file) \cup {N}
      /\ \A b \in Spans(file) : b \in Spans(file') \/ Beyond(made', b)
      /\ N \in Spans(file') \/ Beyond(made', N)
  <2> DEFINE more == made'
             new == Save(more, Len(more))
  <2>1. file' = new
    BY <1>3
  <2>2. /\ IsBuffer(more, new)
        /\ Len(new) <= FileLimit
        /\ TotalSize(more, new) <= MaxSize
        /\ Spans(new) \subseteq Spans(file) \cup {Len(more)}
        /\ \A b \in Spans(file) : b \in Spans(new) \/ Beyond(more, b)
        /\ Len(more) \in Spans(new) \/ Beyond(more, Len(more))
    <3> HIDE DEF more
    <3>1. /\ more \in Seq(Sizes) /\ Len(more) = Len(made) + 1
          /\ (\A i \in 1..Len(made) : more[i] = made[i])
      BY <1>2 DEF more
    <3> QED BY <1>1, <1>4, <3>1, SaveKeeps
  <2> QED BY <2>1, <2>2
<1>6. Batches' = Batches \cup {N} /\ N \notin Batches
  BY <1>2 DEF Batches
<1>7. accepted \subseteq accepted' /\ accepted' \subseteq accepted \cup {N}
      /\ accepted' \subseteq Batches'
  BY <1>6 DEF ExportBatch, BufferTypeOK
<1>8. file' \in Seq(Batches' \cup {Ghost})
  <2>1. file' \in Seq(0..N)
    BY <1>5 DEF IsBuffer
  <2>2. 0..N = Batches' \cup {Ghost}
    BY <1>2 DEF Batches, Ghost
  <2> QED BY <2>1, <2>2
<1>9. FileHolds'
  <2>1. N \notin torn
    BY <1>6 DEF BufferTypeOK
  <2>2. Spans(file') \cap torn' = {}
    BY <1>3, <1>5, <2>1 DEF FileHolds
  <2> QED BY <1>5, <2>2 DEF FileHolds
<1>10. \A b \in Batches' : (b \in Batches /\ ~Kept(b)) \/ Kept(b)'
  <2> SUFFICES ASSUME NEW b \in Batches', ~ (b \in Batches /\ ~Kept(b)) PROVE Kept(b)'
    OBVIOUS
  <2>1. BeyondLimits(b)' <=> Beyond(made', b)
    BY DEF BeyondLimits, Beyond, Since
  <2>2. CASE b \in Batches
    <3>1. Kept(b)
      BY <2>2
    <3>2. Beyond(made, b) => Beyond(made', b)
      <4> SUFFICES ASSUME Beyond(made, b) PROVE Beyond(made', b)
        OBVIOUS
      <4> QED BY <1>1, <1>2, <2>2, BeyondStays DEF Batches
    <3> QED BY <1>3, <1>5, <1>7, <2>1, <3>1, <3>2, BeyondIsBeyond DEF Kept
  <2>3. CASE b \notin Batches
    <3>1. b = N
      BY <1>6, <2>3
    <3> QED BY <1>5, <2>1, <3>1 DEF Kept
  <2> QED BY <2>2, <2>3
<1> QED BY <1>2, <1>5, <1>6, <1>7, <1>8, <1>9, <1>10

\* One step for each action; what empties the file without losing anything is
\* the same for three of them (Emptied).
LEMMA NextBuffer == BufferInv /\ [BufferNext]_bufferVars => BufferInv'
<1> SUFFICES ASSUME BufferInv, [BufferNext]_bufferVars PROVE BufferInv'
  OBVIOUS
<1>0. BufferTypeOK /\ FileHolds /\ OnTheWay /\ Undisturbed /\ KeptUnlessExposed
  BY DEF BufferInv
<1>1. ASSUME NEW e \in {"none", "http", "https"}, NEW c \in BOOLEAN, Reconfigure(e, c)
      PROVE  BufferInv'
  <2> USE <1>1 DEF Reconfigure
  <2>1. BufferTypeOK'
    BY <1>0 DEF BufferTypeOK, Batches
  <2>2. FileHolds' /\ OnTheWay'
    BY <1>0 DEF FileHolds, OnTheWay, FoundEmpty
  <2>3. KeptUnlessExposed'
    BY <1>0 DEF KeptUnlessExposed, Batches, Kept, BeyondLimits
  <2> QED BY <2>1, <2>2, <2>3 DEF BufferInv, Undisturbed
<1>2. ASSUME NEW b \in Backends, BackendBecomes(b) PROVE BufferInv'
  <2> USE <1>2 DEF BackendBecomes
  <2>1. BufferTypeOK'
    BY <1>0 DEF BufferTypeOK, Batches
  <2>2. FileHolds' /\ OnTheWay'
    BY <1>0 DEF FileHolds, OnTheWay, FoundEmpty
  <2>3. KeptUnlessExposed'
    BY <1>0 DEF KeptUnlessExposed, Batches, Kept, BeyondLimits
  <2> QED BY <2>1, <2>2, <2>3 DEF BufferInv, Undisturbed
<1>3. ASSUME BeginHook PROVE BufferInv'
  <2>1. /\ UNCHANGED <<environment, file, made, accepted, exposed, torn>> /\ calm'
        /\ hook' = [NoHook EXCEPT !.phase = "running", !.bufferOnly = BufferOnly,
                                  !.previous = ~IsEmpty]
    BY <1>3 DEF BeginHook
  <2>2. /\ hook'.phase = "running" /\ ~hook'.errors
        /\ hook'.bufferOnly <=> BufferOnly
        /\ hook'.previous <=> ~IsEmpty
    BY <2>1 DEF NoHook
  <2>3. BufferTypeOK'
    <3>1. hook' \in HookTypes
      <4>1. BufferOnly \in BOOLEAN /\ (~IsEmpty) \in BOOLEAN
        BY DEF BufferOnly
      <4> QED BY <2>1, <4>1 DEF NoHook, HookTypes
    <3> QED BY <1>0, <2>1, <3>1 DEF BufferTypeOK, Batches, environment, HookTypes
  <2>4. FileHolds' /\ KeptUnlessExposed'
    BY <1>0, <2>1 DEF FileHolds, KeptUnlessExposed, Batches, Kept, BeyondLimits
  <2>5. OnTheWay'
    <3>1. IsEmpty => Spans(file) = {}
      BY DEF IsEmpty, NoFile, Spans, ToSet
    <3> QED BY <2>1, <2>2, <3>1 DEF OnTheWay, FoundEmpty
  <2>6. Undisturbed'
    BY <2>1, <2>2 DEF Undisturbed, BufferOnly, environment
  <2> QED BY <2>3, <2>4, <2>5, <2>6 DEF BufferInv
<1>4. ASSUME NEW size \in Sizes, ExportEarly(size) PROVE BufferInv'
  <2>1. /\ hook.phase = "running" /\ ExportBatch(size)
        /\ hook' = [hook EXCEPT !.exported = @ + 1]
        /\ exposed' = IF FoundEmpty THEN exposed \cup {Len(made')} ELSE exposed
    BY <1>4 DEF ExportEarly
  <2>2. /\ made' \in Seq(Sizes) /\ Len(made') = Len(made) + 1
        /\ FileHolds'
        /\ accepted \subseteq accepted' /\ accepted' \subseteq Batches'
        /\ Batches' = Batches \cup {Len(made')}
        /\ file' \in Seq(Batches' \cup {Ghost})
        /\ Spans(file') \subseteq Spans(file) \cup {Len(made')}
        /\ \A b \in Batches' : (b \in Batches /\ ~Kept(b)) \/ Kept(b)'
    BY <1>0, <2>1, ExportKeeps
  <2>3. UNCHANGED <<environment, torn, calm>>
    BY <2>1 DEF ExportBatch
  <2>4. /\ hook' \in HookTypes
        /\ hook'.phase = "running" /\ hook'.errors = hook.errors
        /\ hook'.previous = hook.previous /\ hook'.bufferOnly = hook.bufferOnly
    BY <1>0, <2>1 DEF BufferTypeOK, HookTypes
  <2>5. BufferTypeOK'
    BY <1>0, <2>1, <2>2, <2>3, <2>4 DEF BufferTypeOK, environment, HookTypes
  <2>6. OnTheWay'
    BY <1>0, <2>1, <2>2, <2>4 DEF OnTheWay, FoundEmpty
  <2>7. Undisturbed'
    BY <1>0, <2>1, <2>3, <2>4 DEF Undisturbed, BufferOnly, environment
  <2>8. KeptUnlessExposed'
    BY <1>0, <2>1, <2>2 DEF KeptUnlessExposed
  <2> QED BY <2>2, <2>5, <2>6, <2>7, <2>8 DEF BufferInv
<1>5. ASSUME NEW size \in Sizes, Close(size) PROVE BufferInv'
  <2>1. /\ hook.phase = "running" /\ ExportBatch(size)
        /\ exposed' = IF FoundEmpty /\ backend = "refuses" THEN exposed \cup {Len(made')}
                      ELSE exposed
        /\ hook' = CASE AfterForceFlush = "done" -> NoHook
                     [] AfterForceFlush = "drop" -> [hook EXCEPT !.phase = "dropping"]
                     [] OTHER -> [hook EXCEPT !.phase = "flushing", !.next = 1]
    BY <1>5 DEF Close
  <2>2. /\ made' \in Seq(Sizes) /\ Len(made') = Len(made) + 1
        /\ FileHolds'
        /\ accepted \subseteq accepted' /\ accepted' \subseteq Batches'
        /\ Batches' = Batches \cup {Len(made')}
        /\ file' \in Seq(Batches' \cup {Ghost})
        /\ Spans(file') \subseteq Spans(file) \cup {Len(made')}
        /\ \A b \in Batches' : (b \in Batches /\ ~Kept(b)) \/ Kept(b)'
    BY <1>0, <2>1, ExportKeeps
  <2>3. UNCHANGED <<environment, torn, calm>>
        /\ accepted' = IF Takes /\ ~hook.bufferOnly THEN accepted \cup {Len(made')}
                       ELSE accepted
    BY <2>1 DEF ExportBatch
  <2>4. KeptUnlessExposed'
    BY <1>0, <2>1, <2>2 DEF KeptUnlessExposed
  <2>5. /\ AfterForceFlush = "done" <=> hook.bufferOnly \/ ~FlushSuccessful
        /\ AfterForceFlush = "drop" <=> FoundEmpty /\ FlushSuccessful
    BY DEF AfterForceFlush, FoundEmpty
  <2>6. CASE hook.bufferOnly \/ ~FlushSuccessful
    <3>1. hook' = NoHook
      BY <2>1, <2>5, <2>6
    <3>2. BufferTypeOK'
      BY <1>0, <2>1, <2>2, <2>3, <3>1, NoHookIsTyped DEF BufferTypeOK, HookTypes, environment
    <3>3. OnTheWay'
      BY <3>1 DEF OnTheWay, NoHook
    <3>4. Undisturbed'
      BY <1>0, <2>1, <2>3, <2>6 DEF Undisturbed, BufferOnly, environment, FlushSuccessful
    <3> QED BY <2>2, <2>4, <3>2, <3>3, <3>4 DEF BufferInv
  <2>7. CASE FoundEmpty /\ FlushSuccessful
    <3>1. hook' = [hook EXCEPT !.phase = "dropping"]
      BY <2>1, <2>5, <2>7
    <3>2. /\ hook' \in HookTypes
          /\ hook'.phase = "dropping"
      BY <1>0, <3>1 DEF BufferTypeOK, HookTypes
    <3>3. BufferTypeOK'
      BY <1>0, <2>1, <2>2, <2>3, <3>2 DEF BufferTypeOK, environment, HookTypes
    <3>4. OnTheWay'
      <4>1. Len(made') \in exposed' \cup accepted'
        BY <2>1, <2>3, <2>7 DEF FoundEmpty, FlushSuccessful, Takes
      <4>2. exposed \subseteq exposed'
        BY <2>1
      <4> QED BY <1>0, <2>1, <2>2, <2>7, <3>2, <4>1, <4>2 DEF OnTheWay
    <3>5. Undisturbed'
      BY <3>2 DEF Undisturbed
    <3> QED BY <2>2, <2>4, <3>3, <3>4, <3>5 DEF BufferInv
  <2>8. CASE ~hook.bufferOnly /\ FlushSuccessful /\ hook.previous
    <3>1. hook' = [hook EXCEPT !.phase = "flushing", !.next = 1]
      BY <2>1, <2>5, <2>8 DEF FoundEmpty
    <3>2. /\ hook' \in HookTypes
          /\ hook'.phase = "flushing" /\ hook'.next = 1 /\ ~hook'.errors
      <4>1. hook \in HookTypes
        BY <1>0 DEF BufferTypeOK, HookTypes
      <4>2. ~hook.errors
        BY <1>0, <2>1 DEF OnTheWay
      <4> QED BY <3>1, <4>1, <4>2 DEF HookTypes
    <3>3. BufferTypeOK'
      BY <1>0, <2>1, <2>2, <2>3, <3>2 DEF BufferTypeOK, environment, HookTypes
    <3>4. OnTheWay'
      BY <3>2 DEF OnTheWay
    <3>5. Undisturbed'
      BY <3>2 DEF Undisturbed
    <3> QED BY <2>2, <2>4, <3>3, <3>4, <3>5 DEF BufferInv
  <2>9. hook.bufferOnly \in BOOLEAN /\ hook.previous \in BOOLEAN
    BY <1>0 DEF BufferTypeOK
  <2> QED BY <2>6, <2>7, <2>8, <2>9 DEF FoundEmpty
<1> DEFINE Emptied == /\ file' = <<Ghost>> /\ hook' = NoHook
                      /\ UNCHANGED <<environment, made, accepted, exposed>>
                      /\ torn \subseteq torn' /\ torn' \subseteq torn \cup Spans(file)
                      /\ calm' \in BOOLEAN
                      /\ Spans(file) \subseteq exposed \cup accepted \cup torn'
<1>6. ASSUME Emptied PROVE BufferInv'
  <2>1. made \in Seq(Sizes) /\ file \in Seq(Batches \cup {Ghost})
    BY <1>0 DEF BufferTypeOK
  <2>2. /\ IsBuffer(made, <<Ghost>>) /\ Len(<<Ghost>>) <= FileLimit
        /\ TotalSize(made, <<Ghost>>) <= MaxSize /\ Spans(<<Ghost>>) = {}
    BY <2>1, EmptyFile
  <2>3. FileHolds'
    BY <1>6, <2>2 DEF FileHolds
  <2>4. Spans(file) \subseteq Batches
    BY <2>1 DEF Spans, ToSet
  <2>5. BufferTypeOK'
    <3>1. <<Ghost>> \in Seq(Batches \cup {Ghost})
      OBVIOUS
    <3> QED BY <1>0, <1>6, <2>4, <3>1 DEF BufferTypeOK, Batches, NoHook, environment
  <2>6. OnTheWay' /\ Undisturbed'
    BY <1>6 DEF OnTheWay, Undisturbed, NoHook, IsEmpty
  <2>7. KeptUnlessExposed'
    <3> SUFFICES ASSUME NEW b \in Batches \ exposed PROVE Kept(b)'
      BY <1>6 DEF KeptUnlessExposed, Batches
    <3>1. Kept(b)
      BY <1>0 DEF KeptUnlessExposed
    <3>2. BeyondLimits(b)' <=> BeyondLimits(b)
      BY <1>6 DEF BeyondLimits
    <3> QED BY <1>6, <3>1, <3>2 DEF Kept
  <2> QED BY <2>3, <2>5, <2>6, <2>7 DEF BufferInv
<1>7. ASSUME DropBuffer PROVE BufferInv'
  <2>1. Emptied
    BY <1>0, <1>7 DEF DropBuffer, Drop, Written, OnTheWay, BufferTypeOK
  <2> QED BY <1>6, <2>1
<1>8. ASSUME FlushEntry PROVE BufferInv'
  <2> DEFINE taken == Spans(<<file[hook.next]>>)
  <2>1. /\ hook.phase = "flushing" /\ hook.next <= Len(file)
        /\ accepted' = IF Takes THEN accepted \cup taken ELSE accepted
        /\ hook' = [hook EXCEPT !.next = @ + 1, !.errors = @ \/ backend # "up"]
        /\ UNCHANGED <<environment, file, made, exposed, torn, calm>>
    BY <1>8 DEF FlushEntry
  <2>2. /\ hook \in HookTypes
        /\ file \in Seq(Batches \cup {Ghost})
    BY <1>0 DEF BufferTypeOK, HookTypes
  <2>3. /\ hook' \in HookTypes
        /\ hook'.phase = "flushing" /\ hook'.next = hook.next + 1
        /\ hook'.errors <=> (hook.errors \/ backend # "up")
    <3>1. (hook.errors \/ backend # "up") \in BOOLEAN
      OBVIOUS
    <3>2. hook \in HookTypes /\ hook.next + 1 \in Nat
      BY <2>2 DEF HookTypes
    <3> DEFINE failed == hook.errors \/ backend # "up"
    <3>3. hook' = [hook EXCEPT !.next = hook.next + 1, !.errors = failed]
      BY <2>1
    <3>4. failed \in BOOLEAN
      BY <3>1
    <3> HIDE DEF failed
    <3>5. hook' \in HookTypes /\ hook'.phase = hook.phase /\ hook'.next = hook.next + 1
          /\ hook'.errors = failed
      BY <3>2, <3>3, <3>4 DEF HookTypes
    <3> QED BY <2>1, <3>5 DEF failed
  <2>4. hook.next \in 1..Len(file)
    BY <1>0, <2>1, <2>2 DEF OnTheWay, HookTypes
  <2>5. file[hook.next] \in Batches \cup {Ghost}
    BY <2>2, <2>4
  <2>6. taken = {file[hook.next]} \ {Ghost} /\ taken \subseteq Batches
    BY <2>5 DEF Spans, ToSet
  <2> HIDE DEF taken
  <2>7. BufferTypeOK'
    BY <1>0, <2>1, <2>3, <2>6 DEF BufferTypeOK, Batches, environment, HookTypes
  <2>8. FileHolds'
    BY <1>0, <2>1 DEF FileHolds
  <2>9. OnTheWay'
    <3> SUFFICES ASSUME ~hook'.errors, NEW i \in 1..Len(file), i < hook'.next
                 PROVE  file[i] = Ghost \/ file[i] \in accepted'
      BY <2>1, <2>3, <2>4 DEF OnTheWay
    <3>1. ~hook.errors /\ backend = "up"
      BY <2>3
    <3>2. CASE i < hook.next
      BY <1>0, <2>1, <3>1, <3>2 DEF OnTheWay
    <3>3. CASE ~ i < hook.next
      <4>1. i = hook.next
        BY <2>3, <2>4, <3>3
      <4> QED BY <2>1, <2>6, <3>1, <4>1 DEF Takes
    <3> QED BY <3>2, <3>3
  <2>10. Undisturbed'
    BY <1>0, <2>1, <2>3 DEF Undisturbed, BufferOnly, environment
  <2>11. KeptUnlessExposed'
    BY <1>0, <2>1 DEF KeptUnlessExposed, Kept, BeyondLimits, Batches
  <2> QED BY <2>7, <2>8, <2>9, <2>10, <2>11 DEF BufferInv
<1>9. ASSUME FlushEnd PROVE BufferInv'
  <2>1. /\ hook.phase = "flushing" /\ hook.next > Len(file)
        /\ file' = IF hook.errors THEN file ELSE <<Ghost>>
        /\ hook' = NoHook
        /\ UNCHANGED <<environment, made, accepted, exposed, torn, calm>>
    BY <1>9 DEF FlushEnd, Flushed, Drop, Written
  <2>2. CASE hook.errors
    <3>1. BufferTypeOK'
      BY <1>0, <2>1, <2>2 DEF BufferTypeOK, Batches, NoHook, environment
    <3>2. FileHolds' /\ OnTheWay' /\ KeptUnlessExposed'
      BY <1>0, <2>1, <2>2 DEF FileHolds, OnTheWay, KeptUnlessExposed, Kept, BeyondLimits, Batches,
                              NoHook
    <3>3. Undisturbed'
      BY <1>0, <2>1, <2>2 DEF Undisturbed, BufferOnly, environment
    <3> QED BY <3>1, <3>2, <3>3 DEF BufferInv
  <2>3. CASE ~hook.errors
    <3>1. file \in Seq(Batches \cup {Ghost}) /\ hook.next \in Nat
      BY <1>0 DEF BufferTypeOK
    <3>2. \A i \in 1..Len(file) : file[i] = Ghost \/ file[i] \in accepted
      BY <1>0, <2>1, <2>3, <3>1 DEF OnTheWay
    <3>3. Spans(file) \subseteq accepted
      BY <3>1, <3>2, SpansOf
    <3>4. Emptied
      BY <1>0, <2>1, <2>3, <3>3 DEF BufferTypeOK
    <3> QED BY <1>6, <3>4
  <2>4. hook.errors \in BOOLEAN
    BY <1>0 DEF BufferTypeOK
  <2> QED BY <2>2, <2>3, <2>4
<1>10. ASSUME Crash PROVE BufferInv'
  <2>1. hook' = NoHook /\ calm' = FALSE /\ UNCHANGED <<environment, made, accepted, exposed>>
    BY <1>10 DEF Crash
  <2>2. CASE UNCHANGED <<file, torn>>
    <3>1. BufferTypeOK'
      BY <1>0, <2>1, <2>2, NoHookIsTyped DEF BufferTypeOK, Batches, HookTypes, environment
    <3>2. FileHolds' /\ OnTheWay' /\ KeptUnlessExposed' /\ Undisturbed'
      BY <1>0, <2>1, <2>2 DEF FileHolds, OnTheWay, KeptUnlessExposed, Kept, BeyondLimits, Batches,
                              NoHook, Undisturbed
    <3> QED BY <3>1, <3>2 DEF BufferInv
  <2>3. CASE file' = Written(<<>>) /\ torn' = torn \cup Spans(file)
    <3>1. Emptied
      BY <1>10, <2>1, <2>3 DEF Written, Crash
    <3> QED BY <1>6, <3>1
  <2> QED BY <1>10, <2>2, <2>3 DEF Crash
<1>11. CASE UNCHANGED bufferVars
  <2> USE <1>11 DEF bufferVars
  <2>1. BufferTypeOK'
    BY <1>0 DEF BufferTypeOK, Batches
  <2>2. FileHolds' /\ OnTheWay'
    BY <1>0 DEF FileHolds, OnTheWay, FoundEmpty
  <2>3. Undisturbed'
    BY <1>0 DEF Undisturbed, BufferOnly, IsEmpty
  <2>4. KeptUnlessExposed'
    BY <1>0 DEF KeptUnlessExposed, Batches, Kept, BeyondLimits
  <2> QED BY <2>1, <2>2, <2>3, <2>4 DEF BufferInv
<1> QED BY <1>1, <1>2, <1>3, <1>4, <1>5, <1>7, <1>8, <1>9, <1>10, <1>11 DEF BufferNext

LEMMA BufferInvariant == BufferSpec => []BufferInv
BY InitBuffer, NextBuffer, PTL DEF BufferSpec

\* Whatever backend, configuration and processes do, what is exported without a
\* backend, by a hook that found a backlog, or to a backend that does not refuse it
\* at once when its hook closes, is taken by Tempo or in the file, unless the file
\* overflowed or was torn (wrap_close and flush, charm_tracing.py): for any limits
\* and any sizes.
THEOREM UnexposedAreKept == BufferSpec => []KeptUnlessExposed
<1>1. BufferInv => KeptUnlessExposed
  BY DEF BufferInv
<1> QED BY <1>1, BufferInvariant, PTL

\* The file never outgrows its two limits (_prune), and one undisturbed hook with
\* a backend that is up leaves no backlog (wrap_close).
THEOREM BacklogIsLimited == BufferSpec => []BacklogLimited
<1>1. BufferInv => BacklogLimited
  <2> SUFFICES ASSUME BufferInv PROVE BacklogLimited
    OBVIOUS
  <2>1. BufferBounded
    BY DEF BufferInv, FileHolds, BufferBounded, FileLimit
  <2>2. BacklogCleared
    BY DEF BufferInv, Undisturbed, BacklogCleared
  <2> QED BY <2>1, <2>2 DEF BacklogLimited
<1> QED BY <1>1, BufferInvariant, PTL

\* A flush that empties the file, in a hook of any length and with the backend
\* changing under it, has had all that was in it taken (flush).
THEOREM FlushesLoseNothing == BufferSpec => FlushLosesNothing
<1>1. BufferInv /\ [BufferNext]_bufferVars => [FlushEmptiesWhatWasTaken]_bufferVars
  <2> SUFFICES ASSUME BufferInv, BufferNext, hook.phase = "flushing", hook'.phase = "none",
                      torn' = torn
               PROVE  Spans(file) \ Spans(file') \subseteq accepted
    BY DEF FlushEmptiesWhatWasTaken
  <2>1. file \in Seq(Batches \cup {Ghost}) /\ hook.next \in Nat
    BY DEF BufferInv, BufferTypeOK
  <2>2. CASE FlushEnd
    <3>1. CASE hook.errors
      BY <2>2, <3>1 DEF FlushEnd, Flushed
    <3>2. CASE ~hook.errors
      <4>1. \A i \in 1..Len(file) : file[i] = Ghost \/ file[i] \in accepted
        BY <2>1, <2>2, <3>2 DEF FlushEnd, BufferInv, OnTheWay
      <4> QED BY <2>1, <4>1, SpansOf
    <3> QED BY <3>1, <3>2
  <2>3. CASE Crash
    <3>1. CASE file' = file
      BY <3>1
    <3>2. CASE torn' = torn \cup Spans(file)
      BY <3>2 DEF BufferInv, FileHolds
    <3> QED BY <2>3, <3>1, <3>2 DEF Crash
  <2>4. CASE FlushEntry
    <3>1. hook'.phase = "flushing"
      BY <2>4 DEF FlushEntry, BufferInv, BufferTypeOK
    <3> QED BY <3>1
  <2>5. CASE \/ \E e \in {"none", "http", "https"}, c \in BOOLEAN : Reconfigure(e, c)
             \/ \E b \in Backends : BackendBecomes(b)
    BY <2>5 DEF Reconfigure, BackendBecomes
  <2>6. CASE \/ BeginHook
             \/ \E size \in Sizes : ExportEarly(size) \/ Close(size)
             \/ DropBuffer
    BY <2>6 DEF BeginHook, ExportEarly, Close, DropBuffer
  <2> QED BY <2>2, <2>3, <2>4, <2>5, <2>6 DEF BufferNext
<1> QED BY <1>1, BufferInvariant, PTL DEF BufferSpec, FlushLosesNothing

(***************************************************************************)
(* When nothing at all is lost. What is lost is lost by a hook that found  *)
(* the buffer empty and drops it at the end: a batch it exported before    *)
(* the backend came back, or one that the backend refused at once, which   *)
(* passes for sent. It takes a backend that changes under the hook, or     *)
(* one that refuses.                                                       *)
(***************************************************************************)

\* The backend is the same from the beginning of a hook to its end.
BackendSteady == [][hook.phase # "none" => UNCHANGED backend]_bufferVars

\* No hook that found the buffer empty meets a backend that refuses at once.
NotRefused == hook.phase = "running" /\ FoundEmpty => backend # "refuses"

\* A hook that found the buffer empty has sent what the buffer holds.
SentSoFar ==
  /\ hook.phase = "running" /\ FoundEmpty /\ Takes => Spans(file) \subseteq accepted
  /\ hook.phase = "dropping" => Spans(file) \subseteq accepted

\* A step that exports nothing loses nothing if what leaves the file is taken.
LEMMA NothingLostStays ==
  ASSUME NothingLost, made' = made, accepted \subseteq accepted', torn \subseteq torn',
         Spans(file) \subseteq Spans(file)' \cup accepted' \cup torn'
  PROVE  NothingLost'
<1>1. Batches' = Batches
  BY DEF Batches
<1>2. \A b : BeyondLimits(b)' <=> BeyondLimits(b)
  BY DEF BeyondLimits
<1> QED BY <1>1, <1>2 DEF NothingLost, Kept

LEMMA NextSteady ==
  ASSUME BufferInv, BufferNext, NothingLost, SentSoFar, NotRefused,
         hook.phase # "none" => UNCHANGED backend
  PROVE  NothingLost' /\ SentSoFar'
<1> USE DEF environment
<1>1. file \in Seq(Batches \cup {Ghost}) /\ BufferTypeOK /\ FileHolds
  BY DEF BufferInv, BufferTypeOK
<1>2. hook \in HookTypes
  BY <1>1 DEF BufferTypeOK, HookTypes
<1>3. ASSUME NEW e, NEW c, Reconfigure(e, c) PROVE NothingLost' /\ SentSoFar'
  BY <1>3, NothingLostStays DEF Reconfigure, SentSoFar, FoundEmpty, Takes
<1>4. ASSUME NEW b, BackendBecomes(b) PROVE NothingLost' /\ SentSoFar'
  <2>1. hook.phase = "none"
    BY <1>4 DEF BackendBecomes
  <2> QED BY <1>4, <2>1, NothingLostStays DEF BackendBecomes, SentSoFar
<1>5. CASE BeginHook
  <2>1. hook'.phase = "running" /\ hook'.previous = ~IsEmpty
    BY <1>5 DEF BeginHook, NoHook
  <2>2. ~hook'.previous => Spans(file) = {}
    BY <2>1, EmptyFile, <1>1 DEF IsEmpty, NoFile, BufferTypeOK
  <2>3. NothingLost'
    BY <1>5, NothingLostStays DEF BeginHook
  <2> QED BY <1>5, <2>1, <2>2, <2>3 DEF BeginHook, SentSoFar, FoundEmpty
<1>6. ASSUME NEW size \in Sizes, ExportBatch(size), UNCHANGED backend
      PROVE  /\ NothingLost'
             /\ Spans(file) \subseteq accepted /\ ~hook.bufferOnly /\ Takes =>
                  Spans(file)' \subseteq accepted'
  <2>1. /\ Spans(file') \subseteq Spans(file) \cup {Len(made')}
        /\ accepted \subseteq accepted'
        /\ \A b \in Batches' : (b \in Batches /\ ~Kept(b)) \/ Kept(b)'
    BY <1>1, <1>6, ExportKeeps
  <2>2. NothingLost'
    BY <2>1 DEF NothingLost
  <2>3. ~hook.bufferOnly /\ Takes => Len(made') \in accepted'
    BY <1>6 DEF ExportBatch
  <2> QED BY <2>1, <2>2, <2>3
<1>7. ASSUME NEW size \in Sizes, ExportEarly(size) PROVE NothingLost' /\ SentSoFar'
  <2>1. ExportBatch(size) /\ UNCHANGED backend /\ hook.phase = "running"
    BY <1>7 DEF ExportEarly, ExportBatch
  <2>2. /\ hook'.phase = "running" /\ hook'.previous = hook.previous
        /\ hook'.bufferOnly = hook.bufferOnly
    BY <1>2, <1>7 DEF ExportEarly, HookTypes
  <2> QED BY <1>6, <2>1, <2>2 DEF SentSoFar, FoundEmpty, Takes
<1>8. ASSUME NEW size \in Sizes, Close(size) PROVE NothingLost' /\ SentSoFar'
  <2>1. ExportBatch(size) /\ UNCHANGED backend /\ hook.phase = "running"
    BY <1>8 DEF Close, ExportBatch
  <2>2. hook'.phase = "dropping" => FoundEmpty /\ Takes
    <3>1. hook'.phase = "dropping" => FoundEmpty /\ FlushSuccessful
      BY <1>2, <1>8 DEF Close, AfterForceFlush, FoundEmpty, NoHook, HookTypes
    <3> QED BY <2>1, <3>1 DEF NotRefused, FlushSuccessful, Takes
  <2>3. hook'.phase # "running"
    BY <1>2, <1>8 DEF Close, NoHook, HookTypes
  <2> QED BY <1>6, <2>1, <2>2, <2>3 DEF SentSoFar, FoundEmpty
<1>9. CASE DropBuffer
  <2>1. hook'.phase = "none" /\ Spans(file) \subseteq accepted
    BY <1>9 DEF DropBuffer, NoHook, SentSoFar
  <2>2. NothingLost'
    BY <1>9, <2>1, NothingLostStays DEF DropBuffer
  <2> QED BY <2>1, <2>2 DEF SentSoFar
<1>10. CASE FlushEntry
  <2>1. hook'.phase = "flushing"
    BY <1>2, <1>10 DEF FlushEntry, HookTypes
  <2>2. NothingLost'
    BY <1>10, NothingLostStays DEF FlushEntry
  <2> QED BY <2>1, <2>2 DEF SentSoFar
<1>11. CASE FlushEnd
  <2>1. hook'.phase = "none"
    BY <1>11 DEF FlushEnd, NoHook
  <2>2. Spans(file) \subseteq Spans(file)' \cup accepted
    <3>1. CASE hook.errors
      BY <1>11, <3>1 DEF FlushEnd, Flushed
    <3>2. CASE ~hook.errors
      <4>1. \A i \in 1..Len(file) : file[i] = Ghost \/ file[i] \in accepted
        BY <1>1, <1>2, <1>11, <3>2 DEF FlushEnd, BufferInv, OnTheWay, HookTypes
      <4> QED BY <1>1, <4>1, SpansOf
    <3> QED BY <3>1, <3>2
  <2>3. NothingLost'
    BY <1>11, <2>2, NothingLostStays DEF FlushEnd
  <2> QED BY <2>1, <2>3 DEF SentSoFar
<1>12. CASE Crash
  <2>1. hook'.phase = "none" /\ made' = made /\ accepted' = accepted
    BY <1>12 DEF Crash, NoHook
  <2>2. torn \subseteq torn' /\ Spans(file) \subseteq Spans(file)' \cup torn'
    BY <1>12 DEF Crash
  <2>3. NothingLost'
    BY <2>1, <2>2, NothingLostStays
  <2> QED BY <2>1, <2>3 DEF SentSoFar
<1> QED
  BY <1>3, <1>4, <1>5, <1>7, <1>8, <1>9, <1>10, <1>11, <1>12 DEF BufferNext

\* With a backend that changes only between hooks, and does not refuse at once what
\* a hook sends that found the buffer empty, nothing is lost, in hooks of any
\* length: what the comment at charm_tracing.py:377 promises, and where.
THEOREM NothingLostToSteadyBackends ==
  BufferSpec /\ BackendSteady /\ []NotRefused => []NothingLost
<1>1. BufferInit => NothingLost /\ SentSoFar
  BY DEF BufferInit, NothingLost, SentSoFar, Batches, NoHook
<1>2. /\ BufferInv /\ NotRefused /\ NothingLost /\ SentSoFar
      /\ [BufferNext]_bufferVars /\ [hook.phase # "none" => UNCHANGED backend]_bufferVars
      => NothingLost' /\ SentSoFar'
  <2> SUFFICES ASSUME BufferInv, NotRefused, NothingLost, SentSoFar, [BufferNext]_bufferVars,
                      [hook.phase # "none" => UNCHANGED backend]_bufferVars
               PROVE  NothingLost' /\ SentSoFar'
    OBVIOUS
  <2>1. CASE UNCHANGED bufferVars
    BY <2>1, NothingLostStays DEF bufferVars, SentSoFar, FoundEmpty, Takes
  <2>2. CASE BufferNext /\ (hook.phase # "none" => UNCHANGED backend)
    BY <2>2, NextSteady
  <2> QED BY <2>1, <2>2
<1> QED BY <1>1, <1>2, BufferInvariant, PTL DEF BufferSpec, BackendSteady

\* Nor is anything lost by hooks shorter than the export interval, which export
\* once, whatever else the backend does meanwhile, if it does not refuse at once.
THEOREM NothingLostInShortHooks ==
  BatchesPerHook = 1 => (BufferSpec /\ []NotRefused => []NothingLost)
<1> SUFFICES ASSUME BatchesPerHook = 1 PROVE BufferSpec /\ []NotRefused => []NothingLost
  OBVIOUS
<1>1. BufferInit => exposed = {}
  BY DEF BufferInit
<1>2. BufferInv /\ NotRefused /\ exposed = {} /\ [BufferNext]_bufferVars => (exposed = {})'
  <2> SUFFICES ASSUME BufferInv, NotRefused, exposed = {}, [BufferNext]_bufferVars
               PROVE  exposed' = {}
    OBVIOUS
  <2>1. ~\E size \in Sizes : ExportEarly(size)
    BY DEF ExportEarly, BufferInv, BufferTypeOK
  <2>2. ASSUME NEW size \in Sizes, Close(size) PROVE exposed' = {}
    BY <2>2 DEF Close, NotRefused
  <2> QED
    BY <2>1, <2>2 DEF BufferNext, bufferVars, Reconfigure, BackendBecomes, BeginHook,
                DropBuffer, FlushEntry, FlushEnd, Crash
<1>3. BufferInv /\ exposed = {} => NothingLost
  BY DEF BufferInv, KeptUnlessExposed, NothingLost
<1> QED BY <1>1, <1>2, <1>3, BufferInvariant, PTL DEF BufferSpec
===============================================================================
