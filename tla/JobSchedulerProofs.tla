------------------------- MODULE JobSchedulerProofs -------------------------
(***************************************************************************)
(* Lemmas about the operations of JobScheduler, for queues over any set.   *)
(***************************************************************************)
EXTENDS JobScheduler, SequenceTheorems, WellFoundedInduction, TLAPS

(* insert returns a queue that is not empty and has the old head, or the new *)
(* PCB as its head (lines 45-58 of src/jobscheduler.h).                      *)
LEMMA InsertKeepsHead ==
  ASSUME NEW S, NEW queue \in Seq(S), NEW last, NEW pcb \in S
  PROVE  /\ insert(queue, last, pcb) \in Seq(S)
         /\ insert(queue, last, pcb) # <<>>
         /\ Head(insert(queue, last, pcb)) = IF queue = <<>> THEN pcb ELSE Head(queue)
<1>1. CASE Len(queue) <= 1 \/ last = queue[Len(queue)]
  <2>1. insert(queue, last, pcb) = Append(queue, pcb)
    BY <1>1 DEF insert
  <2> QED  BY <2>1, AppendProperties, HeadTailAppend
<1>2. CASE ~(Len(queue) <= 1 \/ last = queue[Len(queue)])
  <2>1. insert(queue, last, pcb) = queue
    BY <1>2 DEF insert
  <2>2. queue # <<>>
    BY <1>2, EmptySeq
  <2> QED  BY <2>1, <2>2
<1> QED  BY <1>1, <1>2

(* delete's unlinking returns a queue of the same PCBs, and takes the head   *)
(* when that is what it is asked for (lines 89-116).                         *)
LEMMA UnlinkType ==
  ASSUME NEW S, NEW queue \in Seq(S), NEW pcb
  PROVE  unlink(queue, pcb) \in Seq(S)
<1>1. CASE queue # <<>> /\ Head(queue) = pcb
  <2>1. unlink(queue, pcb) = Tail(queue)
    BY <1>1 DEF unlink
  <2> QED  BY <2>1, <1>1, HeadTailProperties
<1>2. CASE ~(queue # <<>> /\ Head(queue) = pcb) /\ pcb \in Range(queue)
  <2> DEFINE k == Position(queue, pcb)
  <2>1. unlink(queue, pcb) = RemoveAt(queue, k)
    BY <1>2 DEF unlink
  <2>2. k \in DOMAIN queue
    <3>1. \E n \in DOMAIN queue : queue[n] = pcb
      BY <1>2 DEF Range
    <3> QED  BY <3>1 DEF Position
  <2>3. k \in 1 .. Len(queue) /\ Len(queue) \in Nat
    BY <2>2, LenProperties
  <2> HIDE DEF k
  <2>4. \A n \in 1 .. Len(queue) : queue[n] \in S
    BY ElementOfSeq
  <2>5. SubSeq(queue, 1, k - 1) \in Seq(S)
    <3>1. \A n \in 1 .. k - 1 : queue[n] \in S
      BY <2>3, <2>4
    <3> QED  BY <3>1, <2>3, SubSeqProperties
  <2>6. SubSeq(queue, k + 1, Len(queue)) \in Seq(S)
    <3>1. \A n \in k + 1 .. Len(queue) : queue[n] \in S
      BY <2>3, <2>4
    <3> QED  BY <3>1, <2>3, SubSeqProperties
  <2>7. SubSeq(queue, 1, k - 1) \o SubSeq(queue, k + 1, Len(queue)) \in Seq(S)
    BY <2>5, <2>6, ConcatProperties
  <2> QED  BY <2>1, <2>7 DEF RemoveAt
<1>3. CASE ~(queue # <<>> /\ Head(queue) = pcb) /\ pcb \notin Range(queue)
  BY <1>3 DEF unlink
<1> QED  BY <1>1, <1>2, <1>3

(* getSJF and getHPF return PCBs of the queue (lines 129-159).               *)
LEMMA LeastIsQueued ==
  ASSUME NEW S, NEW queue \in Seq(S), NEW key
  PROVE  EarliestLeast(queue, key) \subseteq S
BY LenProperties, ElementOfSeq DEF EarliestLeast

(* moveFirstToLast returns a queue of the same PCBs (lines 120-127).         *)
LEMMA MoveFirstToLastType ==
  ASSUME NEW S, NEW queue \in Seq(S), queue # <<>>
  PROVE  moveFirstToLast(queue) \in Seq(S) /\ moveFirstToLast(queue) # <<>>
<1>1. Tail(queue) \in Seq(S) /\ Head(queue) \in S
  BY HeadTailProperties
<1>2. Append(Tail(queue), Head(queue)) \in Seq(S) /\ Append(Tail(queue), Head(queue)) # <<>>
  BY <1>1, AppendProperties
<1> QED  BY <1>2 DEF moveFirstToLast

-----------------------------------------------------------------------------
(* A queue whose RQ->last is its last PCB.                                   *)

TailLinked(queue, last) == queue # <<>> => last = queue[Len(queue)]

LEMMA AppendFacts ==
  ASSUME NEW S, NEW queue \in Seq(S), NEW pcb \in S
  PROVE  /\ Range(Append(queue, pcb)) = Range(queue) \cup {pcb}
         /\ IsInjective(queue) /\ pcb \notin Range(queue) => IsInjective(Append(queue, pcb))
         /\ TailLinked(Append(queue, pcb), pcb)
<1> DEFINE longer == Append(queue, pcb)
<1>1. /\ longer \in Seq(S) /\ Len(longer) = Len(queue) + 1 /\ Len(queue) \in Nat
      /\ \A n \in 1 .. Len(queue) : longer[n] = queue[n]
      /\ longer[Len(queue) + 1] = pcb
  BY AppendProperties, LenProperties
<1>2. DOMAIN longer = 1 .. Len(queue) + 1 /\ DOMAIN queue = 1 .. Len(queue)
  BY <1>1, LenProperties
<1> HIDE DEF longer
<1>3. Range(longer) = Range(queue) \cup {pcb}
  BY <1>1, <1>2 DEF Range
<1>4. ASSUME IsInjective(queue), pcb \notin Range(queue)
      PROVE  IsInjective(longer)
  BY <1>1, <1>2, <1>4 DEF IsInjective, Range
<1>5. TailLinked(longer, pcb)
  BY <1>1 DEF TailLinked
<1> QED  BY <1>3, <1>4, <1>5 DEF longer

LEMMA TailFacts ==
  ASSUME NEW S, NEW queue \in Seq(S), queue # <<>>
  PROVE  /\ Tail(queue) \in Seq(S) /\ Head(queue) \in S
         /\ Range(queue) = {Head(queue)} \cup Range(Tail(queue))
         /\ IsInjective(queue) => /\ IsInjective(Tail(queue))
                                  /\ Head(queue) \notin Range(Tail(queue))
         /\ \A last : TailLinked(queue, last) => TailLinked(Tail(queue), last)
<1> DEFINE rest == Tail(queue)
           first == Head(queue)
<1>1. /\ rest \in Seq(S) /\ Len(rest) = Len(queue) - 1 /\ Len(queue) \in Nat \ {0}
      /\ \A n \in 1 .. Len(rest) : rest[n] = queue[n + 1]
      /\ first = queue[1] /\ first \in S
  BY HeadTailProperties, EmptySeq
<1>2. DOMAIN rest = 1 .. Len(queue) - 1 /\ DOMAIN queue = 1 .. Len(queue)
  BY <1>1, LenProperties
<1>3. \A n \in 2 .. Len(queue) : n - 1 \in DOMAIN rest /\ rest[n - 1] = queue[n]
  BY <1>1, <1>2
<1>4. rest # <<>> => Len(rest) \in 1 .. Len(rest)
  BY <1>1, EmptySeq
<1> HIDE DEF rest, first
<1>5. Range(queue) = {first} \cup Range(rest)
  <2>1. Range(queue) \subseteq {first} \cup Range(rest)
    <3> SUFFICES ASSUME NEW n \in DOMAIN queue
                 PROVE  queue[n] \in {first} \cup Range(rest)
      BY DEF Range
    <3>1. CASE n = 1
      BY <1>1, <3>1
    <3>2. CASE n # 1
      <4>1. n \in 2 .. Len(queue)
        BY <1>1, <1>2, <3>2
      <4> QED  BY <1>3, <4>1 DEF Range
    <3> QED  BY <3>1, <3>2
  <2>2. {first} \cup Range(rest) \subseteq Range(queue)
    BY <1>1, <1>2 DEF Range
  <2> QED  BY <2>1, <2>2
<1>6. ASSUME IsInjective(queue)
      PROVE  IsInjective(rest) /\ first \notin Range(rest)
  <2>1. ASSUME NEW m \in DOMAIN rest, NEW n \in DOMAIN rest, rest[m] = rest[n]
        PROVE  m = n
    <3>1. m + 1 \in DOMAIN queue /\ n + 1 \in DOMAIN queue /\ queue[m + 1] = queue[n + 1]
      BY <1>1, <1>2, <2>1
    <3>2. m + 1 = n + 1
      BY <1>6, <3>1 DEF IsInjective
    <3> QED  BY <1>1, <1>2, <3>2
  <2>2. ASSUME NEW n \in DOMAIN rest, rest[n] = first
        PROVE  FALSE
    <3>1. n + 1 \in DOMAIN queue /\ 1 \in DOMAIN queue /\ queue[n + 1] = queue[1]
      BY <1>1, <1>2, <2>2
    <3>2. n + 1 = 1
      BY <1>6, <3>1 DEF IsInjective
    <3> QED  BY <1>1, <1>2, <3>2
  <2> QED  BY <2>1, <2>2 DEF IsInjective, Range
<1>7. ASSUME NEW last, TailLinked(queue, last)
      PROVE  TailLinked(rest, last)
  <2> SUFFICES ASSUME rest # <<>>
               PROVE  last = rest[Len(rest)]
    BY DEF TailLinked
  <2>1. rest[Len(rest)] = queue[Len(rest) + 1]
    BY <1>1, <1>4
  <2>2. Len(rest) + 1 = Len(queue) /\ queue # <<>>
    BY <1>1
  <2> QED  BY <1>7, <2>1, <2>2 DEF TailLinked
<1> QED  BY <1>1, <1>5, <1>6, <1>7 DEF rest, first

(* insert appends the PCB when RQ->last is the last of the queue.            *)
LEMMA InsertAppends ==
  ASSUME NEW S, NEW queue \in Seq(S), NEW last, NEW pcb \in S, TailLinked(queue, last)
  PROVE  insert(queue, last, pcb) = Append(queue, pcb)
<1>1. queue = <<>> => Len(queue) <= 1
  BY EmptySeq
<1> QED  BY <1>1 DEF insert, TailLinked

(* delete takes the head and keeps RQ->last right.                           *)
LEMMA UnlinkHead ==
  ASSUME NEW S, NEW queue \in Seq(S), NEW last, queue # <<>>,
         IsInjective(queue), TailLinked(queue, last)
  PROVE  /\ unlink(queue, Head(queue)) = Tail(queue)
         /\ TailLinked(Tail(queue), unlinkedLast(queue, last, Head(queue)))
<1>1. unlink(queue, Head(queue)) = Tail(queue)
  BY DEF unlink
<1>2. CASE Tail(queue) = <<>>
  BY <1>1, <1>2 DEF TailLinked
<1>3. CASE Tail(queue) # <<>>
  <2> DEFINE rest == Tail(queue)
  <2>1. rest \in Seq(S) /\ rest # <<>> /\ TailLinked(rest, last) /\ Head(queue) \notin Range(rest)
    BY <1>3, TailFacts
  <2>2. Len(rest) \in DOMAIN rest
    <3> HIDE DEF rest
    <3> QED  BY <2>1, EmptySeq, LenProperties
  <2>3. last \in Range(rest)
    <3> HIDE DEF rest
    <3> QED  BY <2>1, <2>2 DEF TailLinked, Range
  <2>4. unlinkedLast(queue, last, Head(queue)) = last
    BY <2>1, <2>3 DEF unlinkedLast
  <2> QED  BY <1>1, <2>1, <2>4
<1> QED  BY <1>2, <1>3

(* moveFirstToLast rotates the queue.                                        *)
LEMMA MoveRotates ==
  ASSUME NEW S, NEW queue \in Seq(S), queue # <<>>, IsInjective(queue)
  PROVE  /\ Range(moveFirstToLast(queue)) = Range(queue)
         /\ IsInjective(moveFirstToLast(queue))
         /\ TailLinked(moveFirstToLast(queue), Head(queue))
<1>1. /\ Tail(queue) \in Seq(S) /\ Head(queue) \in S
      /\ Range(queue) = {Head(queue)} \cup Range(Tail(queue))
      /\ IsInjective(Tail(queue)) /\ Head(queue) \notin Range(Tail(queue))
  BY TailFacts
<1> DEFINE rest == Tail(queue)
           first == Head(queue)
<1>2. moveFirstToLast(queue) = Append(rest, first)
  BY DEF moveFirstToLast
<1>3. /\ rest \in Seq(S) /\ first \in S /\ Range(queue) = {first} \cup Range(rest)
      /\ IsInjective(rest) /\ first \notin Range(rest)
  BY <1>1
<1> HIDE DEF rest, first
<1>4. /\ Range(Append(rest, first)) = Range(rest) \cup {first}
      /\ IsInjective(Append(rest, first))
      /\ TailLinked(Append(rest, first), first)
  BY <1>3, AppendFacts
<1> QED  BY <1>2, <1>3, <1>4 DEF first

-----------------------------------------------------------------------------
(* What holds of the queue under every algorithm, with a stale RQ->last too.  *)

(* insert adds nothing but the new PCB and keeps the others.                 *)
LEMMA InsertFacts ==
  ASSUME NEW S, NEW queue \in Seq(S), NEW last, NEW pcb \in S
  PROVE  /\ Range(queue) \subseteq Range(insert(queue, last, pcb))
         /\ Range(insert(queue, last, pcb)) \subseteq Range(queue) \cup {pcb}
         /\ IsInjective(queue) /\ pcb \notin Range(queue) => IsInjective(insert(queue, last, pcb))
BY AppendFacts DEF insert

(* delete's unlinking takes exactly the PCB it is asked for, wherever in the *)
(* queue it is (lines 89-116).                                               *)
LEMMA UnlinkFacts ==
  ASSUME NEW S, NEW queue \in Seq(S), IsInjective(queue), NEW pcb \in Range(queue)
  PROVE  /\ Range(unlink(queue, pcb)) = Range(queue) \ {pcb}
         /\ IsInjective(unlink(queue, pcb))
<1>1. CASE queue # <<>> /\ Head(queue) = pcb
  <2>1. unlink(queue, pcb) = Tail(queue)
    BY <1>1 DEF unlink
  <2> QED  BY <1>1, <2>1, TailFacts
<1>2. CASE ~(queue # <<>> /\ Head(queue) = pcb)
  <2> DEFINE k == Position(queue, pcb)
             less == SubSeq(queue, 1, k - 1)
             more == SubSeq(queue, k + 1, Len(queue))
  <2>1. unlink(queue, pcb) = less \o more
    BY <1>2 DEF unlink, RemoveAt
  <2>2. k \in DOMAIN queue /\ queue[k] = pcb
    <3>1. \E n \in DOMAIN queue : queue[n] = pcb
      BY DEF Range
    <3> QED  BY <3>1 DEF Position
  <2>3. k \in 1 .. Len(queue) /\ Len(queue) \in Nat /\ DOMAIN queue = 1 .. Len(queue)
    BY <2>2, LenProperties
  <2> HIDE DEF k
  <2>4. /\ less \in Seq(S) /\ Len(less) = k - 1
        /\ \A n \in 1 .. k - 1 : less[n] = queue[n]
    <3>1. \A n \in 1 .. k - 1 : queue[n] \in S
      BY <2>3, ElementOfSeq
    <3>2. /\ less \in Seq(S) /\ Len(less) = IF 1 <= k - 1 THEN k - 1 - 1 + 1 ELSE 0
          /\ \A n \in 1 .. k - 1 - 1 + 1 : less[n] = queue[1 + n - 1]
      BY <2>3, <3>1, SubSeqProperties
    <3> HIDE DEF less
    <3> QED  BY <2>3, <3>2
  <2>5. /\ more \in Seq(S) /\ Len(more) = Len(queue) - k
        /\ \A n \in 1 .. Len(queue) - k : more[n] = queue[k + n]
    <3>1. \A n \in k + 1 .. Len(queue) : queue[n] \in S
      BY <2>3, ElementOfSeq
    <3>2. /\ more \in Seq(S)
          /\ Len(more) = IF k + 1 <= Len(queue) THEN Len(queue) - (k + 1) + 1 ELSE 0
          /\ \A n \in 1 .. Len(queue) - (k + 1) + 1 : more[n] = queue[k + 1 + n - 1]
      BY <2>3, <3>1, SubSeqProperties
    <3> HIDE DEF more
    <3>3. Len(more) = Len(queue) - k
      <4>1. Len(more) = IF k + 1 <= Len(queue) THEN Len(queue) - (k + 1) + 1 ELSE 0
        BY <3>2
      <4>2. k \in Nat /\ Len(queue) \in Nat /\ k <= Len(queue)
        BY <2>3
      <4> QED  BY <4>1, <4>2
    <3>4. ASSUME NEW n \in 1 .. Len(queue) - k
          PROVE  more[n] = queue[k + n]
      <4>1. n \in 1 .. Len(queue) - (k + 1) + 1 /\ k + 1 + n - 1 = k + n
        BY <2>3
      <4>2. more[n] = queue[k + 1 + n - 1]
        BY <3>2, <4>1
      <4> QED  BY <4>1, <4>2
    <3> QED  BY <3>2, <3>3, <3>4
  <2> HIDE DEF less, more
  <2> DEFINE rest == less \o more
  <2>6. /\ rest \in Seq(S) /\ Len(rest) = Len(queue) - 1
        /\ \A n \in 1 .. Len(queue) - 1 : rest[n] = IF n < k THEN queue[n] ELSE queue[n + 1]
    <3>1. /\ rest \in Seq(S) /\ Len(rest) = Len(less) + Len(more)
          /\ \A n \in 1 .. Len(less) + Len(more) :
               rest[n] = IF n <= Len(less) THEN less[n] ELSE more[n - Len(less)]
      BY <2>4, <2>5, ConcatProperties
    <3> HIDE DEF rest
    <3>2. ASSUME NEW n \in 1 .. Len(queue) - 1
          PROVE  rest[n] = IF n < k THEN queue[n] ELSE queue[n + 1]
      <4>0. n \in 1 .. Len(less) + Len(more) /\ n \in Int /\ k \in Int
        BY <2>3, <2>4, <2>5
      <4>1. CASE n < k
        <5>1. n <= Len(less) /\ n \in 1 .. k - 1
          BY <2>3, <2>4, <4>0, <4>1
        <5>2. rest[n] = less[n]
          BY <3>1, <4>0, <5>1
        <5> QED  BY <2>4, <4>1, <5>1, <5>2
      <4>2. CASE ~(n < k)
        <5>1. ~(n <= Len(less)) /\ n - Len(less) = n - (k - 1) /\ n - (k - 1) \in 1 .. Len(queue) - k
          BY <2>3, <2>4, <4>0, <4>2
        <5>2. rest[n] = more[n - (k - 1)]
          BY <3>1, <4>0, <5>1
        <5>3. more[n - (k - 1)] = queue[k + (n - (k - 1))]
          BY <2>5, <5>1
        <5>4. k + (n - (k - 1)) = n + 1
          BY <4>0
        <5> QED  BY <4>2, <5>2, <5>3, <5>4
      <4> QED  BY <4>1, <4>2
    <3> QED  BY <2>3, <2>4, <2>5, <3>1, <3>2
  <2> HIDE DEF rest
  <2>7. DOMAIN rest = 1 .. Len(queue) - 1
    BY <2>6, LenProperties
  <2>8. IsInjective(rest)
    <3>1. ASSUME NEW m \in DOMAIN rest, NEW n \in DOMAIN rest, rest[m] = rest[n]
          PROVE  m = n
      <4> DEFINE here(x) == IF x < k THEN x ELSE x + 1
      <4>1. here(m) \in DOMAIN queue /\ here(n) \in DOMAIN queue /\ queue[here(m)] = queue[here(n)]
        BY <2>3, <2>6, <2>7, <3>1
      <4>2. here(m) = here(n)
        BY <4>1 DEF IsInjective
      <4> QED  BY <2>3, <2>7, <4>2
    <3> QED  BY <3>1 DEF IsInjective
  <2>9. Range(rest) = Range(queue) \ {pcb}
    <3>1. ASSUME NEW n \in DOMAIN rest
          PROVE  rest[n] \in Range(queue) \ {pcb}
      <4> DEFINE here == IF n < k THEN n ELSE n + 1
      <4>1. here \in DOMAIN queue /\ here # k /\ rest[n] = queue[here]
        BY <2>3, <2>6, <2>7
      <4>2. queue[here] # queue[k]
        BY <2>2, <4>1 DEF IsInjective
      <4> QED  BY <2>2, <4>1, <4>2 DEF Range
    <3>2. ASSUME NEW m \in DOMAIN queue, queue[m] # pcb
          PROVE  queue[m] \in Range(rest)
      <4> DEFINE there == IF m < k THEN m ELSE m - 1
      <4>1. m # k
        BY <2>2, <3>2
      <4>2. there \in DOMAIN rest /\ rest[there] = queue[m]
        BY <2>3, <2>6, <2>7, <4>1
      <4> QED  BY <4>2 DEF Range
    <3> QED  BY <3>1, <3>2 DEF Range
  <2> QED  BY <2>1, <2>8, <2>9 DEF rest
<1> QED  BY <1>1, <1>2

-----------------------------------------------------------------------------
(* The scans of getSJF and getHPF: a loop invariant, kept by the least pass  *)
(* after which it would fail.                                                *)

LEMMA LeastNumber ==
  ASSUME NEW T, T \subseteq Nat, T # {}
  PROVE  \E x \in T : \A y \in T : x <= y
<1> DEFINE R == OpToRel(<, Nat)
<1>1. IsWellFoundedOn(R, Nat)
  BY NatLessThanWellFounded
<1>2. \A x, y \in Nat : x < y => <<x, y>> \in R
  BY DEF OpToRel
<1> HIDE DEF R
<1>3. PICK x \in T : \A y \in T : ~(<<y, x>> \in R)
  BY <1>1, WFMin
<1>4. ASSUME NEW y \in T
      PROVE  x <= y
  <2>1. y \in Nat /\ x \in Nat
    OBVIOUS
  <2>2. ~(y < x)
    BY <1>2, <1>3, <2>1, Zenon
  <2> QED  BY <2>1, <2>2
<1> QED  BY <1>4

\* After k passes the PCB n is the one kept: none of the first k has a smaller key
\* than it has, none before it the same.
IsKept(queue, key, n, k) ==
  /\ n \in 1..k
  /\ \A m \in 1..k : /\ key[queue[n]] <= key[queue[m]]
                     /\ m < n => key[queue[n]] < key[queue[m]]

\* A pass of the loop (lines 135-140, 151-156).
Pass(queue, key, n, k) == IF key[queue[k]] < key[queue[n]] THEN k ELSE n

LEMMA PassKeeps ==
  ASSUME NEW S, NEW queue \in Seq(S), NEW key \in [S -> Int],
         NEW k \in 1..Len(queue), k + 1 <= Len(queue), NEW n, IsKept(queue, key, n, k)
  PROVE  IsKept(queue, key, Pass(queue, key, n, k + 1), k + 1)
<1> DEFINE val(m) == key[queue[m]]
<1>1. Len(queue) \in Nat /\ \A m \in 1..Len(queue) : val(m) \in Int
  BY ElementOfSeq, LenProperties
<1>2. /\ n \in 1..k
      /\ \A m \in 1..k : val(n) <= val(m) /\ (m < n => val(n) < val(m))
  BY DEF IsKept
<1>3. \A m \in 1..(k + 1) : m \in 1..k \/ m = k + 1
  BY <1>1
<1> DEFINE p == IF val(k + 1) < val(n) THEN k + 1 ELSE n
<1>4. \A m \in 1..k : val(m) \in Int /\ val(k + 1) \in Int /\ val(n) \in Int
  BY <1>1, <1>2
<1> HIDE DEF val
<1>5. p \in 1..(k + 1) /\ \A m \in 1..(k + 1) : val(p) <= val(m) /\ (m < p => val(p) < val(m))
  <2>1. CASE val(k + 1) < val(n)
    BY <1>1, <1>2, <1>3, <1>4, <2>1
  <2>2. CASE ~(val(k + 1) < val(n))
    BY <1>1, <1>2, <1>3, <1>4, <2>2
  <2> QED  BY <2>1, <2>2
<1> QED  BY <1>5 DEF IsKept, Pass, val

LEMMA KeptIsLeast ==
  ASSUME NEW S, NEW queue \in Seq(S), NEW key \in [S -> Int], NEW n, IsKept(queue, key, n, Len(queue))
  PROVE  n \in DOMAIN queue /\ EarliestLeast(queue, key) = {queue[n]}
<1>1. Len(queue) \in Nat /\ DOMAIN queue = 1..Len(queue)
  BY LenProperties
<1>2. \A m \in 1..Len(queue) : key[queue[m]] \in Int
  BY <1>1, ElementOfSeq
<1>3. n \in 1..Len(queue)
  BY DEF IsKept
<1>4. {m \in DOMAIN queue :
         \A l \in DOMAIN queue : /\ key[queue[m]] <= key[queue[l]]
                                 /\ l < m => key[queue[m]] < key[queue[l]]} = {n}
  <2>1. ASSUME NEW m \in 1..Len(queue), IsKept(queue, key, m, Len(queue))
        PROVE  m = n
    <3>1. key[queue[m]] <= key[queue[n]] /\ key[queue[n]] <= key[queue[m]]
      BY <1>3, <2>1 DEF IsKept
    <3>2. ~(key[queue[m]] < key[queue[n]]) /\ ~(key[queue[n]] < key[queue[m]])
      BY <1>2, <1>3, <3>1
    <3>3. ~(n < m) /\ ~(m < n)
      BY <1>3, <2>1, <3>2 DEF IsKept
    <3> QED  BY <1>1, <1>3, <3>3
  <2> QED  BY <1>1, <1>3, <2>1 DEF IsKept
<1> QED  BY <1>1, <1>3, <1>4 DEF EarliestLeast

\* What getSJF and getHPF return (lines 129-159): let n[k] be the PCB kept after the
\* loop has looked at k of them.  Then the one kept at the end is the first of those
\* with the least burst, or priority number; EarliestLeast is what the loop computes.
THEOREM ScanFindsEarliestLeast ==
  ASSUME NEW S, NEW queue \in Seq(S), queue # <<>>, NEW key \in [S -> Int],
         NEW n \in [1..Len(queue) -> Int], n[1] = 1,
         \A k \in 1..Len(queue) : k > 1 => n[k] = Pass(queue, key, n[k - 1], k)
  PROVE  EarliestLeast(queue, key) = {queue[n[Len(queue)]]}
<1>1. Len(queue) \in Nat /\ Len(queue) # 0
  BY LenProperties, EmptySeq
<1>2. \A m \in 1..Len(queue) : key[queue[m]] \in Int
  BY <1>1, ElementOfSeq
<1> DEFINE T == {k \in 1..Len(queue) : ~IsKept(queue, key, n[k], k)}
<1>3. T = {}
  <2> SUFFICES ASSUME T # {} PROVE FALSE
    OBVIOUS
  <2>1. T \subseteq Nat
    OBVIOUS
  <2>2. PICK k \in T : \A l \in T : k <= l
    BY <2>1, LeastNumber
  <2>3. k \in 1..Len(queue) /\ ~IsKept(queue, key, n[k], k)
    BY <2>2
  <2>4. k # 1
    <3> SUFFICES ASSUME k = 1 PROVE FALSE
      OBVIOUS
    <3>1. 1 \in 1..Len(queue)
      BY <1>1
    <3>2. IsKept(queue, key, 1, 1)
      BY <1>2, <3>1 DEF IsKept
    <3> QED  BY <2>3, <3>2
  <2>5. k - 1 \in 1..Len(queue) /\ ~(k <= k - 1) /\ (k - 1) + 1 = k
    BY <1>1, <2>3, <2>4
  <2>6. IsKept(queue, key, n[k - 1], k - 1)
    BY <2>2, <2>5
  <2>7. n[k] = Pass(queue, key, n[k - 1], k)
    BY <2>3, <2>5
  <2>8. IsKept(queue, key, Pass(queue, key, n[k - 1], (k - 1) + 1), (k - 1) + 1)
    <3>1. (k - 1) + 1 <= Len(queue)
      BY <1>1, <2>3, <2>5
    <3> QED  BY <2>5, <2>6, <3>1, PassKeeps
  <2> QED  BY <2>3, <2>5, <2>7, <2>8
<1>4. IsKept(queue, key, n[Len(queue)], Len(queue))
  <2>1. Len(queue) \in 1..Len(queue)
    BY <1>1
  <2> QED  BY <1>3, <2>1
<1> QED  BY <1>4, KeptIsLeast

\* There is exactly one such PCB in a queue that is not empty: the scans never
\* return NULL, and the CPU thread has one choice.
LEMMA OneEarliestLeast ==
  ASSUME NEW S, NEW queue \in Seq(S), queue # <<>>, NEW key \in [S -> Int]
  PROVE  \E m \in DOMAIN queue :
           /\ EarliestLeast(queue, key) = {queue[m]}
           /\ \A l \in DOMAIN queue : key[queue[m]] <= key[queue[l]]
<1>1. Len(queue) \in Nat /\ Len(queue) # 0 /\ DOMAIN queue = 1..Len(queue)
  BY LenProperties, EmptySeq
<1>2. \A m \in 1..Len(queue) : key[queue[m]] \in Int
  BY <1>1, ElementOfSeq
<1> DEFINE T == {k \in 1..Len(queue) : ~\E m : IsKept(queue, key, m, k)}
<1>3. T = {}
  <2> SUFFICES ASSUME T # {} PROVE FALSE
    OBVIOUS
  <2>1. T \subseteq Nat
    OBVIOUS
  <2>2. PICK k \in T : \A l \in T : k <= l
    BY <2>1, LeastNumber
  <2>3. k \in 1..Len(queue) /\ ~\E m : IsKept(queue, key, m, k)
    BY <2>2
  <2>4. k # 1
    <3> SUFFICES ASSUME k = 1 PROVE FALSE
      OBVIOUS
    <3>1. 1 \in 1..Len(queue)
      BY <1>1
    <3>2. IsKept(queue, key, 1, 1)
      BY <1>2, <3>1 DEF IsKept
    <3> QED  BY <2>3, <3>2
  <2>5. k - 1 \in 1..Len(queue) /\ ~(k <= k - 1) /\ (k - 1) + 1 = k /\ k <= Len(queue)
    BY <1>1, <2>3, <2>4
  <2>6. PICK m : IsKept(queue, key, m, k - 1)
    BY <2>2, <2>5
  <2>7. IsKept(queue, key, Pass(queue, key, m, (k - 1) + 1), (k - 1) + 1)
    BY <2>5, <2>6, PassKeeps
  <2> QED  BY <2>3, <2>5, <2>7
<1>4. Len(queue) \in 1..Len(queue)
  BY <1>1
<1>5. PICK m : IsKept(queue, key, m, Len(queue))
  BY <1>3, <1>4
<1>6. m \in DOMAIN queue /\ EarliestLeast(queue, key) = {queue[m]}
  BY <1>5, KeptIsLeast
<1> QED  BY <1>1, <1>5, <1>6 DEF IsKept
=============================================================================
