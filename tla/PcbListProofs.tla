---------------------------- MODULE PcbListProofs ----------------------------
(***************************************************************************)
(* The links of the PCBs in memory, under fifo and roundRobin: the two     *)
(* lists are two chains of distinct cells, and what malloc has handed out  *)
(* is in one of them or in the hands of the thread that fills it.          *)
(***************************************************************************)
EXTENDS PcbList, FiniteSetTheorems, SequenceTheorems, WellFoundedInduction, TLAPS

-----------------------------------------------------------------------------
(* Following a pointer.  A walk is a recursive function: that it exists, and *)
(* what it meets, is proved by the least number for which it would fail.     *)

LEMMA NatMin ==
  ASSUME NEW T, T \subseteq Nat, T # {}
  PROVE  \E x \in T : \A y \in T : x <= y
<1> DEFINE R == OpToRel(<, Nat)
<1>1. IsWellFoundedOn(R, Nat)
  BY NatLessThanWellFounded
<1>2. \A x, y \in Nat : x < y => <<x, y>> \in R
  BY DEF OpToRel
<1> HIDE DEF R
<1>3. PICK x \in T : \A y \in T : ~(<<y, x>> \in R)
  BY <1>1, WFMin
<1>4. ASSUME NEW y \in T
      PROVE  x <= y
  <2>1. y \in Nat /\ x \in Nat
    OBVIOUS
  <2>2. ~(y < x)
    BY <1>2, <1>3, <2>1, Zenon
  <2> QED  BY <2>1, <2>2
<1> QED  BY <1>4

(* Steps for any link function and bound.                                    *)
Follow(link, cell) == IF cell = NULL THEN NULL ELSE link[cell]

Walked(step, link, from, bound) ==
  step = [n \in 0..bound |-> IF n = 0 THEN from ELSE Follow(link, step[n - 1])]

LEMMA WalkExists ==
  ASSUME NEW link, NEW from, NEW bound \in Nat
  PROVE  \E step : Walked(step, link, from, bound)
<1> DEFINE T == {m \in Nat : ~\E step : Walked(step, link, from, m)}
<1>1. SUFFICES ASSUME T # {}
               PROVE  FALSE
  OBVIOUS
<1>2. PICK x \in T : \A y \in T : x <= y
  BY <1>1, NatMin
<1>3. CASE x = 0
  <2>1. Walked([n \in 0..0 |-> from], link, from, 0)
    BY DEF Walked
  <2> QED  BY <1>3, <2>1
<1>4. CASE x # 0
  <2>1. x \in Nat /\ x - 1 \in Nat /\ ~(x <= x - 1)
    BY <1>4
  <2>2. PICK step : Walked(step, link, from, x - 1)
    BY <1>2, <2>1
  <2> DEFINE longer == [n \in 0..x |-> IF n <= x - 1 THEN step[n] ELSE Follow(link, step[x - 1])]
  <2>3. ASSUME NEW n \in 0..x
        PROVE  longer[n] = IF n = 0 THEN from ELSE Follow(link, longer[n - 1])
    <3>1. CASE n = 0
      BY <2>1, <2>2, <3>1 DEF Walked
    <3>2. CASE n # 0 /\ n <= x - 1
      <4>1. n \in 0..(x - 1) /\ n - 1 \in 0..(x - 1) /\ n - 1 \in 0..x
        BY <2>1, <3>2
      <4>2. longer[n] = step[n] /\ longer[n - 1] = step[n - 1]
        BY <4>1
      <4>3. step[n] = Follow(link, step[n - 1])
        BY <2>2, <3>2, <4>1 DEF Walked
      <4> QED  BY <3>2, <4>2, <4>3
    <3>3. CASE n = x
      <4>1. longer[x] = Follow(link, step[x - 1]) /\ longer[x - 1] = step[x - 1]
        BY <2>1
      <4> QED  BY <1>4, <3>3, <4>1
    <3> QED  BY <2>1, <3>1, <3>2, <3>3
  <2>4. Walked(longer, link, from, x)
    BY <2>3 DEF Walked
  <2> QED  BY <2>4
<1> QED  BY <1>3, <1>4

Path(link, from) == CHOOSE step : Walked(step, link, from, Cardinality(Addr))

LEMMA StepsIsPath == \A from : Steps(from) = Path(next, from)
BY DEF Steps, Path, Walked, Follow

LEMMA StepsIsPathNext == \A from : Steps(from)' = Path(next', from')
BY DEF Steps, Path, Walked, Follow

LEMMA PathEquations ==
  ASSUME NEW link, NEW from
  PROVE  /\ Cardinality(Addr) \in Nat
         /\ DOMAIN Path(link, from) = 0..Cardinality(Addr)
         /\ Path(link, from)[0] = from
         /\ \A n \in 0..Cardinality(Addr) :
              n # 0 => Path(link, from)[n] = Follow(link, Path(link, from)[n - 1])
<1>1. Cardinality(Addr) \in Nat
  BY HeapAssumption, FS_CardinalityType
<1>2. Walked(Path(link, from), link, from, Cardinality(Addr))
  BY <1>1, WalkExists DEF Path
<1> DEFINE path == Path(link, from)
<1> HIDE DEF path
<1>3. path = [n \in 0..Cardinality(Addr) |-> IF n = 0 THEN from ELSE Follow(link, path[n - 1])]
  BY <1>2 DEF Walked, path
<1>4. /\ DOMAIN path = 0..Cardinality(Addr)
      /\ \A n \in 0..Cardinality(Addr) : path[n] = IF n = 0 THEN from ELSE Follow(link, path[n - 1])
  BY <1>3
<1> QED  BY <1>1, <1>4 DEF path

(* A walk stays in a set of cells that no link leaves.                       *)
LEMMA PathStays ==
  ASSUME NEW link, NEW from, NEW R, from \in R \cup {NULL},
         \A a \in R : link[a] \in R \cup {NULL}
  PROVE  Range(Path(link, from)) \subseteq R \cup {NULL}
<1> DEFINE path == Path(link, from)
           T == {n \in 0..Cardinality(Addr) : path[n] \notin R \cup {NULL}}
<1>1. /\ Cardinality(Addr) \in Nat /\ DOMAIN path = 0..Cardinality(Addr)
      /\ path[0] = from
      /\ \A n \in 0..Cardinality(Addr) : n # 0 => path[n] = Follow(link, path[n - 1])
  BY PathEquations
<1> HIDE DEF path
<1>2. T = {}
  <2> SUFFICES ASSUME T # {}
               PROVE  FALSE
    OBVIOUS
  <2>1. T \subseteq Nat
    BY <1>1
  <2>2. PICK x \in T : \A y \in T : x <= y
    BY <2>1, NatMin
  <2>3. x # 0 /\ x \in 0..Cardinality(Addr)
    BY <1>1
  <2>4. x - 1 \in 0..Cardinality(Addr) /\ ~(x <= x - 1)
    BY <1>1, <2>3
  <2>5. path[x - 1] \in R \cup {NULL}
    BY <2>2, <2>4
  <2>6. path[x] = Follow(link, path[x - 1])
    BY <1>1, <2>3
  <2> QED  BY <2>5, <2>6 DEF Follow
<1> QED  BY <1>1, <1>2 DEF Range, path

-----------------------------------------------------------------------------
(* A chain: distinct cells, each linked to the next one.                     *)

Chain(link, cells) ==
  /\ cells \in Seq(Addr)
  /\ IsInjective(cells)
  /\ \A k \in 1..(Len(cells) - 1) : link[cells[k]] = cells[k + 1]

LEMMA ChainFits ==
  ASSUME NEW cells \in Seq(Addr), IsInjective(cells)
  PROVE  /\ Len(cells) \in Nat /\ DOMAIN cells = 1..Len(cells)
         /\ Range(cells) \subseteq Addr
         /\ \A k \in 1..Len(cells) : cells[k] \in Range(cells)
         /\ IsFiniteSet(Range(cells)) /\ Cardinality(Range(cells)) = Len(cells)
         /\ Len(cells) <= Cardinality(Addr)
<1>1. /\ Len(cells) \in Nat /\ DOMAIN cells = 1..Len(cells)
      /\ \A k \in 1..Len(cells) : cells[k] \in Addr
  BY LenProperties, ElementOfSeq
<1>2. Range(cells) \subseteq Addr /\ \A k \in 1..Len(cells) : cells[k] \in Range(cells)
  BY <1>1 DEF Range
<1>3. cells \in [1..Len(cells) -> Range(cells)]
  BY <1>1, <1>2, LenProperties
<1>4. cells \in Bijection(1..Len(cells), Range(cells))
  BY <1>1, <1>3 DEF Bijection, Injection, Surjection, IsInjective, Range
<1>5. ExistsBijection(1..Len(cells), Range(cells))
  BY <1>4 DEF ExistsBijection
<1>6. Cardinality(Range(cells)) = Len(cells)
  BY <1>1, <1>5, FS_CountingElements
<1>7. IsFiniteSet(Range(cells)) /\ Cardinality(Range(cells)) <= Cardinality(Addr)
  BY <1>2, HeapAssumption, FS_Subset
<1> QED  BY <1>1, <1>2, <1>6, <1>7

(* A walk from the first cell of a chain meets its cells in their order.     *)
LEMMA PathFollowsChain ==
  ASSUME NEW link, NEW cells, Chain(link, cells), cells # <<>>
  PROVE  \A k \in 1..Len(cells) : Path(link, cells[1])[k - 1] = cells[k]
<1> DEFINE path == Path(link, cells[1])
           T == {k \in 1..Len(cells) : path[k - 1] # cells[k]}
<1>1. /\ Cardinality(Addr) \in Nat
      /\ path[0] = cells[1]
      /\ \A n \in 0..Cardinality(Addr) : n # 0 => path[n] = Follow(link, path[n - 1])
  BY PathEquations
<1> HIDE DEF path
<1>2. /\ Len(cells) \in Nat /\ Len(cells) <= Cardinality(Addr)
      /\ \A k \in 1..Len(cells) : cells[k] \in Addr
      /\ \A k \in 1..(Len(cells) - 1) : link[cells[k]] = cells[k + 1]
  BY ChainFits DEF Chain
<1>3. T = {}
  <2> SUFFICES ASSUME T # {}
               PROVE  FALSE
    OBVIOUS
  <2>1. T \subseteq Nat
    OBVIOUS
  <2>2. PICK x \in T : \A y \in T : x <= y
    BY <2>1, NatMin
  <2>3. x \in 1..Len(cells) /\ path[x - 1] # cells[x]
    OBVIOUS
  <2>4. x # 1
    BY <1>1, <2>3
  <2>5. x - 1 \in 1..(Len(cells) - 1) /\ x - 1 \in 1..Len(cells) /\ ~(x <= x - 1)
        /\ x - 1 \in 0..Cardinality(Addr) /\ x - 1 # 0 /\ (x - 1) - 1 = x - 2 /\ (x - 1) + 1 = x
    BY <1>1, <1>2, <2>3, <2>4
  <2>6. path[(x - 1) - 1] = cells[x - 1]
    BY <2>2, <2>5
  <2>7. path[x - 1] = Follow(link, path[(x - 1) - 1])
    BY <1>1, <2>5
  <2>8. cells[x - 1] # NULL
    BY <1>2, <2>5, HeapAssumption
  <2>9. path[x - 1] = cells[x]
    BY <1>2, <2>5, <2>6, <2>7, <2>8 DEF Follow
  <2> QED  BY <2>3, <2>9
<1> QED  BY <1>3 DEF path

Met(link, from) == Range(Path(link, from)) \ {NULL}

LEMMA NothingMet == ASSUME NEW link PROVE Met(link, NULL) = {}
<1>1. NULL \in {} \cup {NULL} /\ \A a \in {} : link[a] \in {} \cup {NULL}
  OBVIOUS
<1>2. Range(Path(link, NULL)) \subseteq {} \cup {NULL}
  BY <1>1, PathStays
<1> QED  BY <1>2 DEF Met

(* A list that ends, or a ring: exactly its cells are met.                   *)
LEMMA ChainMet ==
  ASSUME NEW link, NEW cells, Chain(link, cells), cells # <<>>,
         link[cells[Len(cells)]] \in {NULL, cells[1]}
  PROVE  Met(link, cells[1]) = Range(cells)
<1>1. /\ Len(cells) \in Nat \ {0} /\ DOMAIN cells = 1..Len(cells) /\ cells \in Seq(Addr)
      /\ \A k \in 1..Len(cells) : cells[k] \in Range(cells)
      /\ Range(cells) \subseteq Addr /\ Len(cells) <= Cardinality(Addr)
      /\ \A k \in 1..(Len(cells) - 1) : link[cells[k]] = cells[k + 1]
  BY ChainFits, EmptySeq DEF Chain
<1>2. ASSUME NEW k \in 1..Len(cells)
      PROVE  link[cells[k]] \in Range(cells) \cup {NULL}
  <2>1. CASE k = Len(cells)
    BY <1>1, <2>1
  <2>2. CASE k # Len(cells)
    <3>1. Len(cells) \in Nat
      BY <1>1
    <3>2. k \in 1..(Len(cells) - 1) /\ k + 1 \in 1..Len(cells)
      BY <2>2, <3>1
    <3> QED  BY <1>1, <3>2
  <2> QED  BY <2>1, <2>2
<1>3. \A a \in Range(cells) : link[a] \in Range(cells) \cup {NULL}
  BY <1>1, <1>2 DEF Range
<1>4. cells[1] \in Range(cells)
  BY <1>1
<1>5. Range(Path(link, cells[1])) \subseteq Range(cells) \cup {NULL}
  BY <1>3, <1>4, PathStays
<1>6. Range(cells) \subseteq Range(Path(link, cells[1]))
  <2>1. DOMAIN Path(link, cells[1]) = 0..Cardinality(Addr) /\ Cardinality(Addr) \in Nat
    BY PathEquations
  <2>2. \A k \in 1..Len(cells) : k - 1 \in 0..Cardinality(Addr)
    BY <1>1, <2>1
  <2>3. \A k \in 1..Len(cells) : Path(link, cells[1])[k - 1] = cells[k]
    BY PathFollowsChain
  <2>4. \A k \in 1..Len(cells) : cells[k] \in Range(Path(link, cells[1]))
    BY <2>1, <2>2, <2>3 DEF Range
  <2> QED  BY <1>1, <2>4 DEF Range
<1>7. NULL \notin Range(cells)
  BY <1>1, HeapAssumption
<1> QED  BY <1>5, <1>6, <1>7 DEF Met

(* A chain that runs on into something else is the start of what is met.     *)
LEMMA ChainMetFirst ==
  ASSUME NEW link \in [Addr -> Addr \cup {NULL}], NEW cells, Chain(link, cells), cells # <<>>
  PROVE  /\ Range(cells) \subseteq Met(link, cells[1])
         /\ Cardinality(Met(link, cells[1])) \in Nat
         /\ Len(cells) <= Cardinality(Met(link, cells[1]))
         /\ Met(link, cells[1]) \subseteq Addr
<1>1. /\ Len(cells) \in Nat \ {0} /\ DOMAIN cells = 1..Len(cells) /\ cells \in Seq(Addr)
      /\ \A k \in 1..Len(cells) : cells[k] \in Range(cells)
      /\ Range(cells) \subseteq Addr /\ Len(cells) <= Cardinality(Addr)
      /\ Cardinality(Range(cells)) = Len(cells)
  BY ChainFits, EmptySeq DEF Chain
<1>2. Met(link, cells[1]) \subseteq Addr
  <2>1. cells[1] \in Addr
    BY <1>1
  <2>2. Range(Path(link, cells[1])) \subseteq Addr \cup {NULL}
    BY <2>1, PathStays
  <2> QED  BY <2>2 DEF Met
<1>3. Range(cells) \subseteq Range(Path(link, cells[1]))
  <2>1. DOMAIN Path(link, cells[1]) = 0..Cardinality(Addr) /\ Cardinality(Addr) \in Nat
    BY PathEquations
  <2>2. \A k \in 1..Len(cells) : k - 1 \in 0..Cardinality(Addr)
    BY <1>1, <2>1
  <2>3. \A k \in 1..Len(cells) : Path(link, cells[1])[k - 1] = cells[k]
    BY PathFollowsChain
  <2>4. \A k \in 1..Len(cells) : cells[k] \in Range(Path(link, cells[1]))
    BY <2>1, <2>2, <2>3 DEF Range
  <2> QED  BY <1>1, <2>4 DEF Range
<1>4. Range(cells) \subseteq Met(link, cells[1])
  BY <1>1, <1>3, HeapAssumption DEF Met
<1>5. IsFiniteSet(Met(link, cells[1]))
  BY <1>2, HeapAssumption, FS_Subset
<1> QED  BY <1>1, <1>2, <1>4, <1>5, FS_Subset, FS_CardinalityType

-----------------------------------------------------------------------------
(* What the operations do to a chain.                                        *)

LastOf(cells) == cells[Len(cells)]

LEMMA ChainKept ==
  ASSUME NEW link, NEW cells, Chain(link, cells), NEW other,
         \A a \in Range(cells) : a # LastOf(cells) => other[a] = link[a]
  PROVE  Chain(other, cells)
<1>1. /\ Len(cells) \in Nat /\ DOMAIN cells = 1..Len(cells)
      /\ \A k \in 1..Len(cells) : cells[k] \in Range(cells)
  BY ChainFits DEF Chain
<1>2. ASSUME NEW k \in 1..(Len(cells) - 1)
      PROVE  other[cells[k]] = cells[k + 1]
  <2>1. k \in DOMAIN cells /\ Len(cells) \in DOMAIN cells /\ k # Len(cells)
    BY <1>1
  <2>2. cells[k] # LastOf(cells)
    BY <2>1 DEF Chain, IsInjective, LastOf
  <2>3. cells[k] \in Range(cells)
    BY <1>1, <2>1
  <2> QED  BY <2>2, <2>3 DEF Chain
<1> QED  BY <1>2 DEF Chain

LEMMA ChainAppend ==
  ASSUME NEW link, NEW cells, Chain(link, cells), NEW a \in Addr, a \notin Range(cells),
         cells # <<>> => link[LastOf(cells)] = a
  PROVE  /\ Chain(link, Append(cells, a))
         /\ Range(Append(cells, a)) = Range(cells) \cup {a}
         /\ Append(cells, a) # <<>> /\ LastOf(Append(cells, a)) = a
         /\ Len(Append(cells, a)) = Len(cells) + 1
         /\ Append(cells, a)[1] = IF cells = <<>> THEN a ELSE cells[1]
<1> DEFINE longer == Append(cells, a)
           len == Len(cells)
<1>1. /\ len \in Nat /\ DOMAIN cells = 1..len /\ cells \in Seq(Addr)
      /\ \A k \in 1..len : cells[k] \in Range(cells)
      /\ cells = <<>> <=> len = 0
  BY ChainFits, EmptySeq DEF Chain
<1>2. /\ longer \in Seq(Addr) /\ Len(longer) = len + 1 /\ DOMAIN longer = 1..(len + 1)
      /\ \A k \in 1..len : longer[k] = cells[k]
      /\ longer[len + 1] = a /\ longer # <<>>
  BY <1>1, AppendProperties, LenProperties
<1> HIDE DEF longer
<1>3. Range(longer) = Range(cells) \cup {a}
  <2>1. \A k \in 1..(len + 1) : longer[k] \in Range(cells) \cup {a}
    BY <1>1, <1>2
  <2>2. \A k \in 1..len : cells[k] \in Range(longer)
    BY <1>1, <1>2 DEF Range
  <2>3. a \in Range(longer)
    BY <1>1, <1>2 DEF Range
  <2> QED  BY <1>1, <1>2, <2>1, <2>2, <2>3 DEF Range
<1>4. IsInjective(longer)
  BY <1>1, <1>2 DEF IsInjective, Chain
<1>5. ASSUME NEW k \in 1..((len + 1) - 1)
      PROVE  link[longer[k]] = longer[k + 1]
  <2>1. CASE k = len
    BY <1>1, <1>2, <2>1 DEF LastOf
  <2>2. CASE k # len
    <3>1. len \in Nat
      BY <1>1
    <3> HIDE DEF len
    <3>2. k \in 1..(len - 1) /\ k \in 1..len /\ k + 1 \in 1..len
      BY <2>2, <3>1
    <3>3. link[cells[k]] = cells[k + 1]
      BY <3>2 DEF Chain, len
    <3> QED  BY <1>2, <3>2, <3>3
  <2> QED  BY <2>1, <2>2
<1>6. longer[1] = IF cells = <<>> THEN a ELSE cells[1]
  BY <1>1, <1>2
<1> QED  BY <1>2, <1>3, <1>4, <1>5, <1>6 DEF Chain, LastOf, longer

LEMMA ChainTail ==
  ASSUME NEW link, NEW cells, Chain(link, cells), cells # <<>>
  PROVE  /\ Chain(link, Tail(cells))
         /\ Range(Tail(cells)) = Range(cells) \ {cells[1]}
         /\ cells[1] \in Range(cells) /\ LastOf(cells) \in Range(cells)
         /\ Len(Tail(cells)) = Len(cells) - 1
         /\ IF Tail(cells) = <<>>
            THEN LastOf(cells) = cells[1]
            ELSE /\ Tail(cells)[1] = link[cells[1]] /\ LastOf(Tail(cells)) = LastOf(cells)
                 /\ LastOf(cells) # cells[1]
<1> DEFINE rest == Tail(cells)
           len == Len(cells)
<1>1. /\ len \in Nat \ {0} /\ DOMAIN cells = 1..len /\ cells \in Seq(Addr)
      /\ \A k \in 1..len : cells[k] \in Range(cells)
  BY ChainFits, EmptySeq DEF Chain
<1>2. /\ rest \in Seq(Addr) /\ Len(rest) = len - 1 /\ DOMAIN rest = 1..(len - 1)
      /\ \A k \in 1..(len - 1) : rest[k] = cells[k + 1]
      /\ rest = <<>> <=> len = 1
  <2>1. rest \in Seq(Addr) /\ Len(rest) = len - 1 /\ \A k \in 1..(len - 1) : rest[k] = cells[k + 1]
    BY <1>1, HeadTailProperties
  <2>2. DOMAIN rest = 1..Len(rest) /\ (rest = <<>> <=> Len(rest) = 0)
    BY <2>1, LenProperties, EmptySeq
  <2>3. len - 1 = 0 <=> len = 1
    BY <1>1
  <2> QED  BY <2>1, <2>2, <2>3
<1> HIDE DEF rest
<1>3. \A k \in 1..(len - 1) : k + 1 \in 1..len /\ k + 1 # 1
  BY <1>1
<1>4. Range(rest) = Range(cells) \ {cells[1]}
  <2>1. \A k \in 1..(len - 1) : rest[k] \in Range(cells) \ {cells[1]}
    BY <1>1, <1>2, <1>3 DEF Chain, IsInjective
  <2>2. ASSUME NEW k \in 1..len, cells[k] # cells[1]
        PROVE  cells[k] \in Range(rest)
    <3>1. k - 1 \in 1..(len - 1) /\ (k - 1) + 1 = k
      BY <1>1, <2>2
    <3>2. rest[k - 1] = cells[k]
      BY <1>2, <3>1
    <3> QED  BY <1>2, <3>1, <3>2 DEF Range
  <2>3. Range(rest) \subseteq Range(cells) \ {cells[1]}
    BY <1>2, <2>1 DEF Range
  <2>4. Range(cells) \ {cells[1]} \subseteq Range(rest)
    BY <1>1, <2>2 DEF Range
  <2> QED  BY <2>3, <2>4
<1>5. IsInjective(rest)
  <2> SUFFICES ASSUME NEW m \in 1..(len - 1), NEW n \in 1..(len - 1), rest[m] = rest[n]
               PROVE  m = n
    BY <1>2 DEF IsInjective
  <2>1. m + 1 = n + 1
    BY <1>1, <1>2, <1>3 DEF Chain, IsInjective
  <2> QED  BY <2>1
<1>6. ASSUME NEW k \in 1..((len - 1) - 1)
      PROVE  link[rest[k]] = rest[k + 1]
  <2>1. k \in 1..(len - 1) /\ k + 1 \in 1..(len - 1)
    BY <1>1
  <2> QED  BY <1>2, <2>1 DEF Chain
<1>7. CASE len = 1
  <2>1. rest = <<>> /\ LastOf(cells) = cells[1] /\ cells[1] \in Range(cells)
    BY <1>1, <1>2, <1>7 DEF LastOf
  <2>2. Chain(link, rest)
    BY <1>2, <1>5, <1>6 DEF Chain
  <2> QED  BY <1>2, <1>4, <2>1, <2>2 DEF rest
<1>8. CASE len # 1
  <2>1. 1 \in 1..(len - 1) /\ len - 1 \in 1..(len - 1) /\ (len - 1) + 1 = len /\ 1 \in 1..len
    BY <1>1, <1>8
  <2>2. rest[1] = cells[2] /\ link[cells[1]] = cells[2] /\ rest[len - 1] = cells[len]
    BY <1>2, <2>1 DEF Chain
  <2>3. cells[len] # cells[1]
    BY <1>1, <1>8, <2>1 DEF Chain, IsInjective
  <2> QED  BY <1>1, <1>2, <1>4, <1>5, <1>6, <1>8, <2>2, <2>3 DEF Chain, LastOf, rest
<1> QED  BY <1>7, <1>8

(* The ring that moveFirstToLast makes, seen from its second cell.           *)
LEMMA RingRotates ==
  ASSUME NEW link, NEW cells, Chain(link, cells), cells # <<>>, link[LastOf(cells)] = cells[1]
  PROVE  LET moved == Append(Tail(cells), cells[1])
         IN  /\ Chain(link, moved) /\ moved # <<>>
             /\ Range(moved) = Range(cells) /\ Len(moved) = Len(cells)
             /\ moved[1] = link[cells[1]] /\ LastOf(moved) = cells[1]
<1> DEFINE rest == Tail(cells)
<1>1. /\ Chain(link, rest)
      /\ Range(rest) = Range(cells) \ {cells[1]}
      /\ cells[1] \in Range(cells) /\ Len(rest) = Len(cells) - 1
      /\ IF rest = <<>>
         THEN LastOf(cells) = cells[1]
         ELSE rest[1] = link[cells[1]] /\ LastOf(rest) = LastOf(cells)
  BY ChainTail
<1> HIDE DEF rest
<1>2. cells[1] \in Addr /\ Len(cells) \in Nat
  BY <1>1, ChainFits DEF Chain
<1>3. cells[1] \notin Range(rest) /\ (rest # <<>> => link[LastOf(rest)] = cells[1])
  BY <1>1
<1>4. /\ Chain(link, Append(rest, cells[1]))
      /\ Range(Append(rest, cells[1])) = Range(rest) \cup {cells[1]}
      /\ Append(rest, cells[1]) # <<>> /\ LastOf(Append(rest, cells[1])) = cells[1]
      /\ Len(Append(rest, cells[1])) = Len(rest) + 1
      /\ Append(rest, cells[1])[1] = IF rest = <<>> THEN cells[1] ELSE rest[1]
  BY <1>1, <1>2, <1>3, ChainAppend
<1>5. Range(rest) \cup {cells[1]} = Range(cells) /\ Len(rest) + 1 = Len(cells)
  BY <1>1, <1>2
<1>6. (IF rest = <<>> THEN cells[1] ELSE rest[1]) = link[cells[1]]
  BY <1>1
<1> QED  BY <1>4, <1>5, <1>6 DEF rest

-----------------------------------------------------------------------------
(* Types, under every algorithm.                                             *)

HasJob == {"exec", "verify", "stats", "copy", "append", "unlink", "search", "relink"}

Pointers ==
  /\ cpu \in HasJob \cup {"pick", "rehead"} => rqHead # NULL
  /\ cpu \in HasJob => job # NULL
  /\ \A j \in Job : phase[j] = "link" => held[j] # NULL
  /\ console = "entered" => tmp # NULL
  /\ console = "printed" /\ up => tmp # NULL

TypeInv == TypeOK /\ Pointers

LEMMA TypeInit == Init => TypeInv
<1> SUFFICES ASSUME Init
             PROVE  TypeInv
  OBVIOUS
<1>1. rows \in Seq(Job \cup {NULL})
  BY DEF Init
<1> QED  BY <1>1 DEF Init, TypeInv, TypeOK, Pointers, HasJob

LEMMA TypeConsole == TypeInv /\ up /\ UNCHANGED algorithm /\ window_thread => TypeInv'
<1> SUFFICES ASSUME TypeInv, up, window_thread
             PROVE  TypeInv'
  OBVIOUS
<1> USE DEF TypeInv, ServerOnly, heapVars, readyVars, finishVars, handlerVars, cpuVars
<1>1. ServerOnly
  BY DEF window_thread, SetStop, QueueCommand, QueueBegin, QueueEntry, QueueNext, QueueEnd, StopCommand,
     TableBegin, TableRow, TableNext, TableEnd, Prompt
<1>2. ASSUME stop' \in {0, 1}, before' \in {0, 1}, up' \in BOOLEAN, calm' \in BOOLEAN,
             tmp' \in Addr \cup {NULL}, rows' \in Seq(Job \cup {NULL}),
             console' \in {"prompt", "queue", "entry", "entered", "stop", "row", "printed"},
             console' = "entered" => tmp' # NULL,
             console' = "printed" /\ up' => tmp' # NULL
      PROVE  TypeInv'
  BY <1>1, <1>2 DEF TypeOK, Pointers
<1>3. /\ stop \in {0, 1} /\ before \in {0, 1} /\ up \in BOOLEAN /\ calm \in BOOLEAN
      /\ tmp \in Addr \cup {NULL} /\ rows \in Seq(Job \cup {NULL})
      /\ rqHead \in Addr \cup {NULL} /\ fqHead \in Addr \cup {NULL}
      /\ pid \in [Addr -> Job \cup {NULL}] /\ next \in [Addr -> Addr \cup {NULL}]
      /\ console = "entered" => tmp # NULL
      /\ console = "printed" => tmp # NULL
  BY DEF TypeOK, Pointers
<1>4. CASE Prompt /\ stop' \in {0, 1} /\ up' = up
  <2>1. /\ console' = "prompt" /\ before' = 0 /\ tmp' = NULL /\ rows' = <<>> /\ calm' = FALSE
    BY <1>4 DEF Prompt
  <2>2. <<>> \in Seq(Job \cup {NULL}) /\ FALSE \in BOOLEAN
    OBVIOUS
  <2> QED  BY <1>2, <1>3, <1>4, <2>1, <2>2
<1>5. CASE SetStop \/ QueueCommand \/ StopCommand
  BY <1>2, <1>3, <1>5 DEF SetStop, QueueCommand, StopCommand
<1>6. Calm \in BOOLEAN
  BY DEF Calm
<1>7. CASE QueueBegin
  BY <1>2, <1>3, <1>6, <1>7 DEF QueueBegin
<1>8. CASE QueueEntry
  <2>1. pid[tmp] \in Job \cup {NULL} /\ rows' \in Seq(Job \cup {NULL})
    BY <1>3, <1>8, AppendProperties DEF QueueEntry
  <2> QED  BY <1>2, <1>3, <1>8, <2>1 DEF QueueEntry
<1>9. CASE QueueNext
  BY <1>2, <1>3, <1>9 DEF QueueNext
<1>10. CASE QueueEnd \/ TableEnd
  BY <1>3, <1>4, <1>10 DEF QueueEnd, TableEnd, Prompt
<1>11. CASE TableBegin
  <2>1. CASE finishedJobs = 0
    BY <1>3, <1>4, <1>11, <2>1 DEF TableBegin, Prompt
  <2>2. CASE finishedJobs # 0
    BY <1>2, <1>3, <1>6, <1>11, <2>2 DEF TableBegin
  <2> QED  BY <2>1, <2>2
<1>12. CASE TableRow
  <2>1. CASE tmp = NULL
    BY <1>2, <1>3, <1>12, <2>1 DEF TableRow
  <2>2. CASE tmp # NULL
    <3>1. pid[tmp] \in Job \cup {NULL} /\ rows' \in Seq(Job \cup {NULL})
      BY <1>3, <1>12, <2>2, AppendProperties DEF TableRow
    <3> QED  BY <1>2, <1>3, <1>12, <2>2, <3>1 DEF TableRow
  <2> QED  BY <2>1, <2>2
<1>13. CASE TableNext
  BY <1>2, <1>3, <1>13 DEF TableNext
<1> QED  BY <1>5, <1>7, <1>8, <1>9, <1>10, <1>11, <1>12, <1>13 DEF window_thread

LEMMA TypeHandler == ASSUME NEW j \in Job PROVE TypeInv /\ handle_connection(j) => TypeInv'
<1> SUFFICES ASSUME TypeInv, handle_connection(j)
             PROVE  TypeInv'
  OBVIOUS
<1> USE DEF TypeInv, heapVars, readyVars, finishVars, handlerVars, cpuVars, consoleVars
<1>1. UNCHANGED <<finishVars, cpuVars, consoleVars>>
  BY DEF handle_connection, AwaitGo, Fill, Link
<1>2. ASSUME pid' \in [Addr -> Job \cup {NULL}], next' \in [Addr -> Addr \cup {NULL}], freed' \subseteq Addr,
             rqHead' \in Addr \cup {NULL}, rqLast' \in Addr \cup {NULL}, rqHead # NULL => rqHead' # NULL,
             phase' \in [Job -> {"held", "args", "link", "queued"}], held' \in [Job -> Addr \cup {NULL}],
             \A k \in Job : phase'[k] = "link" => held'[k] # NULL
      PROVE  TypeInv'
  BY <1>1, <1>2 DEF TypeOK, Pointers
<1>3. /\ pid \in [Addr -> Job \cup {NULL}] /\ next \in [Addr -> Addr \cup {NULL}] /\ freed \subseteq Addr
      /\ rqHead \in Addr \cup {NULL} /\ rqLast \in Addr \cup {NULL}
      /\ phase \in [Job -> {"held", "args", "link", "queued"}] /\ held \in [Job -> Addr \cup {NULL}]
      /\ \A k \in Job : phase[k] = "link" => held[k] # NULL
  BY DEF TypeOK, Pointers
<1>4. CASE AwaitGo(j)
  BY <1>2, <1>3, <1>4 DEF AwaitGo
<1>5. CASE Fill(j)
  <2>1. PICK a \in Addr : /\ freed' = freed \ {a} /\ held' = [held EXCEPT ![j] = a]
                         /\ pid' = [pid EXCEPT ![a] = j] /\ next' = [next EXCEPT ![a] = NULL]
    BY <1>5 DEF Fill, Malloc
  <2>2. UNCHANGED <<rqHead, rqLast>> /\ phase' = [phase EXCEPT ![j] = "link"]
    BY <1>5 DEF Fill
  <2>3. \A k \in Job : phase'[k] = "link" => held'[k] # NULL
    BY <1>3, <2>1, <2>2, HeapAssumption
  <2> QED  BY <1>2, <1>3, <2>1, <2>2, <2>3
<1>6. CASE Link(j)
  <2>1. /\ phase[j] = "link" /\ phase' = [phase EXCEPT ![j] = "queued"]
        /\ rqLast' = held[j] /\ held' = [held EXCEPT ![j] = NULL] /\ UNCHANGED <<pid, freed>>
    BY <1>6 DEF Link
  <2>2. next' \in [Addr -> Addr \cup {NULL}] /\ rqHead' \in Addr \cup {NULL}
        /\ (rqHead # NULL => rqHead' # NULL)
    BY <1>3, <1>6 DEF Link
  <2>3. \A k \in Job : phase'[k] = "link" => held'[k] # NULL
    BY <1>3, <2>1
  <2> QED  BY <1>2, <1>3, <2>1, <2>2, <2>3
<1> QED  BY <1>4, <1>5, <1>6 DEF handle_connection

LEMMA ReachedType ==
  ASSUME TypeOK, NEW from \in Addr \cup {NULL}
  PROVE  Reached(from) \subseteq Addr
<1>1. from \in Addr \cup {NULL} /\ \A a \in Addr : next[a] \in Addr \cup {NULL}
  BY DEF TypeOK
<1> QED  BY <1>1, PathStays, StepsIsPath DEF Reached

LEMMA TypeCpu == TypeInv /\ Cpu => TypeInv'
<1> SUFFICES ASSUME TypeInv, Cpu
             PROVE  TypeInv'
  OBVIOUS
<1> USE DEF TypeInv, CpuGoto, ListsOnly, heapVars, readyVars, finishVars, handlerVars, cpuVars, consoleVars
<1>1. UNCHANGED <<handlerVars, consoleVars>>
  BY DEF Cpu, Resume, Drained, GoOn, Pick, Execute, Verify, Stats, Copy, DeleteAppend, DeleteFirst,
     DeleteOther, DeleteSearch, Relink, Rehead, Cut
<1>2. ASSUME pid' \in [Addr -> Job \cup {NULL}], next' \in [Addr -> Addr \cup {NULL}], freed' \subseteq Addr,
             {rqHead', rqLast', fqHead', fqLast', job', copy'} \subseteq Addr \cup {NULL},
             finishedJobs' \in Nat, finished' \in BOOLEAN,
             cpu' \in HasJob \cup {"loop", "ready", "pick", "rehead", "cut"},
             cpu' \in HasJob \cup {"pick", "rehead"} => rqHead' # NULL,
             cpu' \in HasJob => job' # NULL
      PROVE  TypeInv'
  BY <1>1, <1>2 DEF TypeOK, Pointers, HasJob
<1>3. /\ pid \in [Addr -> Job \cup {NULL}] /\ next \in [Addr -> Addr \cup {NULL}] /\ freed \subseteq Addr
      /\ rqHead \in Addr \cup {NULL} /\ rqLast \in Addr \cup {NULL}
      /\ fqHead \in Addr \cup {NULL} /\ fqLast \in Addr \cup {NULL}
      /\ job \in Addr \cup {NULL} /\ copy \in Addr \cup {NULL}
      /\ finishedJobs \in Nat /\ finished \in BOOLEAN
      /\ cpu \in HasJob \cup {"pick", "rehead"} => rqHead # NULL
      /\ cpu \in HasJob => job # NULL
  BY DEF TypeOK, Pointers
<1>4. CASE Resume \/ Drained \/ GoOn \/ Verify \/ Stats \/ DeleteOther
  BY <1>2, <1>3, <1>4 DEF Resume, Drained, GoOn, Verify, Stats, DeleteOther, HasJob
<1>5. CASE Pick
  <2>1. job' \in Addr
    BY <1>3, <1>5, ReachedType DEF Pick
  <2> QED  BY <1>2, <1>3, <1>5, <2>1, HeapAssumption DEF Pick, HasJob
<1>6. CASE Execute
  BY <1>2, <1>3, <1>6 DEF Execute, HasJob
<1>7. CASE Copy
  <2>1. PICK a \in Addr : /\ freed' = freed \ {a} /\ copy' = a
                         /\ pid' = [pid EXCEPT ![a] = pid[job]] /\ next' = [next EXCEPT ![a] = next[job]]
    BY <1>7 DEF Copy, Malloc
  <2>2. cpu = "copy" /\ cpu' = "append" /\ UNCHANGED <<readyVars, finishVars, job, finished>>
    BY <1>7 DEF Copy
  <2>3. job \in Addr
    BY <1>3, <2>2 DEF HasJob
  <2> QED  BY <1>2, <1>3, <2>1, <2>2, <2>3 DEF HasJob
<1>8. CASE DeleteAppend
  <2>1. next' \in [Addr -> Addr \cup {NULL}] /\ fqHead' \in Addr \cup {NULL}
    BY <1>3, <1>8 DEF DeleteAppend
  <2> QED  BY <1>2, <1>3, <1>8, <2>1 DEF DeleteAppend, HasJob
<1>9. CASE DeleteFirst
  <2>1. job \in Addr /\ cpu' = "ready" /\ UNCHANGED <<next, finishVars, job, finished, copy>>
    BY <1>3, <1>9 DEF DeleteFirst, HasJob
  <2>2. /\ pid' \in [Addr -> Job \cup {NULL}] /\ freed' \subseteq Addr
        /\ rqHead' \in Addr \cup {NULL} /\ rqLast' \in Addr \cup {NULL}
    BY <1>3, <1>9, <2>1 DEF DeleteFirst, Free
  <2> QED  BY <1>2, <1>3, <2>1, <2>2 DEF HasJob
<1>10. CASE DeleteSearch
  <2>1. cpu = "search" /\ cpu' = "ready" /\ UNCHANGED <<readyVars, finishVars, job, finished, copy>>
    BY <1>10 DEF DeleteSearch
  <2>2. job \in Addr
    BY <1>3, <2>1 DEF HasJob
  <2>3. /\ pid' \in [Addr -> Job \cup {NULL}] /\ next' \in [Addr -> Addr \cup {NULL}]
        /\ freed' \subseteq Addr
    BY <1>3, <1>10, <2>2 DEF DeleteSearch, Free
  <2> QED  BY <1>2, <1>3, <2>1, <2>3 DEF HasJob
<1>11. CASE Relink
  BY <1>2, <1>3, <1>11 DEF Relink, HasJob
<1>12. CASE Rehead
  BY <1>2, <1>3, <1>12 DEF Rehead, HasJob
<1>13. CASE Cut
  BY <1>2, <1>3, <1>13 DEF Cut, HasJob
<1> QED  BY <1>4, <1>5, <1>6, <1>7, <1>8, <1>9, <1>10, <1>11, <1>12, <1>13 DEF Cpu

LEMMA TypeStep == TypeInv /\ [Next]_vars => TypeInv'
<1>1. TypeInv /\ UNCHANGED vars => TypeInv'
  BY DEF TypeInv, TypeOK, Pointers, vars, heapVars, readyVars, finishVars, handlerVars, cpuVars, consoleVars
<1> QED  BY <1>1, TypeConsole, TypeHandler, TypeCpu DEF Next

LEMMA AlwaysTypeInv == Spec => []TypeInv
BY TypeInit, TypeStep, PTL DEF Spec

(* Under every algorithm each pointer points to a cell or is NULL, and none  *)
(* is followed while it is NULL but by the table of "stop", whose process    *)
(* ends there (jobscheduler.h:35-127, server.c:225-305).                     *)
THEOREM PcbTypeCorrect == Spec => []TypeOK
BY AlwaysTypeInv, PTL DEF TypeInv

-----------------------------------------------------------------------------
(* The heap under fifo and roundRobin: r are the cells of the ready queue, f *)
(* those of FQ.                                                              *)

\* Inside moveFirstToLast r is a ring; after the first of its assignments
\* RQ->last is already on the cell that moves.
ReadyCells(r) ==
  /\ Chain(next, r)
  /\ rqHead = IF r = <<>> THEN NULL ELSE r[1]
  /\ r # <<>> => /\ rqLast = IF cpu = "rehead" THEN r[1] ELSE LastOf(r)
                 /\ next[LastOf(r)] = IF CpuLocks THEN r[1] ELSE NULL

\* The last PCB of FQ keeps the next of the PCB it is a copy of.
FinishCells(r, f) ==
  /\ Chain(next, f) /\ Len(f) = Appended
  /\ fqHead = IF f = <<>> THEN NULL ELSE f[1]
  /\ f # <<>> => /\ fqLast = LastOf(f) /\ next[LastOf(f)] \in Range(r) \cup {NULL}
                 /\ cpu = "unlink" => next[LastOf(f)] # job

\* A cell that a handler has filled is in no list before insert.
HeldCells(r, f) ==
  \A j \in Job :
    /\ phase[j] = "link" <=> held[j] # NULL
    /\ held[j] # NULL => /\ held[j] \notin Range(r) \cup Range(f) \cup {copy}
                         /\ next[held[j]] = NULL
                         /\ \A k \in Job : held[k] = held[j] => k = j

\* Nor is delete's copy before its first critical section ends.
CopyCell(r, f) ==
  /\ cpu = "append" <=> copy # NULL
  /\ copy \notin Range(r) \cup Range(f)
  /\ cpu = "append" => next[copy] \in (Range(r) \ {job}) \cup {NULL}

\* fifo and roundRobin always have the first PCB in hand.
FirstInHand(r) ==
  /\ cpu # "search"
  /\ cpu \in HasJob => r # <<>> /\ job = r[1]
  /\ cpu \in {"pick", "rehead", "cut"} => r # <<>>

Owned(r, f) ==
  /\ Range(r) \cap Range(f) = {}
  /\ Addr \ freed = (Range(r) \cup Range(f) \cup Range(held) \cup {copy}) \ {NULL}

Lists(r, f) ==
  /\ ReadyCells(r) /\ FinishCells(r, f)
  /\ HeldCells(r, f) /\ CopyCell(r, f)
  /\ FirstInHand(r) /\ Owned(r, f)

LEMMA ListFacts ==
  ASSUME NEW cells, Chain(next, cells), cells # <<>>
  PROVE  /\ LastOf(cells) \in Range(cells) /\ cells[1] \in Range(cells)
         /\ Range(cells) \subseteq Addr
         /\ Tailmost(cells[1], LastOf(cells)) = LastOf(cells)
<1>1. /\ Len(cells) \in Nat \ {0} /\ DOMAIN cells = 1..Len(cells) /\ cells \in Seq(Addr)
      /\ \A k \in 1..Len(cells) : cells[k] \in Range(cells) /\ cells[k] \in Addr
      /\ Range(cells) \subseteq Addr
      /\ \A k \in 1..(Len(cells) - 1) : next[cells[k]] = cells[k + 1]
  BY ChainFits, EmptySeq DEF Chain
<1>2. 1 \in 1..Len(cells) /\ Len(cells) \in 1..Len(cells)
  BY <1>1
<1>3. CASE Len(cells) = 1
  BY <1>1, <1>2, <1>3 DEF LastOf, Tailmost
<1>4. CASE Len(cells) # 1
  <2>1. 1 \in 1..(Len(cells) - 1) /\ 1 + 1 \in 1..Len(cells)
    BY <1>1, <1>4
  <2>2. next[cells[1]] # NULL
    BY <1>1, <2>1, HeapAssumption
  <2> QED  BY <1>1, <1>2, <2>2 DEF LastOf, Tailmost
<1> QED  BY <1>3, <1>4

LEMMA EmptyChain == ASSUME NEW link PROVE Chain(link, <<>>) /\ Range(<<>>) = {}
BY DEF Chain, IsInjective, Range

LEMMA HeapListsInit == Init => Lists(<<>>, <<>>)
<1> SUFFICES ASSUME Init
             PROVE  Lists(<<>>, <<>>)
  OBVIOUS
<1>1. Chain(next, <<>>) /\ Range(<<>>) = {}
  BY EmptyChain
<1>2. Range(held) \subseteq {NULL}
  BY DEF Init, Range
<1>3. ReadyCells(<<>>)
  BY <1>1 DEF Init, ReadyCells
<1>6. FinishCells(<<>>, <<>>)
  <2>1. cpu = "loop" /\ finishedJobs = 0 /\ fqHead = NULL
    BY DEF Init
  <2>2. cpu \notin {"copy", "append"} /\ 0 - 0 = 0
    BY <2>1
  <2>4. Appended = 0
    BY <2>1, <2>2 DEF Appended
  <2>3. Len(<<>>) = 0
    OBVIOUS
  <2> QED  BY <1>1, <2>1, <2>4, <2>3 DEF FinishCells
<1>4. HeldCells(<<>>, <<>>) /\ CopyCell(<<>>, <<>>) /\ FirstInHand(<<>>)
  BY <1>1 DEF Init, HeldCells, CopyCell, FirstInHand, HasJob
<1>5. Owned(<<>>, <<>>)
  BY <1>1, <1>2 DEF Init, Owned
<1> QED  BY <1>3, <1>4, <1>5, <1>6 DEF Lists

(* Steps that change no list and take no cell.                               *)
LEMMA HeapQuiet ==
  ASSUME NEW r, NEW f, Lists(r, f),
         UNCHANGED <<next, freed, rqHead, rqLast, fqHead, fqLast, held, copy>>,
         \A j \in Job : phase'[j] = "link" <=> phase[j] = "link",
         Appended' = Appended,
         \/ UNCHANGED <<cpu, job>>
         \/ /\ {cpu, cpu'} \cap {"append", "search", "rehead", "cut"} = {}
            /\ cpu' # "unlink" /\ (cpu' \in HasJob => r # <<>> /\ job' = r[1])
            /\ (cpu' = "pick" => r # <<>>)
  PROVE  Lists(r, f)'
<1> USE DEF Lists
<1>1. ReadyCells(r)'
  BY DEF ReadyCells, CpuLocks
<1>2. FinishCells(r, f)'
  BY DEF FinishCells
<1>3. HeldCells(r, f)'
  BY DEF HeldCells
<1>4. CopyCell(r, f)'
  BY DEF CopyCell
<1>5. FirstInHand(r)'
  BY DEF FirstInHand, HasJob
<1>6. Owned(r, f)'
  BY DEF Owned
<1> QED  BY <1>1, <1>2, <1>3, <1>4, <1>5, <1>6

LEMMA HeapLink ==
  ASSUME TypeInv, NEW r, NEW f, Lists(r, f), NEW j \in Job, Link(j), NEW b, b = held[j]
  PROVE  Lists(Append(r, b), f)'
<1>1. b = held[j]
  OBVIOUS
<1>2. /\ phase[j] = "link" /\ phase' = [phase EXCEPT ![j] = "queued"] /\ ~CpuLocks
      /\ rqLast' = b /\ held' = [held EXCEPT ![j] = NULL]
      /\ UNCHANGED <<pid, freed, fqHead, fqLast, finishedJobs, cpu, job, copy>>
  BY <1>1 DEF Link, finishVars, cpuVars
<1>3. /\ b \in Addr /\ b # NULL /\ b \notin Range(r) \cup Range(f) \cup {copy} /\ next[b] = NULL
      /\ \A k \in Job : held[k] = b => k = j
  BY <1>1, <1>2 DEF Lists, HeldCells, TypeInv, TypeOK
<1>4. /\ Chain(next, r) /\ Chain(next, f) /\ next \in [Addr -> Addr \cup {NULL}]
      /\ rqHead = IF r = <<>> THEN NULL ELSE r[1]
      /\ r # <<>> => rqLast = LastOf(r)
  BY <1>2 DEF Lists, ReadyCells, FinishCells, TypeInv, TypeOK, CpuLocks
<1>5. /\ r # <<>> => /\ LastOf(r) \in Range(r) /\ r[1] \in Range(r)
                     /\ Tailmost(r[1], LastOf(r)) = LastOf(r)
      /\ Range(r) \subseteq Addr
  BY <1>4, ListFacts, ChainFits DEF Chain
<1>6. /\ rqHead' = IF r = <<>> THEN b ELSE r[1]
      /\ r # <<>> => next' = [next EXCEPT ![LastOf(r)] = b]
      /\ r = <<>> => next' = next
  BY <1>1, <1>4, <1>5, HeapAssumption DEF Link
<1>7. /\ r # <<>> => next'[LastOf(r)] = b
      /\ \A c \in Addr : r = <<>> \/ c # LastOf(r) => next'[c] = next[c]
  BY <1>4, <1>5, <1>6
<1>8. Chain(next', r) /\ Chain(next', f)
  <2>1. \A c \in Range(r) : c # LastOf(r) => next'[c] = next[c]
    BY <1>5, <1>7
  <2>2. \A c \in Range(f) : next'[c] = next[c]
    <3>1. Range(f) \subseteq Addr /\ Range(r) \cap Range(f) = {}
      BY <1>4, ChainFits DEF Chain, Lists, Owned
    <3> QED  BY <1>5, <1>7, <3>1
  <2> QED  BY <1>4, <2>1, <2>2, ChainKept
<1>9. PICK cells : cells = Append(r, b)
  OBVIOUS
<1>10. /\ Chain(next', cells) /\ Range(cells) = Range(r) \cup {b}
       /\ cells # <<>> /\ LastOf(cells) = b
       /\ cells[1] = IF r = <<>> THEN b ELSE r[1]
  BY <1>3, <1>7, <1>8, <1>9, ChainAppend
<1>11. ReadyCells(cells)'
  <2>1. next'[b] = NULL
    BY <1>3, <1>5, <1>7
  <2> QED  BY <1>2, <1>6, <1>10, <2>1 DEF ReadyCells, CpuLocks
<1>12. FinishCells(cells, f)'
  <2>1. f # <<>> => LastOf(f) \in Range(f) /\ Range(f) \subseteq Addr
    BY <1>4, ListFacts
  <2>2. f # <<>> => next'[LastOf(f)] = next[LastOf(f)]
    BY <1>5, <1>7, <2>1 DEF Lists, Owned
  <2> QED  BY <1>2, <1>8, <1>10, <2>2 DEF FinishCells, Lists, Appended
<1>13. HeldCells(cells, f)'
  <2> SUFFICES ASSUME NEW k \in Job
               PROVE  /\ phase'[k] = "link" <=> held'[k] # NULL
                      /\ held'[k] # NULL => /\ held'[k] \notin Range(cells) \cup Range(f) \cup {copy'}
                                            /\ next'[held'[k]] = NULL
                                            /\ \A m \in Job : held'[m] = held'[k] => m = k
    BY DEF HeldCells
  <2>1. phase \in [Job -> {"held", "args", "link", "queued"}] /\ held \in [Job -> Addr \cup {NULL}]
    BY DEF TypeInv, TypeOK
  <2>2. CASE k = j
    BY <1>2, <2>1, <2>2
  <2>3. CASE k # j
    <3>1. phase'[k] = phase[k] /\ held'[k] = held[k]
      BY <1>2, <2>1, <2>3
    <3>2. held[k] # NULL => held[k] # b /\ held[k] \in Addr /\ next'[held[k]] = next[held[k]]
      BY <1>3, <1>5, <1>7, <2>1, <2>3 DEF Lists, HeldCells
    <3>3. held[k] # NULL => \A m \in Job : held'[m] = held[k] => m = k
      BY <1>2, <2>1 DEF Lists, HeldCells
    <3> QED  BY <1>2, <1>10, <3>1, <3>2, <3>3 DEF Lists, HeldCells
  <2> QED  BY <2>2, <2>3
<1>14. CopyCell(cells, f)'
  <2>1. cpu = "append" => copy # b /\ copy \in Addr /\ next'[copy] = next[copy]
    BY <1>3, <1>5, <1>7 DEF Lists, CopyCell, TypeInv, TypeOK
  <2> QED  BY <1>2, <1>3, <1>10, <2>1 DEF Lists, CopyCell
<1>15. FirstInHand(cells)'
  BY <1>2, <1>10 DEF Lists, FirstInHand, CpuLocks
<1>16. Owned(cells, f)'
  <2>1. Range(held) \cup {NULL} = Range(held') \cup {b, NULL}
    <3>1. held \in [Job -> Addr \cup {NULL}] /\ DOMAIN held = Job /\ DOMAIN held' = Job
      BY <1>2 DEF TypeInv, TypeOK
    <3>2. /\ held[j] = b /\ held'[j] = NULL
          /\ \A k \in Job : k # j => held'[k] = held[k]
      BY <1>1, <1>2, <3>1
    <3> QED  BY <3>1, <3>2 DEF Range
  <2>2. Addr \ freed = (Range(r) \cup Range(f) \cup Range(held) \cup {copy}) \ {NULL}
    BY DEF Lists, Owned
  <2>3. Range(cells) \cap Range(f) = {}
    BY <1>3, <1>10 DEF Lists, Owned
  <2>4. UNCHANGED <<freed, copy>>
    BY <1>2
  <2>5. Addr \ freed = (Range(cells) \cup Range(f) \cup Range(held') \cup {copy}) \ {NULL}
    BY <1>3, <1>10, <2>1, <2>2
  <2> QED  BY <2>3, <2>4, <2>5 DEF Owned
<1> QED  BY <1>9, <1>11, <1>12, <1>13, <1>14, <1>15, <1>16 DEF Lists

LEMMA HeapFill ==
  ASSUME TypeInv, NEW r, NEW f, Lists(r, f), NEW j \in Job, Fill(j)
  PROVE  Lists(r, f)'
<1>1. PICK a \in Addr : /\ a \in freed /\ freed' = freed \ {a} /\ held' = [held EXCEPT ![j] = a]
                        /\ next' = [next EXCEPT ![a] = NULL]
  BY DEF Fill, Malloc
<1>2. /\ phase[j] = "args" /\ phase' = [phase EXCEPT ![j] = "link"]
      /\ UNCHANGED <<rqHead, rqLast, fqHead, fqLast, finishedJobs, cpu, job, copy>>
  BY DEF Fill, readyVars, finishVars, cpuVars
<1>3. /\ next \in [Addr -> Addr \cup {NULL}] /\ held \in [Job -> Addr \cup {NULL}]
      /\ phase \in [Job -> {"held", "args", "link", "queued"}] /\ freed \subseteq Addr
      /\ copy \in Addr \cup {NULL}
  BY DEF TypeInv, TypeOK
<1>4. held[j] = NULL
  BY <1>2 DEF Lists, HeldCells
<1>5. a # NULL /\ a \notin Range(r) \cup Range(f) \cup Range(held) \cup {copy}
  BY <1>1, HeapAssumption DEF Lists, Owned
<1>6. Chain(next, r) /\ Chain(next, f)
  BY DEF Lists, ReadyCells, FinishCells
<1>7. Range(r) \subseteq Addr /\ Range(f) \subseteq Addr
  BY <1>6, ChainFits DEF Chain
<1>8. \A c \in Addr : c # a => next'[c] = next[c]
  BY <1>1, <1>3
<1>9. Chain(next', r) /\ Chain(next', f)
  <2>1. (\A c \in Range(r) : next'[c] = next[c]) /\ (\A c \in Range(f) : next'[c] = next[c])
    BY <1>5, <1>7, <1>8
  <2> QED  BY <1>6, <2>1, ChainKept
<1>10. /\ r # <<>> => next'[LastOf(r)] = next[LastOf(r)]
       /\ f # <<>> => next'[LastOf(f)] = next[LastOf(f)]
  BY <1>5, <1>6, <1>7, <1>8, ListFacts
<1>11. ReadyCells(r)'
  BY <1>2, <1>9, <1>10 DEF Lists, ReadyCells, CpuLocks
<1>12. FinishCells(r, f)'
  BY <1>2, <1>9, <1>10 DEF Lists, FinishCells, Appended
<1>13. /\ held'[j] = a /\ phase'[j] = "link" /\ next'[a] = NULL
       /\ \A k \in Job : k # j => held'[k] = held[k] /\ phase'[k] = phase[k] /\ held[k] # a
  BY <1>1, <1>2, <1>3, <1>5 DEF Range
<1>14. HeldCells(r, f)'
  <2> SUFFICES ASSUME NEW k \in Job
               PROVE  /\ phase'[k] = "link" <=> held'[k] # NULL
                      /\ held'[k] # NULL => /\ held'[k] \notin Range(r) \cup Range(f) \cup {copy'}
                                            /\ next'[held'[k]] = NULL
                                            /\ \A m \in Job : held'[m] = held'[k] => m = k
    BY DEF HeldCells
  <2>1. CASE k = j
    BY <1>2, <1>5, <1>13, <2>1
  <2>2. CASE k # j
    <3>1. held[k] # NULL => held[k] \in Addr /\ next'[held[k]] = next[held[k]]
      BY <1>3, <1>8, <1>13, <2>2
    <3>2. held[k] # NULL => \A m \in Job : held'[m] = held[k] => m = k
      BY <1>13, <2>2 DEF Lists, HeldCells
    <3> QED  BY <1>2, <1>13, <2>2, <3>1, <3>2 DEF Lists, HeldCells
  <2> QED  BY <2>1, <2>2
<1>15. CopyCell(r, f)'
  <2>1. cpu = "append" => copy \in Addr /\ next'[copy] = next[copy]
    BY <1>3, <1>5, <1>8 DEF Lists, CopyCell
  <2> QED  BY <1>2, <2>1 DEF Lists, CopyCell
<1>16. FirstInHand(r)'
  BY <1>2 DEF Lists, FirstInHand
<1>17. Owned(r, f)'
  <2>1. Range(held') \cup {NULL} = Range(held) \cup {a, NULL}
    <3>1. DOMAIN held = Job /\ DOMAIN held' = Job
      BY <1>1, <1>3
    <3> QED  BY <1>4, <1>13, <3>1 DEF Range
  <2>2. Addr \ freed = (Range(r) \cup Range(f) \cup Range(held) \cup {copy}) \ {NULL}
    BY DEF Lists, Owned
  <2>3. Addr \ freed' = (Addr \ freed) \cup {a}
    BY <1>1
  <2>4. Addr \ freed' = (Range(r) \cup Range(f) \cup Range(held') \cup {copy}) \ {NULL}
    BY <1>5, <2>1, <2>2, <2>3
  <2> QED  BY <1>2, <2>4 DEF Lists, Owned
<1> QED  BY <1>11, <1>12, <1>14, <1>15, <1>16, <1>17 DEF Lists

LEMMA HeapCopy ==
  ASSUME TypeInv, NEW r, NEW f, Lists(r, f), Copy
  PROVE  Lists(r, f)'
<1>1. PICK a \in Addr : /\ a \in freed /\ freed' = freed \ {a} /\ copy' = a
                        /\ next' = [next EXCEPT ![a] = next[job]]
  BY DEF Copy, Malloc
<1>2. /\ cpu = "copy" /\ cpu' = "append"
      /\ UNCHANGED <<rqHead, rqLast, fqHead, fqLast, finishedJobs, job, phase, held>>
  BY DEF Copy, CpuGoto, ListsOnly, readyVars, finishVars, handlerVars
<1>3. /\ next \in [Addr -> Addr \cup {NULL}] /\ held \in [Job -> Addr \cup {NULL}]
      /\ freed \subseteq Addr
  BY DEF TypeInv, TypeOK
<1>4. copy = NULL /\ r # <<>> /\ job = r[1]
  BY <1>2 DEF Lists, CopyCell, FirstInHand, HasJob
<1>5. a # NULL /\ a \notin Range(r) \cup Range(f) \cup Range(held)
  BY <1>1, HeapAssumption DEF Lists, Owned
<1>6. /\ Chain(next, r) /\ Chain(next, f) /\ next[LastOf(r)] = NULL
  BY <1>2, <1>4 DEF Lists, ReadyCells, FinishCells, CpuLocks
<1>7. Range(r) \subseteq Addr /\ Range(f) \subseteq Addr
  BY <1>6, ChainFits DEF Chain
<1>8. \A c \in Addr : c # a => next'[c] = next[c]
  BY <1>1, <1>3
<1>9. Chain(next', r) /\ Chain(next', f)
  <2>1. (\A c \in Range(r) : next'[c] = next[c]) /\ (\A c \in Range(f) : next'[c] = next[c])
    BY <1>5, <1>7, <1>8
  <2> QED  BY <1>6, <2>1, ChainKept
<1>10. /\ next'[LastOf(r)] = next[LastOf(r)]
       /\ f # <<>> => next'[LastOf(f)] = next[LastOf(f)]
  BY <1>4, <1>5, <1>6, <1>7, <1>8, ListFacts
<1>11. ReadyCells(r)'
  BY <1>2, <1>9, <1>10 DEF Lists, ReadyCells, CpuLocks
<1>12. FinishCells(r, f)'
  BY <1>2, <1>9, <1>10 DEF Lists, FinishCells, Appended
<1>13. HeldCells(r, f)'
  <2>1. \A k \in Job : held[k] # NULL => held[k] \in Addr /\ held[k] # a /\ next'[held[k]] = next[held[k]]
    BY <1>3, <1>5, <1>8 DEF Range
  <2> QED  BY <1>1, <1>2, <2>1 DEF Lists, HeldCells
<1>14. CopyCell(r, f)'
  <2>1. next[r[1]] \in (Range(r) \ {r[1]}) \cup {NULL}
    <3>1. CASE Tail(r) = <<>>
      BY <1>4, <1>6, <3>1, ChainTail
    <3>2. CASE Tail(r) # <<>>
      <4>1. /\ Chain(next, Tail(r)) /\ Range(Tail(r)) = Range(r) \ {r[1]}
            /\ Tail(r)[1] = next[r[1]]
        BY <1>4, <1>6, <3>2, ChainTail
      <4> QED  BY <3>2, <4>1, ListFacts
    <3> QED  BY <3>1, <3>2
  <2>2. next'[a] = next[job]
    BY <1>1, <1>3
  <2> QED  BY <1>1, <1>2, <1>4, <1>5, <2>1, <2>2 DEF CopyCell
<1>15. FirstInHand(r)'
  BY <1>2, <1>4 DEF FirstInHand, HasJob
<1>16. Owned(r, f)'
  <2>1. Addr \ freed = (Range(r) \cup Range(f) \cup Range(held) \cup {copy}) \ {NULL}
    BY DEF Lists, Owned
  <2>2. Addr \ freed' = (Addr \ freed) \cup {a}
    BY <1>1
  <2>3. Addr \ freed' = (Range(r) \cup Range(f) \cup Range(held) \cup {a}) \ {NULL}
    BY <1>4, <1>5, <2>1, <2>2
  <2> QED  BY <1>1, <1>2, <2>3 DEF Lists, Owned
<1> QED  BY <1>11, <1>12, <1>13, <1>14, <1>15, <1>16 DEF Lists

LEMMA HeapAppend ==
  ASSUME TypeInv, NEW r, NEW f, Lists(r, f), DeleteAppend, NEW b, b = copy
  PROVE  Lists(r, Append(f, b))'
<1>1. b = copy
  OBVIOUS
<1>2. /\ cpu = "append" /\ cpu' = "unlink" /\ fqLast' = b /\ copy' = NULL
      /\ UNCHANGED <<pid, freed, rqHead, rqLast, finishedJobs, job, phase, held>>
  BY <1>1 DEF DeleteAppend, CpuGoto, ListsOnly, readyVars, handlerVars
<1>3. /\ next \in [Addr -> Addr \cup {NULL}] /\ held \in [Job -> Addr \cup {NULL}]
      /\ finishedJobs \in Nat /\ copy \in Addr \cup {NULL}
  BY DEF TypeInv, TypeOK
<1>4. /\ b \in Addr /\ b \notin Range(r) \cup Range(f)
      /\ next[b] \in (Range(r) \ {job}) \cup {NULL}
      /\ r # <<>> /\ job = r[1]
      /\ \A k \in Job : held[k] # NULL => held[k] # b
  BY <1>1, <1>2, <1>3 DEF Lists, CopyCell, FirstInHand, HeldCells, HasJob
<1>5. /\ Chain(next, r) /\ Chain(next, f) /\ Len(f) = Appended /\ next[LastOf(r)] = NULL
      /\ fqHead = IF f = <<>> THEN NULL ELSE f[1]
      /\ f # <<>> => fqLast = LastOf(f)
      /\ Range(r) \cap Range(f) = {}
  BY <1>2, <1>4 DEF Lists, ReadyCells, FinishCells, CpuLocks, Owned
<1>6. /\ f # <<>> => /\ LastOf(f) \in Range(f) /\ f[1] \in Range(f)
                     /\ Tailmost(f[1], LastOf(f)) = LastOf(f)
      /\ Range(f) \subseteq Addr /\ Range(r) \subseteq Addr
  BY <1>5, ListFacts, ChainFits DEF Chain
<1>7. /\ fqHead' = IF f = <<>> THEN b ELSE f[1]
      /\ f # <<>> => next' = [next EXCEPT ![LastOf(f)] = b]
      /\ f = <<>> => next' = next
  BY <1>1, <1>5, <1>6, HeapAssumption DEF DeleteAppend
<1>8. /\ f # <<>> => next'[LastOf(f)] = b
      /\ \A c \in Addr : f = <<>> \/ c # LastOf(f) => next'[c] = next[c]
  BY <1>3, <1>6, <1>7
<1>9. Chain(next', r) /\ Chain(next', f)
  <2>1. \A c \in Range(f) : c # LastOf(f) => next'[c] = next[c]
    BY <1>6, <1>8
  <2>2. \A c \in Range(r) : next'[c] = next[c]
    BY <1>5, <1>6, <1>8
  <2> QED  BY <1>5, <2>1, <2>2, ChainKept
<1>10. PICK cells : cells = Append(f, b)
  OBVIOUS
<1>11. /\ Chain(next', cells) /\ Range(cells) = Range(f) \cup {b}
       /\ cells # <<>> /\ LastOf(cells) = b /\ Len(cells) = Len(f) + 1
       /\ cells[1] = IF f = <<>> THEN b ELSE f[1]
  BY <1>4, <1>8, <1>9, <1>10, ChainAppend
<1>12. next'[b] = next[b] /\ next'[LastOf(r)] = next[LastOf(r)]
  BY <1>4, <1>5, <1>6, <1>8, ListFacts
<1>13. ReadyCells(r)'
  BY <1>2, <1>9, <1>12 DEF Lists, ReadyCells, CpuLocks
<1>14. FinishCells(r, cells)'
  <2>1. Appended' = Appended + 1
    BY <1>2, <1>3 DEF Appended
  <2>2. job # NULL
    BY <1>2 DEF TypeInv, Pointers, HasJob
  <2>3. Chain(next', cells) /\ Len(cells) = Appended'
    BY <1>5, <1>11, <2>1
  <2>4. fqHead' = cells[1] /\ fqLast' = LastOf(cells)
    BY <1>2, <1>7, <1>11
  <2>5. next'[LastOf(cells)] \in Range(r) \cup {NULL} /\ next'[LastOf(cells)] # job'
    BY <1>2, <1>4, <1>11, <1>12, <2>2
  <2> QED  BY <1>11, <2>3, <2>4, <2>5 DEF FinishCells
<1>15. HeldCells(r, cells)'
  <2>1. \A k \in Job : held[k] # NULL => held[k] \in Addr /\ next'[held[k]] = next[held[k]] /\ held[k] # b
    BY <1>3, <1>4, <1>6, <1>8 DEF Lists, HeldCells
  <2> QED  BY <1>2, <1>4, <1>11, <2>1, HeapAssumption DEF Lists, HeldCells
<1>16. CopyCell(r, cells)'
  BY <1>2, <1>4, <1>6, <1>11, HeapAssumption DEF CopyCell
<1>17. FirstInHand(r)'
  BY <1>2, <1>4 DEF FirstInHand, HasJob
<1>18. Owned(r, cells)'
  <2>1. Addr \ freed = (Range(r) \cup Range(f) \cup Range(held) \cup {b}) \ {NULL}
    BY <1>1 DEF Lists, Owned
  <2>2. Addr \ freed = (Range(r) \cup Range(cells) \cup Range(held) \cup {NULL}) \ {NULL}
    BY <1>11, <2>1
  <2>3. Range(r) \cap Range(cells) = {}
    BY <1>4, <1>5, <1>11
  <2> QED  BY <1>2, <2>2, <2>3 DEF Owned
<1> QED  BY <1>10, <1>13, <1>14, <1>15, <1>16, <1>17, <1>18 DEF Lists

LEMMA HeapUnlink ==
  ASSUME TypeInv, NEW r, NEW f, Lists(r, f), DeleteFirst
  PROVE  Lists(Tail(r), f)'
<1>1. /\ cpu = "unlink" /\ cpu' = "ready" /\ rqHead' = next[job]
      /\ rqLast' = (IF rqLast = job THEN NULL ELSE rqLast) /\ freed' = freed \cup {job}
      /\ UNCHANGED <<next, fqHead, fqLast, finishedJobs, job, copy, phase, held>>
  BY DEF DeleteFirst, CpuGoto, ListsOnly, Free, finishVars, handlerVars
<1>2. r # <<>> /\ job = r[1] /\ copy = NULL
  BY <1>1 DEF Lists, FirstInHand, CopyCell, HasJob
<1>3. /\ Chain(next, r) /\ rqLast = LastOf(r) /\ next[LastOf(r)] = NULL
  BY <1>1, <1>2 DEF Lists, ReadyCells, CpuLocks
<1>4. PICK cells : cells = Tail(r)
  OBVIOUS
<1>5. /\ Chain(next, cells) /\ Range(cells) = Range(r) \ {job} /\ job \in Range(r)
      /\ IF cells = <<>>
         THEN LastOf(r) = job
         ELSE cells[1] = next[job] /\ LastOf(cells) = LastOf(r) /\ LastOf(r) # job
  BY <1>2, <1>3, <1>4, ChainTail
<1>6. ReadyCells(cells)'
  BY <1>1, <1>3, <1>5 DEF ReadyCells, CpuLocks
<1>7. FinishCells(cells, f)'
  BY <1>1, <1>5 DEF Lists, FinishCells, Appended
<1>8. HeldCells(cells, f)'
  BY <1>1, <1>5 DEF Lists, HeldCells
<1>9. CopyCell(cells, f)'
  BY <1>1, <1>5 DEF Lists, CopyCell
<1>10. FirstInHand(cells)'
  BY <1>1 DEF FirstInHand, HasJob
<1>11. Owned(cells, f)'
  <2>1. /\ Range(r) \cap Range(f) = {}
        /\ Addr \ freed = (Range(r) \cup Range(f) \cup Range(held) \cup {copy}) \ {NULL}
    BY DEF Lists, Owned
  <2>2. job \notin Range(held) \/ job = NULL
    <3>1. held \in [Job -> Addr \cup {NULL}] /\ \A k \in Job : held[k] # NULL => held[k] # job
      BY <1>5 DEF Lists, HeldCells, TypeInv, TypeOK
    <3> QED  BY <3>1 DEF Range
  <2>3. job # NULL
    BY <1>1 DEF TypeInv, Pointers, HasJob
  <2>4. Addr \ freed' = (Addr \ freed) \ {job}
    BY <1>1
  <2>5. Addr \ freed' = (Range(cells) \cup Range(f) \cup Range(held) \cup {copy}) \ {NULL}
    BY <1>2, <1>5, <2>1, <2>2, <2>3, <2>4
  <2>6. Range(cells) \cap Range(f) = {}
    BY <1>5, <2>1
  <2> QED  BY <1>1, <2>5, <2>6 DEF Owned
<1> QED  BY <1>4, <1>6, <1>7, <1>8, <1>9, <1>10, <1>11 DEF Lists

(* A link out of the last cell of the ready queue, as moveFirstToLast sets it. *)
LEMMA HeapRing ==
  ASSUME TypeInv, NEW r, NEW f, Lists(r, f), r # <<>>, NEW target,
         next' = [next EXCEPT ![LastOf(r)] = target],
         UNCHANGED <<freed, fqHead, fqLast, finishedJobs, job, copy, phase, held>>,
         {cpu, cpu'} \subseteq {"relink", "rehead", "cut", "ready"}
  PROVE  /\ Chain(next', r) /\ next'[LastOf(r)] = target
         /\ FinishCells(r, f)' /\ HeldCells(r, f)' /\ CopyCell(r, f)' /\ Owned(r, f)'
<1>1. /\ Chain(next, r) /\ Chain(next, f) /\ Range(r) \cap Range(f) = {}
      /\ next \in [Addr -> Addr \cup {NULL}] /\ held \in [Job -> Addr \cup {NULL}]
  BY DEF Lists, ReadyCells, FinishCells, Owned, TypeInv, TypeOK
<1>2. LastOf(r) \in Range(r) /\ Range(r) \subseteq Addr /\ Range(f) \subseteq Addr
  BY <1>1, ListFacts, ChainFits DEF Chain
<1>3. /\ next'[LastOf(r)] = target
      /\ \A c \in Addr : c # LastOf(r) => next'[c] = next[c]
  BY <1>1, <1>2
<1>4. Chain(next', r) /\ Chain(next', f)
  <2>1. /\ \A c \in Range(r) : c # LastOf(r) => next'[c] = next[c]
        /\ \A c \in Range(f) : next'[c] = next[c]
    BY <1>1, <1>2, <1>3
  <2>2. Chain(next', r)
    <3>1. PICK link, other : link = next /\ other = next'
      OBVIOUS
    <3>2. Chain(link, r) /\ \A c \in Range(r) : c # LastOf(r) => other[c] = link[c]
      BY <1>1, <2>1, <3>1
    <3>3. Chain(other, r)
      BY ONLY <3>2, ChainKept
    <3> QED  BY <3>1, <3>3
  <2>3. Chain(next', f)
    BY <1>1, <2>1, ChainKept
  <2> QED  BY <2>2, <2>3
<1>5. FinishCells(r, f)'
  <2>1. f # <<>> => next'[LastOf(f)] = next[LastOf(f)]
    BY <1>1, <1>2, <1>3, ListFacts
  <2>2. Appended' = Appended /\ cpu' # "unlink"
    BY DEF Appended
  <2> QED  BY <1>4, <2>1, <2>2 DEF Lists, FinishCells
<1>6. HeldCells(r, f)'
  <2>1. \A k \in Job : held[k] # NULL => held[k] \in Addr /\ next'[held[k]] = next[held[k]]
    BY <1>1, <1>2, <1>3 DEF Lists, HeldCells
  <2> QED  BY <2>1 DEF Lists, HeldCells
<1>7. CopyCell(r, f)'
  BY DEF Lists, CopyCell
<1>8. Owned(r, f)'
  BY DEF Lists, Owned
<1> QED  BY <1>3, <1>4, <1>5, <1>6, <1>7, <1>8

LEMMA HeapRelink ==
  ASSUME TypeInv, NEW r, NEW f, Lists(r, f), Relink
  PROVE  Lists(r, f)'
<1>1. /\ cpu = "relink" /\ cpu' = "rehead" /\ next' = [next EXCEPT ![rqLast] = rqHead]
      /\ rqLast' = rqHead
      /\ UNCHANGED <<freed, rqHead, fqHead, fqLast, finishedJobs, job, copy, phase, held>>
  BY DEF Relink, CpuGoto, ListsOnly, finishVars, handlerVars
<1>2. r # <<>> /\ rqHead = r[1] /\ rqLast = LastOf(r)
  BY <1>1 DEF Lists, FirstInHand, ReadyCells, HasJob
<1>3. /\ Chain(next', r) /\ next'[LastOf(r)] = r[1]
      /\ FinishCells(r, f)' /\ HeldCells(r, f)' /\ CopyCell(r, f)' /\ Owned(r, f)'
  BY <1>1, <1>2, HeapRing
<1>4. ReadyCells(r)'
  BY <1>1, <1>2, <1>3 DEF ReadyCells, CpuLocks
<1>5. FirstInHand(r)'
  BY <1>1, <1>2 DEF FirstInHand, HasJob
<1> QED  BY <1>3, <1>4, <1>5 DEF Lists

LEMMA HeapCut ==
  ASSUME TypeInv, NEW r, NEW f, Lists(r, f), Cut
  PROVE  Lists(r, f)'
<1>1. /\ cpu = "cut" /\ cpu' = "ready" /\ next' = [next EXCEPT ![rqLast] = NULL]
      /\ UNCHANGED <<freed, rqHead, rqLast, fqHead, fqLast, finishedJobs, job, copy, phase, held>>
  BY DEF Cut, CpuGoto, ListsOnly, readyVars, finishVars, handlerVars
<1>2. r # <<>> /\ rqHead = r[1] /\ rqLast = LastOf(r)
  BY <1>1 DEF Lists, FirstInHand, ReadyCells, HasJob
<1>3. /\ Chain(next', r) /\ next'[LastOf(r)] = NULL
      /\ FinishCells(r, f)' /\ HeldCells(r, f)' /\ CopyCell(r, f)' /\ Owned(r, f)'
  BY <1>1, <1>2, HeapRing
<1>4. ReadyCells(r)'
  BY <1>1, <1>2, <1>3 DEF ReadyCells, CpuLocks
<1>5. FirstInHand(r)'
  BY <1>1, <1>2 DEF FirstInHand, HasJob
<1> QED  BY <1>3, <1>4, <1>5 DEF Lists

LEMMA HeapRehead ==
  ASSUME TypeInv, NEW r, NEW f, Lists(r, f), Rehead
  PROVE  Lists(Append(Tail(r), r[1]), f)'
<1>1. /\ cpu = "rehead" /\ cpu' = "cut" /\ rqHead' = next[rqHead]
      /\ UNCHANGED <<next, freed, rqLast, fqHead, fqLast, finishedJobs, job, copy, phase, held>>
  BY DEF Rehead, CpuGoto, ListsOnly, heapVars, finishVars, handlerVars
<1>2. /\ r # <<>> /\ rqHead = r[1] /\ rqLast = r[1] /\ Chain(next, r) /\ next[LastOf(r)] = r[1]
  BY <1>1 DEF Lists, FirstInHand, ReadyCells, CpuLocks, HasJob
<1>3. PICK cells : cells = Append(Tail(r), r[1])
  OBVIOUS
<1>4. /\ Chain(next, cells) /\ cells # <<>> /\ Range(cells) = Range(r)
      /\ cells[1] = next[r[1]] /\ LastOf(cells) = r[1]
  BY <1>2, <1>3, RingRotates
<1>5. next[r[1]] = IF CpuLocks' THEN cells[1] ELSE NULL
  BY <1>1, <1>4 DEF CpuLocks
<1>6. ReadyCells(cells)'
  BY <1>1, <1>2, <1>4, <1>5 DEF ReadyCells
<1>7. FinishCells(cells, f)'
  BY <1>1, <1>4 DEF Lists, FinishCells, Appended
<1>8. HeldCells(cells, f)' /\ CopyCell(cells, f)' /\ Owned(cells, f)'
  BY <1>1, <1>4 DEF Lists, HeldCells, CopyCell, Owned
<1>9. FirstInHand(cells)'
  BY <1>1, <1>4 DEF FirstInHand, HasJob
<1> QED  BY <1>3, <1>6, <1>7, <1>8, <1>9 DEF Lists

Quiet == Resume \/ Drained \/ GoOn \/ Pick \/ Execute \/ Verify \/ Stats

LEMMA HeapThinks ==
  ASSUME TypeInv, algorithm # "SJF", NEW r, NEW f, Lists(r, f), Quiet
  PROVE  Lists(r, f)'
<1> USE DEF CpuGoto, ListsOnly, heapVars, readyVars, finishVars, handlerVars
<1>1. Resume \/ Drained \/ GoOn \/ Pick \/ Execute \/ Verify \/ Stats
  BY DEF Quiet
<1>2. UNCHANGED <<next, freed, rqHead, rqLast, fqHead, fqLast, held, copy, phase>>
  BY <1>1 DEF Resume, Drained, GoOn, Pick, Execute, Verify, Stats
<1>3. Appended' = Appended
  <2>1. finishedJobs \in Nat
    BY DEF TypeInv, TypeOK
  <2>2. CASE Stats
    BY <2>1, <2>2 DEF Stats, Appended
  <2>3. CASE Resume \/ Drained \/ GoOn \/ Pick \/ Execute \/ Verify
    <3>1. finishedJobs' = finishedJobs /\ {cpu, cpu'} \cap {"copy", "append"} = {}
      BY <2>3, <1>1 DEF Resume, Drained, GoOn, Pick, Execute, Verify
    <3> QED  BY <3>1 DEF Appended
  <2> QED  BY <1>1, <2>2, <2>3
<1>4. rqHead # NULL => r # <<>> /\ rqHead = r[1]
  BY DEF Lists, ReadyCells
<1>5. /\ {cpu, cpu'} \cap {"append", "search", "rehead", "cut"} = {} /\ cpu' # "unlink"
      /\ cpu' \in HasJob => r # <<>> /\ job' = r[1]
      /\ cpu' = "pick" => r # <<>>
  <2>1. cpu \in HasJob => r # <<>> /\ job = r[1]
    BY DEF Lists, FirstInHand
  <2>2. cpu = "pick" => rqHead # NULL
    BY DEF TypeInv, Pointers
  <2> QED  BY <1>1, <1>4, <2>1, <2>2
           DEF Resume, Drained, GoOn, Pick, Execute, Verify, Stats, HasJob
<1> QED  BY <1>2, <1>3, <1>5, HeapQuiet

-----------------------------------------------------------------------------
(* What Walk and FqCells read from the heap: r and f.                        *)

Trail(link, from) == [k \in 1..Cardinality(Met(link, from)) |-> Path(link, from)[k - 1]]

LEMMA WalkIsTrail == Reached(rqHead) = Met(next, rqHead) /\ Walk(rqHead) = Trail(next, rqHead)
                     /\ Reached(fqHead) = Met(next, fqHead) /\ Walk(fqHead) = Trail(next, fqHead)
BY StepsIsPath DEF Reached, Walk, Met, Trail

LEMMA WalkIsTrailNext ==
  /\ Reached(rqHead)' = Met(next', rqHead') /\ Walk(rqHead)' = Trail(next', rqHead')
  /\ Reached(fqHead)' = Met(next', fqHead') /\ Walk(fqHead)' = Trail(next', fqHead')
BY StepsIsPathNext DEF Reached, Walk, Met, Trail

LEMMA SeqIsFunction ==
  ASSUME NEW cells \in Seq(Addr)
  PROVE  cells = [k \in 1..Len(cells) |-> cells[k]]
OBVIOUS

LEMMA TrailOfChain ==
  ASSUME NEW link, NEW cells, Chain(link, cells), NEW from,
         from = IF cells = <<>> THEN NULL ELSE cells[1],
         cells # <<>> => link[LastOf(cells)] \in {NULL, cells[1]}
  PROVE  Met(link, from) = Range(cells) /\ Trail(link, from) = cells
<1>1. /\ Len(cells) \in Nat /\ Cardinality(Range(cells)) = Len(cells) /\ cells \in Seq(Addr)
      /\ DOMAIN cells = 1..Len(cells)
      /\ cells = <<>> <=> Len(cells) = 0
  BY ChainFits, EmptySeq DEF Chain
<1>2. Met(link, from) = Range(cells)
  <2>1. CASE cells = <<>>
    BY <2>1, NothingMet, EmptyChain
  <2>2. CASE cells # <<>>
    BY <2>2, ChainMet DEF LastOf
  <2> QED  BY <2>1, <2>2
<1>3. \A k \in 1..Len(cells) : Path(link, from)[k - 1] = cells[k]
  <2>1. CASE cells = <<>>
    BY <1>1, <2>1
  <2>2. CASE cells # <<>>
    BY <2>2, PathFollowsChain
  <2> QED  BY <2>1, <2>2
<1>4. Trail(link, from) = [k \in 1..Len(cells) |-> cells[k]]
  BY <1>1, <1>2, <1>3 DEF Trail
<1> QED  BY <1>1, <1>2, <1>4, SeqIsFunction

LEMMA TrailStarts ==
  ASSUME NEW link \in [Addr -> Addr \cup {NULL}], NEW cells, Chain(link, cells), NEW from,
         from = IF cells = <<>> THEN NULL ELSE cells[1]
  PROVE  SubSeq(Trail(link, from), 1, Min({Len(cells), Cardinality(Met(link, from))})) = cells
<1>1. /\ Len(cells) \in Nat /\ cells \in Seq(Addr) /\ DOMAIN cells = 1..Len(cells)
      /\ cells = <<>> <=> Len(cells) = 0
  BY ChainFits, EmptySeq DEF Chain
<1>2. Cardinality(Met(link, from)) \in Nat /\ Len(cells) <= Cardinality(Met(link, from))
  <2>1. CASE cells = <<>>
    BY <1>1, <2>1, NothingMet, FS_EmptySet
  <2>2. CASE cells # <<>>
    BY <2>2, ChainMetFirst
  <2> QED  BY <2>1, <2>2
<1>3. Min({Len(cells), Cardinality(Met(link, from))}) = Len(cells)
  BY <1>1, <1>2 DEF Min
<1>4. \A k \in 1..Len(cells) : Path(link, from)[k - 1] = cells[k]
  <2>1. CASE cells = <<>>
    BY <1>1, <2>1
  <2>2. CASE cells # <<>>
    BY <2>2, PathFollowsChain
  <2> QED  BY <2>1, <2>2
<1>5. \A k \in 1..Len(cells) : Trail(link, from)[k] = cells[k] /\ cells[k] \in Addr
  <2>1. \A k \in 1..Len(cells) : k \in 1..Cardinality(Met(link, from))
    BY <1>1, <1>2
  <2> QED  BY <1>1, <1>4, <2>1 DEF Trail
<1>6. SubSeq(Trail(link, from), 1, Len(cells)) = cells
  <2>1. PICK trail, n : trail = Trail(link, from) /\ n = Len(cells)
    OBVIOUS
  <2>2. 1 \in Int /\ n \in Int /\ n - 1 + 1 = n /\ \A k \in 1..n : trail[k] \in Addr /\ trail[k] = cells[k]
    BY <1>1, <1>5, <2>1
  <2>3. /\ SubSeq(trail, 1, n) \in Seq(Addr)
        /\ Len(SubSeq(trail, 1, n)) = IF 1 <= n THEN n - 1 + 1 ELSE 0
        /\ \A k \in 1..(n - 1 + 1) : SubSeq(trail, 1, n)[k] = trail[1 + k - 1]
    BY <2>2, SubSeqProperties
  <2>4. Len(SubSeq(trail, 1, n)) = n /\ \A k \in 1..n : 1 + k - 1 = k
    BY <1>1, <2>1, <2>3
  <2>5. \A k \in 1..n : SubSeq(trail, 1, n)[k] = cells[k]
    BY <2>2, <2>3, <2>4
  <2>6. SubSeq(trail, 1, n) = [k \in 1..n |-> SubSeq(trail, 1, n)[k]]
    BY <2>3, <2>4, SeqIsFunction
  <2>7. SubSeq(trail, 1, n) = [k \in 1..n |-> cells[k]]
    BY <2>5, <2>6
  <2> QED  BY <1>1, <2>1, <2>7, SeqIsFunction
<1> QED  BY <1>3, <1>6

LEMMA Views ==
  ASSUME TypeInv, NEW r, NEW f, Lists(r, f)
  PROVE  /\ Reached(rqHead) = Range(r) /\ Walk(rqHead) = r /\ FqCells = f
         /\ Range(r) \subseteq Addr /\ Range(f) \subseteq Addr
<1>1. /\ Chain(next, r) /\ Chain(next, f) /\ Len(f) = Appended
      /\ rqHead = IF r = <<>> THEN NULL ELSE r[1]
      /\ fqHead = IF f = <<>> THEN NULL ELSE f[1]
      /\ r # <<>> => next[LastOf(r)] \in {NULL, r[1]}
      /\ next \in [Addr -> Addr \cup {NULL}]
  BY DEF Lists, ReadyCells, FinishCells, TypeInv, TypeOK
<1>2. Reached(rqHead) = Range(r) /\ Walk(rqHead) = r
  BY <1>1, WalkIsTrail, TrailOfChain
<1>3. SubSeq(Trail(next, fqHead), 1, Min({Len(f), Cardinality(Met(next, fqHead))})) = f
  BY <1>1, TrailStarts
<1>4. FqCells = f
  BY <1>1, <1>3, WalkIsTrail DEF FqCells
<1> QED  BY <1>1, <1>2, <1>4, ChainFits DEF Chain

LEMMA ViewsNext ==
  ASSUME TypeInv', NEW r, NEW f, Lists(r, f)'
  PROVE  Walk(rqHead)' = r /\ FqCells' = f
<1>1. /\ Chain(next', r) /\ Chain(next', f) /\ Len(f) = Appended'
      /\ rqHead' = IF r = <<>> THEN NULL ELSE r[1]
      /\ fqHead' = IF f = <<>> THEN NULL ELSE f[1]
      /\ r # <<>> => next'[LastOf(r)] \in {NULL, r[1]}
      /\ next' \in [Addr -> Addr \cup {NULL}]
  BY DEF Lists, ReadyCells, FinishCells, TypeInv, TypeOK
<1>2. Walk(rqHead)' = r
  BY <1>1, WalkIsTrailNext, TrailOfChain
<1>3. SubSeq(Trail(next', fqHead'), 1, Min({Len(f), Cardinality(Met(next', fqHead'))})) = f
  <2>1. PICK link, from : link = next' /\ from = fqHead'
    OBVIOUS
  <2>2. /\ link \in [Addr -> Addr \cup {NULL}] /\ Chain(link, f)
        /\ from = IF f = <<>> THEN NULL ELSE f[1]
    BY <1>1, <2>1
  <2>3. SubSeq(Trail(link, from), 1, Min({Len(f), Cardinality(Met(link, from))})) = f
    BY ONLY <2>2, HeapAssumption, TrailStarts
  <2> QED  BY <2>1, <2>3
<1>4. FqCells' = f
  BY <1>1, <1>3, WalkIsTrailNext DEF FqCells
<1> QED  BY <1>2, <1>4

-----------------------------------------------------------------------------
(* The jobs in the cells, and the two listings.                              *)

\* Each job is in one queue, but for the time between delete's two critical
\* sections, when the finished one is in both.
Contents(r, f) ==
  /\ \A a \in Range(r) \cup Range(f) : pid[a] \in Job /\ phase[pid[a]] = "queued"
  /\ \A a, b \in Range(r) : pid[a] = pid[b] => a = b
  /\ \A a \in Range(r), b \in Range(f) : pid[a] = pid[b] => cpu = "unlink" /\ a = job
  /\ \A j \in Job : held[j] # NULL => pid[held[j]] = j
  /\ cpu = "append" => pid[copy] = pid[job]

\* Only roundRobin puts a job back.
RoundRobin ==
  /\ algorithm \in Algorithms
  /\ cpu \in {"relink", "rehead", "cut"} => algorithm = "RR"
  /\ cpu = "verify" /\ finished = FALSE => algorithm = "RR"

\* A listing begins with no row and has stop set, so that a CPU thread that was
\* away stays away.
Stopped ==
  /\ console \in {"prompt", "queue", "stop"} => rows = <<>>
  /\ console # "prompt" => stop = 1
  /\ console \in {"entry", "entered", "row", "printed"} /\ calm => Calm

Shown(cells) ==
  Len(rows) <= Len(cells) /\ \A k \in 1..Len(rows) : rows[k] = pid[cells[k]]

\* Where a listing that began in a calm moment stands.
Listing(r, f) ==
  calm =>
    /\ console = "entry" => /\ Shown(r)
                            /\ tmp # NULL => Len(rows) < Len(r) /\ tmp = r[Len(rows) + 1]
    /\ console = "entered" => Shown(r) /\ rows # <<>> /\ tmp = r[Len(rows)]
    /\ console = "row" => /\ Shown(f) /\ up
                          /\ Len(rows) < Len(f) => tmp = f[Len(rows) + 1]
    /\ console = "printed" => Shown(f) /\ up /\ rows # <<>> /\ tmp = f[Len(rows)]

QueuesInv ==
  /\ RoundRobin /\ Stopped
  /\ algorithm # "SJF" => \E r, f : Lists(r, f) /\ Contents(r, f) /\ Listing(r, f)

\* The jobs in some cells.
Jobs(p, cells) == [k \in DOMAIN cells |-> p[cells[k]]]

LEMMA JobsOf ==
  ASSUME NEW p \in [Addr -> Job \cup {NULL}], NEW cells \in Seq(Addr)
  PROVE  /\ Jobs(p, cells) \in Seq(Job \cup {NULL})
         /\ Len(Jobs(p, cells)) = Len(cells) /\ Len(cells) \in Nat
         /\ \A k \in 1..Len(cells) : Jobs(p, cells)[k] = p[cells[k]] /\ cells[k] \in Range(cells)
         /\ cells # <<>> => Jobs(p, cells) # <<>> /\ Head(Jobs(p, cells)) = p[cells[1]]
<1>1. /\ Len(cells) \in Nat /\ DOMAIN cells = 1..Len(cells)
      /\ \A k \in 1..Len(cells) : cells[k] \in Addr
  BY LenProperties, ElementOfSeq
<1>2. Jobs(p, cells) = [k \in 1..Len(cells) |-> p[cells[k]]]
  BY <1>1 DEF Jobs
<1>3. \A k \in 1..Len(cells) : p[cells[k]] \in Job \cup {NULL}
  BY <1>1
<1>4. Jobs(p, cells) \in Seq(Job \cup {NULL}) /\ Len(Jobs(p, cells)) = Len(cells)
  BY <1>1, <1>2, <1>3
<1>5. \A k \in 1..Len(cells) : Jobs(p, cells)[k] = p[cells[k]] /\ cells[k] \in Range(cells)
  BY <1>1, <1>2 DEF Range
<1>6. ASSUME cells # <<>>
      PROVE  Jobs(p, cells) # <<>> /\ Head(Jobs(p, cells)) = p[cells[1]]
  <2>1. Len(cells) # 0 /\ 1 \in 1..Len(cells)
    BY <1>1, <1>6, EmptySeq
  <2>2. Jobs(p, cells) # <<>>
    BY <1>4, <2>1, EmptySeq
  <2>3. Jobs(p, cells)[1] = p[cells[1]]
    BY <1>5, <2>1
  <2> QED  BY <1>4, <2>2, <2>3
<1> QED  BY <1>1, <1>4, <1>5, <1>6

LEMMA JobsKept ==
  ASSUME NEW p \in [Addr -> Job \cup {NULL}], NEW q \in [Addr -> Job \cup {NULL}],
         NEW cells \in Seq(Addr), \A a \in Range(cells) : q[a] = p[a]
  PROVE  Jobs(q, cells) = Jobs(p, cells)
BY DEF Jobs, Range

LEMMA JobsAppend ==
  ASSUME NEW p \in [Addr -> Job \cup {NULL}], NEW cells \in Seq(Addr), NEW b \in Addr
  PROVE  Jobs(p, Append(cells, b)) = Append(Jobs(p, cells), p[b])
<1>1. /\ Append(cells, b) \in Seq(Addr) /\ Len(Append(cells, b)) = Len(cells) + 1
      /\ \A k \in 1..Len(cells) : Append(cells, b)[k] = cells[k]
      /\ Append(cells, b)[Len(cells) + 1] = b
  BY AppendProperties
<1> DEFINE longer == Append(cells, b)
           here == Jobs(p, cells)
           there == Jobs(p, longer)
           both == Append(here, p[b])
<1>2. /\ here \in Seq(Job \cup {NULL}) /\ Len(here) = Len(cells) /\ Len(cells) \in Nat
      /\ \A k \in 1..Len(cells) : here[k] = p[cells[k]]
  BY JobsOf
<1>3. /\ there \in Seq(Job \cup {NULL}) /\ Len(there) = Len(cells) + 1
      /\ \A k \in 1..(Len(cells) + 1) : there[k] = p[longer[k]]
  BY <1>1, JobsOf
<1>4. p[b] \in Job \cup {NULL}
  OBVIOUS
<1>5. /\ both \in Seq(Job \cup {NULL}) /\ Len(both) = Len(cells) + 1
      /\ \A k \in 1..Len(cells) : both[k] = here[k]
      /\ both[Len(cells) + 1] = p[b]
  BY <1>2, <1>4, AppendProperties
<1> HIDE DEF longer, here, there, both
<1>6. \A k \in 1..(Len(cells) + 1) : there[k] = both[k]
  BY <1>1, <1>2, <1>3, <1>5 DEF longer
<1>7. there = both
  BY <1>3, <1>5, <1>6, SeqEqual
<1> QED  BY <1>7 DEF longer, here, there, both

LEMMA JobsTail ==
  ASSUME NEW p \in [Addr -> Job \cup {NULL}], NEW cells \in Seq(Addr), cells # <<>>
  PROVE  Jobs(p, Tail(cells)) = Tail(Jobs(p, cells))
<1>1. /\ Tail(cells) \in Seq(Addr) /\ Len(Tail(cells)) = Len(cells) - 1
      /\ \A k \in 1..Len(Tail(cells)) : Tail(cells)[k] = cells[k + 1]
  BY HeadTailProperties
<1> DEFINE rest == Tail(cells)
           here == Jobs(p, cells)
           there == Jobs(p, rest)
           both == Tail(here)
<1>2. /\ here \in Seq(Job \cup {NULL}) /\ Len(here) = Len(cells) /\ Len(cells) \in Nat /\ here # <<>>
      /\ \A k \in 1..Len(cells) : here[k] = p[cells[k]]
  BY JobsOf
<1>3. /\ there \in Seq(Job \cup {NULL}) /\ Len(there) = Len(cells) - 1
      /\ \A k \in 1..(Len(cells) - 1) : there[k] = p[rest[k]]
  BY <1>1, JobsOf
<1>4. /\ both \in Seq(Job \cup {NULL}) /\ Len(both) = Len(cells) - 1
      /\ \A k \in 1..(Len(cells) - 1) : both[k] = here[k + 1]
  BY <1>2, HeadTailProperties
<1> HIDE DEF rest, here, there, both
<1>5. \A k \in 1..(Len(cells) - 1) : there[k] = both[k]
  <2>1. \A k \in 1..(Len(cells) - 1) : k + 1 \in 1..Len(cells)
    BY <1>2
  <2> QED  BY <1>1, <1>2, <1>3, <1>4, <2>1 DEF rest
<1>6. there = both
  BY <1>3, <1>4, <1>5, SeqEqual
<1> QED  BY <1>6 DEF rest, here, there, both

(* Contents, step by step.                                                   *)
LEMMA ContentsKept ==
  ASSUME NEW r, NEW f, NEW cells, Contents(r, f), Range(cells) = Range(r),
         UNCHANGED <<pid, phase, held, copy>>,
         (cpu' = cpu /\ job' = job) \/ (cpu # "unlink" /\ cpu' \notin {"append", "unlink"})
  PROVE  Contents(cells, f)'
BY DEF Contents

LEMMA ContentsInit == Init => Contents(<<>>, <<>>)
BY EmptyChain DEF Init, Contents

LEMMA ContentsAwait ==
  ASSUME TypeInv, NEW r, NEW f, Lists(r, f), Contents(r, f), NEW j \in Job, AwaitGo(j)
  PROVE  Contents(r, f)'
<1>1. /\ phase[j] = "held" /\ phase' = [phase EXCEPT ![j] = "args"] /\ phase \in [Job -> {"held", "args", "link", "queued"}]
      /\ UNCHANGED <<pid, held, cpu, job, copy>>
  BY DEF AwaitGo, heapVars, cpuVars, TypeInv, TypeOK
<1>2. \A k \in Job : phase[k] = "queued" => phase'[k] = "queued"
  BY <1>1
<1> QED  BY <1>1, <1>2 DEF Contents

LEMMA ContentsFill ==
  ASSUME TypeInv, NEW r, NEW f, Lists(r, f), Contents(r, f), NEW j \in Job, Fill(j)
  PROVE  Contents(r, f)' /\ \A a \in Range(r) \cup Range(f) : pid'[a] = pid[a]
<1>1. PICK b \in Addr : /\ b \in freed /\ held' = [held EXCEPT ![j] = b] /\ pid' = [pid EXCEPT ![b] = j]
  BY DEF Fill, Malloc
<1>2. /\ phase[j] = "args" /\ phase' = [phase EXCEPT ![j] = "link"] /\ UNCHANGED <<cpu, job, copy>>
      /\ phase \in [Job -> {"held", "args", "link", "queued"}]
      /\ pid \in [Addr -> Job \cup {NULL}] /\ held \in [Job -> Addr \cup {NULL}]
      /\ copy \in Addr \cup {NULL}
  BY DEF Fill, cpuVars, TypeInv, TypeOK
<1>3. Range(r) \subseteq Addr /\ Range(f) \subseteq Addr
  BY Views
<1>4. b \notin Range(r) \cup Range(f) \cup Range(held) \cup {copy}
  BY <1>1, HeapAssumption DEF Lists, Owned
<1>5. \A a \in Addr : a # b => pid'[a] = pid[a]
  BY <1>1, <1>2
<1>6. \A a \in Range(r) \cup Range(f) : pid'[a] = pid[a]
  BY <1>3, <1>4, <1>5
<1>7. \A k \in Job : phase[k] = "queued" => phase'[k] = "queued"
  BY <1>2
<1>8. \A k \in Job : held'[k] # NULL => pid'[held'[k]] = k
  <2>1. held'[j] = b /\ pid'[b] = j
    BY <1>1, <1>2
  <2>2. ASSUME NEW k \in Job, k # j
        PROVE  held'[k] = held[k] /\ held[k] \in Range(held) /\ held[k] \in Addr \cup {NULL}
    BY <1>1, <1>2, <2>2 DEF Range
  <2> QED  BY <1>4, <1>5, <2>1, <2>2 DEF Contents
<1>9. cpu = "append" => pid'[copy] = pid'[job]
  <2>1. cpu = "append" => copy \in Addr /\ copy # b /\ job \in Range(r)
    <3>1. cpu = "append" => copy # NULL /\ r # <<>> /\ job = r[1] /\ Chain(next, r)
      BY DEF Lists, CopyCell, FirstInHand, ReadyCells, HasJob
    <3> QED  BY <1>2, <1>4, <3>1, ListFacts
  <2> QED  BY <1>3, <1>5, <1>6, <2>1 DEF Contents
<1> QED  BY <1>2, <1>6, <1>7, <1>8, <1>9 DEF Contents

LEMMA ContentsLink ==
  ASSUME TypeInv, NEW r, NEW f, Lists(r, f), Contents(r, f), NEW j \in Job, Link(j), NEW b, b = held[j]
  PROVE  Contents(Append(r, b), f)' /\ b \in Addr /\ r \in Seq(Addr) /\ pid' = pid /\ pid[b] = j
<1>1. /\ phase[j] = "link" /\ phase' = [phase EXCEPT ![j] = "queued"]
      /\ held' = [held EXCEPT ![j] = NULL] /\ UNCHANGED <<pid, cpu, job, copy>>
      /\ phase \in [Job -> {"held", "args", "link", "queued"}]
      /\ held \in [Job -> Addr \cup {NULL}]
  BY DEF Link, cpuVars, TypeInv, TypeOK
<1>2. b \in Addr /\ b \notin Range(r) \cup Range(f) \cup {copy} /\ pid[b] = j
  BY <1>1 DEF Lists, HeldCells, Contents
<1>3. r \in Seq(Addr) /\ IsInjective(r)
  BY DEF Lists, ReadyCells, Chain
<1>4. Range(Append(r, b)) = Range(r) \cup {b}
  <2>1. /\ Append(r, b) \in Seq(Addr) /\ Len(Append(r, b)) = Len(r) + 1 /\ Len(r) \in Nat
        /\ \A k \in 1..Len(r) : Append(r, b)[k] = r[k]
        /\ Append(r, b)[Len(r) + 1] = b
        /\ DOMAIN r = 1..Len(r)
    BY <1>2, <1>3, AppendProperties, LenProperties
  <2>2. DOMAIN Append(r, b) = 1..(Len(r) + 1) /\ \A k \in 1..(Len(r) + 1) : k \in 1..Len(r) \/ k = Len(r) + 1
    BY <2>1, LenProperties
  <2>3. \A k \in 1..Len(r) : k \in 1..(Len(r) + 1)
    BY <2>1
  <2>4. Len(r) + 1 \in 1..(Len(r) + 1)
    BY <2>1
  <2> QED  BY <2>1, <2>2, <2>3, <2>4 DEF Range
<1>5. \A k \in Job : (phase[k] = "queued" => phase'[k] = "queued") /\ phase'[j] = "queued" /\ phase[j] # "queued"
  BY <1>1
<1>6. PICK cells : cells = Append(r, b)
  OBVIOUS
<1>7. \A a \in Range(r) \cup Range(f) : pid[a] # j
  BY <1>5 DEF Contents
<1>8. Contents(cells, f)'
  <2>1. \A a \in Range(cells) \cup Range(f) : pid'[a] \in Job /\ phase'[pid'[a]] = "queued"
    BY <1>1, <1>2, <1>4, <1>5, <1>6 DEF Contents
  <2>2. \A a, c \in Range(cells) : pid[a] = pid[c] => a = c
    BY <1>2, <1>4, <1>6, <1>7 DEF Contents
  <2>3. \A a \in Range(cells), c \in Range(f) : pid[a] = pid[c] => cpu = "unlink" /\ a = job
    BY <1>2, <1>4, <1>6, <1>7 DEF Contents
  <2>4. \A k \in Job : held'[k] # NULL => pid[held'[k]] = k
    BY <1>1 DEF Contents
  <2> QED  BY <1>1, <2>1, <2>2, <2>3, <2>4 DEF Contents
<1> QED  BY <1>1, <1>2, <1>3, <1>6, <1>8

LEMMA ContentsCopy ==
  ASSUME TypeInv, NEW r, NEW f, Lists(r, f), Contents(r, f), Copy
  PROVE  Contents(r, f)' /\ \A a \in Range(r) \cup Range(f) : pid'[a] = pid[a]
<1>1. PICK b \in Addr : b \in freed /\ copy' = b /\ pid' = [pid EXCEPT ![b] = pid[job]]
  BY DEF Copy, Malloc
<1>2. /\ cpu = "copy" /\ cpu' = "append" /\ UNCHANGED <<job, phase, held>>
      /\ pid \in [Addr -> Job \cup {NULL}] /\ held \in [Job -> Addr \cup {NULL}]
  BY DEF Copy, CpuGoto, ListsOnly, handlerVars, TypeInv, TypeOK
<1>3. Range(r) \subseteq Addr /\ Range(f) \subseteq Addr
  BY Views
<1>4. b \notin Range(r) \cup Range(f) \cup Range(held)
  BY <1>1, HeapAssumption DEF Lists, Owned
<1>5. \A a \in Addr : a # b => pid'[a] = pid[a]
  BY <1>1, <1>2
<1>6. \A a \in Range(r) \cup Range(f) : pid'[a] = pid[a]
  BY <1>3, <1>4, <1>5
<1>7. \A k \in Job : held[k] # NULL => pid'[held[k]] = k
  <2>1. \A k \in Job : held[k] \in Range(held) /\ held[k] \in Addr \cup {NULL}
    BY <1>2 DEF Range
  <2> QED  BY <1>4, <1>5, <2>1 DEF Contents
<1>8. pid'[b] = pid[job] /\ pid'[job] = pid[job]
  <2>1. r # <<>> /\ job = r[1] /\ Chain(next, r)
    BY <1>2 DEF Lists, FirstInHand, ReadyCells, HasJob
  <2>2. job \in Range(r)
    BY <2>1, ListFacts
  <2> QED  BY <1>1, <1>2, <1>6, <2>2
<1> QED  BY <1>1, <1>2, <1>6, <1>7, <1>8 DEF Contents

LEMMA ContentsAppend ==
  ASSUME TypeInv, NEW r, NEW f, Lists(r, f), Contents(r, f), DeleteAppend, NEW b, b = copy
  PROVE  /\ Contents(r, Append(f, b))'
         /\ b \in Addr /\ f \in Seq(Addr) /\ pid' = pid /\ pid[b] = pid[job]
         /\ r \in Seq(Addr) /\ r # <<>> /\ job = r[1]
<1>1. /\ cpu = "append" /\ cpu' = "unlink" /\ copy' = NULL /\ UNCHANGED <<pid, job, phase, held>>
      /\ copy \in Addr \cup {NULL}
  BY DEF DeleteAppend, CpuGoto, ListsOnly, handlerVars, TypeInv, TypeOK
<1>2. /\ r # <<>> /\ job = r[1] /\ copy # NULL /\ Chain(next, r) /\ Chain(next, f)
  BY <1>1 DEF Lists, FirstInHand, CopyCell, ReadyCells, FinishCells, HasJob
<1>3. job \in Range(r) /\ f \in Seq(Addr) /\ r \in Seq(Addr) /\ b \in Addr
  BY <1>1, <1>2, ListFacts DEF Chain
<1>4. pid[b] = pid[job]
  BY <1>1 DEF Contents
<1>5. PICK cells : cells = Append(f, b)
  OBVIOUS
<1>6. Range(cells) = Range(f) \cup {b}
  <2>1. /\ Append(f, b) \in Seq(Addr) /\ Len(Append(f, b)) = Len(f) + 1 /\ Len(f) \in Nat
        /\ \A k \in 1..Len(f) : Append(f, b)[k] = f[k]
        /\ Append(f, b)[Len(f) + 1] = b
        /\ DOMAIN f = 1..Len(f)
    BY <1>3, AppendProperties, LenProperties
  <2>2. DOMAIN Append(f, b) = 1..(Len(f) + 1) /\ \A k \in 1..(Len(f) + 1) : k \in 1..Len(f) \/ k = Len(f) + 1
    BY <2>1, LenProperties
  <2>3. \A k \in 1..Len(f) : k \in 1..(Len(f) + 1)
    BY <2>1
  <2>4. Len(f) + 1 \in 1..(Len(f) + 1)
    BY <2>1
  <2> QED  BY <1>5, <2>1, <2>2, <2>3, <2>4 DEF Range
<1>7. Contents(r, cells)'
  BY <1>1, <1>3, <1>4, <1>6 DEF Contents
<1> QED  BY <1>1, <1>2, <1>3, <1>4, <1>5, <1>7

LEMMA ContentsUnlink ==
  ASSUME TypeInv, NEW r, NEW f, Lists(r, f), Contents(r, f), DeleteFirst
  PROVE  /\ Contents(Tail(r), f)'
         /\ r \in Seq(Addr) /\ f \in Seq(Addr) /\ r # <<>>
         /\ \A a \in Range(Tail(r)) \cup Range(f) : pid'[a] = pid[a]
<1>1. /\ cpu = "unlink" /\ cpu' = "ready" /\ pid' = [pid EXCEPT ![job] = NULL]
      /\ UNCHANGED <<job, phase, held, copy>>
      /\ pid \in [Addr -> Job \cup {NULL}] /\ held \in [Job -> Addr \cup {NULL}]
  BY DEF DeleteFirst, CpuGoto, ListsOnly, Free, handlerVars, TypeInv, TypeOK
<1>2. r # <<>> /\ job = r[1] /\ Chain(next, r) /\ Chain(next, f) /\ Range(r) \cap Range(f) = {}
  BY <1>1 DEF Lists, FirstInHand, ReadyCells, FinishCells, Owned, HasJob
<1>3. /\ Range(Tail(r)) = Range(r) \ {job} /\ job \in Range(r)
      /\ Range(r) \subseteq Addr /\ Range(f) \subseteq Addr
  BY <1>2, ChainTail, ChainFits DEF Chain
<1>4. \A a \in Addr : a # job => pid'[a] = pid[a]
  BY <1>1
<1>5. \A a \in Range(Tail(r)) \cup Range(f) : a # job /\ pid'[a] = pid[a]
  BY <1>2, <1>3, <1>4
<1>6. \A k \in Job : held[k] # NULL => pid'[held[k]] = k
  <2>1. \A k \in Job : held[k] # NULL => held[k] \in Addr /\ held[k] # job
    BY <1>1, <1>3 DEF Lists, HeldCells
  <2> QED  BY <1>4, <2>1 DEF Contents
<1>7. PICK cells : cells = Tail(r)
  OBVIOUS
<1>8. Contents(cells, f)'
  BY <1>1, <1>3, <1>5, <1>6, <1>7 DEF Contents
<1> QED  BY <1>2, <1>5, <1>7, <1>8 DEF Chain

(* The listings, step by step.                                               *)
LEMMA StoppedInit == Init => Stopped
BY DEF Init, Stopped

LEMMA StoppedStep == TypeInv /\ Stopped /\ [Next]_vars => Stopped'
<1> SUFFICES ASSUME TypeInv, Stopped, [Next]_vars
             PROVE  Stopped'
  OBVIOUS
<1>1. CASE UNCHANGED vars
  BY <1>1 DEF vars, consoleVars, cpuVars, Stopped, Calm
<1>2. CASE window_thread
  <2>1. cpu' = cpu
    BY <1>2 DEF window_thread, SetStop, QueueCommand, QueueBegin, QueueEntry, QueueNext, QueueEnd,
       StopCommand, TableBegin, TableRow, TableNext, TableEnd, Prompt, ServerOnly, cpuVars
  <2>2. Calm' = Calm
    BY <2>1 DEF Calm
  <2>3. CASE Prompt
    BY <2>3 DEF Prompt, Stopped
  <2>4. CASE SetStop \/ QueueCommand \/ StopCommand
    BY <2>4 DEF SetStop, QueueCommand, StopCommand, Stopped
  <2>5. CASE QueueBegin \/ QueueEntry \/ QueueNext
    BY <2>2, <2>5 DEF QueueBegin, QueueEntry, QueueNext, Stopped
  <2>6. CASE TableBegin \/ TableRow \/ TableNext
    BY <2>2, <2>3, <2>6 DEF TableBegin, TableRow, TableNext, Stopped
  <2> QED  BY <1>2, <2>3, <2>4, <2>5, <2>6 DEF window_thread, QueueEnd, TableEnd
<1>3. ASSUME UNCHANGED consoleVars, Calm /\ stop = 1 => Calm'
      PROVE  Stopped'
  BY <1>3 DEF consoleVars, Stopped
<1>4. CASE Cpu
  <2>1. UNCHANGED consoleVars
    BY <1>4 DEF Cpu, Resume, Drained, GoOn, Pick, Execute, Verify, Stats, Copy, DeleteAppend,
       DeleteFirst, DeleteOther, DeleteSearch, Relink, Rehead, Cut, ListsOnly
  <2>2. Calm /\ stop = 1 => Calm'
    BY <1>4 DEF Cpu, CpuGoto, Resume, Drained, GoOn, Pick, Execute, Verify, Stats, Copy, DeleteAppend,
       DeleteFirst, DeleteOther, DeleteSearch, Relink, Rehead, Cut, Calm
  <2> QED  BY <1>3, <2>1, <2>2
<1>5. ASSUME NEW j \in Job, handle_connection(j)
      PROVE  Stopped'
  <2>1. UNCHANGED <<consoleVars, cpu>>
    BY <1>5 DEF handle_connection, AwaitGo, Fill, Link, cpuVars
  <2> QED  BY <1>3, <2>1 DEF Calm
<1> QED  BY <1>1, <1>2, <1>4, <1>5 DEF Next

LEMMA RoundRobinInit == Init => RoundRobin
BY DEF Init, RoundRobin

LEMMA RoundRobinStep == TypeInv /\ RoundRobin /\ [Next]_vars => RoundRobin'
<1> SUFFICES ASSUME TypeInv, RoundRobin, [Next]_vars
             PROVE  RoundRobin'
  OBVIOUS
<1>1. algorithm' = algorithm
  BY DEF Next, vars
<1>2. ASSUME UNCHANGED <<cpu, finished>>
      PROVE  RoundRobin'
  BY <1>1, <1>2 DEF RoundRobin
<1>3. CASE UNCHANGED vars
  BY <1>2, <1>3 DEF vars, cpuVars
<1>4. CASE window_thread
  BY <1>2, <1>4 DEF window_thread, SetStop, QueueCommand, QueueBegin, QueueEntry, QueueNext, QueueEnd,
     StopCommand, TableBegin, TableRow, TableNext, TableEnd, Prompt, ServerOnly, cpuVars
<1>5. CASE \E j \in Job : handle_connection(j)
  BY <1>2, <1>5 DEF handle_connection, AwaitGo, Fill, Link, cpuVars
<1>6. CASE Cpu
  <2>1. CASE Execute
    BY <1>1, <2>1 DEF Execute, CpuGoto, RoundRobin
  <2>2. CASE Verify
    <3>1. finished \in BOOLEAN
      BY DEF TypeInv, TypeOK
    <3> QED  BY <1>1, <2>2, <3>1 DEF Verify, RoundRobin
  <2>3. CASE Cpu /\ ~Execute /\ ~Verify
    BY <1>1, <2>3 DEF Cpu, CpuGoto, Resume, Drained, GoOn, Pick, Stats, Copy, DeleteAppend,
       DeleteFirst, DeleteOther, DeleteSearch, Relink, Rehead, Cut, RoundRobin
  <2> QED  BY <1>6, <2>1, <2>2, <2>3
<1> QED  BY <1>3, <1>4, <1>5, <1>6 DEF Next

\* cells begins with r: insert may have added one.
LEMMA ListingKept ==
  ASSUME TypeInv, NEW r, NEW f, Lists(r, f), Listing(r, f), UNCHANGED consoleVars,
         NEW cells, Len(cells) \in Nat, Len(r) <= Len(cells), \A k \in 1..Len(r) : cells[k] = r[k],
         \A a \in Range(r) \cup Range(f) : pid'[a] = pid[a]
  PROVE  Listing(cells, f)'
<1>1. /\ Len(r) \in Nat /\ \A k \in 1..Len(r) : r[k] \in Range(r)
      /\ Len(f) \in Nat /\ \A k \in 1..Len(f) : f[k] \in Range(f)
  BY ChainFits DEF Lists, ReadyCells, FinishCells, Chain
<1>2. rows \in Seq(Job \cup {NULL}) /\ Len(rows) \in Nat /\ (rows = <<>> <=> Len(rows) = 0)
  BY LenProperties, EmptySeq DEF TypeInv, TypeOK
<1>3. Shown(r) => Shown(cells)'
  BY <1>1, <1>2 DEF Shown, consoleVars
<1>4. Shown(f) => Shown(f)'
  BY <1>1, <1>2 DEF Shown, consoleVars
<1>5. Shown(r) => \A k \in 1..Len(r) : cells[k] = r[k] /\ k \in 1..Len(cells)
  BY <1>1
<1>6. Shown(r) /\ rows # <<>> => cells[Len(rows)] = r[Len(rows)]
  <2>1. Shown(r) /\ rows # <<>> => Len(rows) \in 1..Len(r)
    BY <1>1, <1>2 DEF Shown
  <2> QED  BY <2>1
<1>7. Len(rows) < Len(r) => Len(rows) < Len(cells) /\ cells[Len(rows) + 1] = r[Len(rows) + 1]
  <2>1. Len(rows) < Len(r) => Len(rows) + 1 \in 1..Len(r)
    BY <1>1, <1>2
  <2> QED  BY <1>1, <1>2, <2>1
<1> QED  BY <1>3, <1>4, <1>6, <1>7 DEF Listing, consoleVars

LEMMA ListingOver ==
  ASSUME Stopped, ~Calm, UNCHANGED consoleVars, NEW r, NEW f
  PROVE  Listing(r, f)'
BY DEF Stopped, Listing, consoleVars

LEMMA ListingConsole ==
  ASSUME TypeInv, Stopped, NEW r, NEW f, Lists(r, f), Listing(r, f), up, window_thread
  PROVE  Listing(r, f)'
<1>1. /\ Len(r) \in Nat /\ \A k \in 1..Len(r) : r[k] \in Addr
      /\ Len(f) \in Nat /\ \A k \in 1..Len(f) : f[k] \in Addr
      /\ \A k \in 1..(Len(r) - 1) : next[r[k]] = r[k + 1]
      /\ \A k \in 1..(Len(f) - 1) : next[f[k]] = f[k + 1]
      /\ rqHead = IF r = <<>> THEN NULL ELSE r[1]
      /\ fqHead = IF f = <<>> THEN NULL ELSE f[1]
      /\ r = <<>> <=> Len(r) = 0
      /\ f = <<>> <=> Len(f) = 0
      /\ r # <<>> => next[r[Len(r)]] = NULL \/ CpuLocks
      /\ Calm => Len(f) = finishedJobs
  <2>1. r \in Seq(Addr) /\ f \in Seq(Addr)
    BY DEF Lists, ReadyCells, FinishCells, Chain
  <2>2. finishedJobs \in Nat
    BY DEF TypeInv, TypeOK
  <2>3. Calm => Appended = finishedJobs
    BY <2>2 DEF Calm, Appended
  <2>4. /\ Len(r) \in Nat /\ \A k \in 1..Len(r) : r[k] \in Addr
        /\ Len(f) \in Nat /\ \A k \in 1..Len(f) : f[k] \in Addr
        /\ r = <<>> <=> Len(r) = 0
        /\ f = <<>> <=> Len(f) = 0
    BY <2>1, LenProperties, ElementOfSeq, EmptySeq
  <2> QED  BY <2>3, <2>4 DEF Lists, ReadyCells, FinishCells, Chain, LastOf
<1>2. /\ rows \in Seq(Job \cup {NULL}) /\ Len(rows) \in Nat /\ (rows = <<>> <=> Len(rows) = 0)
      /\ \A a \in Addr : pid[a] \in Job \cup {NULL}
  BY LenProperties, EmptySeq DEF TypeInv, TypeOK
<1>3. UNCHANGED <<pid, next, rqHead, fqHead, cpu>>
  BY DEF window_thread, SetStop, QueueCommand, QueueBegin, QueueEntry, QueueNext, QueueEnd, StopCommand,
     TableBegin, TableRow, TableNext, TableEnd, Prompt, ServerOnly, heapVars, readyVars, finishVars, cpuVars
<1>4. Calm => ~CpuLocks
  BY DEF Calm, CpuLocks
<1>5. CASE Prompt
  BY <1>5 DEF Prompt, Listing
<1>6. CASE SetStop \/ QueueCommand \/ StopCommand
  BY <1>6 DEF SetStop, QueueCommand, StopCommand, Listing
<1>7. CASE QueueBegin
  <2>1. rows = <<>> /\ rows' = rows /\ console' = "entry" /\ tmp' = rqHead
    BY <1>7 DEF QueueBegin, Stopped
  <2>2. Shown(r)'
    BY <1>1, <1>2, <2>1 DEF Shown
  <2>3. tmp' # NULL => Len(rows') < Len(r) /\ tmp' = r[Len(rows') + 1]
    <3>1. Len(rows') = 0 /\ 0 + 1 = 1
      BY <1>2, <2>1
    <3> QED  BY <1>1, <2>1, <3>1
  <2> QED  BY <2>1, <2>2, <2>3 DEF Listing
<1>8. CASE TableBegin /\ finishedJobs # 0
  <2>1. /\ rows = <<>> /\ rows' = rows /\ console' = "row" /\ tmp' = fqHead /\ calm' = Calm /\ up' = up
    BY <1>8 DEF TableBegin, Stopped
  <2>2. Shown(f)'
    BY <1>1, <1>2, <2>1 DEF Shown
  <2>3. Len(rows') < Len(f) => tmp' = f[Len(rows') + 1]
    <3>1. Len(rows') = 0 /\ 0 + 1 = 1
      BY <1>2, <2>1
    <3> QED  BY <1>1, <2>1, <3>1
  <2> QED  BY <2>1, <2>2, <2>3 DEF Listing
<1>9. ASSUME NEW cells, Shown(cells), Len(cells) \in Nat, \A k \in 1..Len(cells) : cells[k] \in Addr,
             Len(rows) < Len(cells), tmp = cells[Len(rows) + 1], rows' = Append(rows, pid[tmp])
      PROVE  Shown(cells)' /\ rows' # <<>> /\ tmp = cells[Len(rows')]
  <2>1. Len(rows) + 1 \in 1..Len(cells)
    BY <1>2, <1>9
  <2>2. tmp \in Addr /\ pid[tmp] \in Job \cup {NULL}
    BY <1>2, <1>9, <2>1
  <2>3. /\ Len(rows') = Len(rows) + 1 /\ rows' # <<>>
        /\ \A k \in 1..Len(rows) : rows'[k] = rows[k]
        /\ rows'[Len(rows) + 1] = pid[tmp]
    BY <1>2, <1>9, <2>2, AppendProperties
  <2>4. \A k \in 1..Len(rows') : rows'[k] = pid[cells[k]]
    <3>1. \A k \in 1..Len(rows') : k \in 1..Len(rows) \/ k = Len(rows) + 1
      BY <1>2, <2>3
    <3> QED  BY <1>9, <2>3, <3>1 DEF Shown
  <2>5. Len(rows') <= Len(cells)
    BY <1>2, <1>9, <2>3
  <2> QED  BY <1>3, <1>9, <2>3, <2>4, <2>5 DEF Shown
<1>10. CASE QueueEntry
  <2>1. console = "entry" /\ console' = "entered" /\ tmp # NULL /\ rows' = Append(rows, pid[tmp])
        /\ UNCHANGED <<tmp, calm>>
    BY <1>10 DEF QueueEntry
  <2>2. calm => Shown(r) /\ Len(rows) < Len(r) /\ tmp = r[Len(rows) + 1]
    BY <2>1 DEF Listing
  <2>3. calm => Shown(r)' /\ rows' # <<>> /\ tmp = r[Len(rows')]
    BY <1>1, <1>9, <2>1, <2>2
  <2> QED  BY <2>1, <2>3 DEF Listing
<1>11. CASE TableRow
  <2>1. console = "row" /\ console' = "printed" /\ Len(rows) # finishedJobs /\ UNCHANGED <<tmp, calm>>
    BY <1>11 DEF TableRow
  <2>2. calm => /\ Shown(f) /\ up /\ Calm /\ Len(f) = finishedJobs
                /\ Len(rows) < Len(f) => tmp = f[Len(rows) + 1]
    BY <1>1, <2>1 DEF Listing, Stopped
  <2>3. calm => Len(rows) < Len(f) /\ Len(rows) + 1 \in 1..Len(f)
    BY <1>1, <1>2, <2>1, <2>2 DEF Shown
  <2>4. calm => tmp \in Addr
    BY <1>1, <2>2, <2>3
  <2>5. calm => rows' = Append(rows, pid[tmp]) /\ up' = up
    BY <1>11, <2>4, HeapAssumption DEF TableRow
  <2>6. calm => Shown(f)' /\ rows' # <<>> /\ tmp = f[Len(rows')]
    BY <1>1, <1>9, <2>2, <2>3, <2>5
  <2> QED  BY <2>1, <2>2, <2>5, <2>6 DEF Listing
<1>12. ASSUME NEW cells, Shown(cells), Len(cells) \in Nat, rows # <<>>,
              \A k \in 1..(Len(cells) - 1) : next[cells[k]] = cells[k + 1], tmp = cells[Len(rows)],
              tmp' = next[tmp], rows' = rows
       PROVE  Shown(cells)' /\ (Len(rows') < Len(cells) => tmp' = cells[Len(rows') + 1])
  <2>1. Len(rows) < Len(cells) => Len(rows) \in 1..(Len(cells) - 1)
    BY <1>2, <1>12
  <2> QED  BY <1>3, <1>12, <2>1 DEF Shown
<1>13. CASE QueueNext
  <2>1. console = "entered" /\ console' = "entry" /\ tmp' = next[tmp] /\ UNCHANGED <<rows, calm>>
    BY <1>13 DEF QueueNext
  <2>2. calm => Shown(r) /\ rows # <<>> /\ tmp = r[Len(rows)] /\ Calm
    BY <2>1 DEF Listing, Stopped
  <2>3. calm => Shown(r)' /\ (Len(rows') < Len(r) => tmp' = r[Len(rows') + 1])
    BY <1>1, <1>12, <2>1, <2>2
  <2>4. calm /\ tmp' # NULL => Len(rows') < Len(r)
    <3>1. calm /\ Len(rows) = Len(r) => tmp' = NULL
      BY <1>1, <1>2, <1>4, <2>1, <2>2
    <3>2. calm => Len(rows) <= Len(r)
      BY <2>2 DEF Shown
    <3> QED  BY <1>1, <1>2, <2>1, <3>1, <3>2
  <2> QED  BY <2>1, <2>3, <2>4 DEF Listing
<1>14. CASE TableNext
  <2>1. console = "printed" /\ console' = "row" /\ tmp' = next[tmp] /\ UNCHANGED <<rows, calm, up>>
    BY <1>14 DEF TableNext
  <2>2. calm => Shown(f) /\ up /\ rows # <<>> /\ tmp = f[Len(rows)]
    BY <2>1 DEF Listing
  <2>3. calm => Shown(f)' /\ (Len(rows') < Len(f) => tmp' = f[Len(rows') + 1])
    BY <1>1, <1>12, <2>1, <2>2
  <2> QED  BY <2>1, <2>2, <2>3 DEF Listing
<1> QED  BY <1>5, <1>6, <1>7, <1>8, <1>10, <1>11, <1>13, <1>14 DEF window_thread, QueueEnd, TableEnd, TableBegin

-----------------------------------------------------------------------------
(* The queue of jobs that the cells implement.                               *)

\* What "ready" of the abstract queue stands for.
ReadyJobs(p, cells, at) ==
  IF at = "unlink" THEN Tail(Jobs(p, cells)) ELSE
  IF at = "rehead" THEN Append(Tail(Jobs(p, cells)), p[cells[1]])
  ELSE Jobs(p, cells)

Queued == {j \in Job : phase[j] = "queued"}

\* One step of the abstract queue, or none, in terms of the cells before and after.
Effect(r, f, cells, done) ==
  LET ready == ReadyJobs(pid, r, cpu)
      ready2 == ReadyJobs(pid', cells, cpu')
      finish == Jobs(pid, f)
      finish2 == Jobs(pid', done)
  IN  \/ Queued' = Queued /\ ready2 = ready /\ finish2 = finish
      \/ /\ \E j \in Job \ Queued : Queued' = Queued \cup {j} /\ ready2 = Append(ready, j)
         /\ finish2 = finish
      \/ /\ ready # <<>> /\ finish2 = Append(finish, Head(ready)) /\ ready2 = Tail(ready)
         /\ Queued' = Queued
      \/ /\ algorithm = "RR" /\ ready # <<>> /\ ready2 = Append(Tail(ready), Head(ready))
         /\ Queued' = Queued /\ finish2 = finish

\* A step of the whole: the cells move on, and with them the jobs and the listings.
Moves(r, f, cells, done) ==
  Lists(cells, done)' /\ Contents(cells, done)' /\ Listing(cells, done)' /\ Effect(r, f, cells, done)

LEMMA CellsType ==
  ASSUME TypeInv, NEW r, NEW f, Lists(r, f)
  PROVE  /\ r \in Seq(Addr) /\ f \in Seq(Addr) /\ Len(r) \in Nat
         /\ pid \in [Addr -> Job \cup {NULL}]
BY LenProperties DEF Lists, ReadyCells, FinishCells, Chain, TypeInv, TypeOK

(* A step that leaves the cells where they are and the jobs in them.         *)
LEMMA MovesNothing ==
  ASSUME TypeInv, TypeInv', NEW r, NEW f, Lists(r, f), Listing(r, f)', Lists(r, f)', Contents(r, f)',
         Queued' = Queued, \A a \in Range(r) \cup Range(f) : pid'[a] = pid[a],
         cpu' = cpu \/ {cpu, cpu'} \cap {"unlink", "rehead"} = {}
  PROVE  Moves(r, f, r, f)
<1>1. /\ r \in Seq(Addr) /\ f \in Seq(Addr)
      /\ pid \in [Addr -> Job \cup {NULL}] /\ pid' \in [Addr -> Job \cup {NULL}]
  BY CellsType DEF TypeInv, TypeOK
<1>2. Jobs(pid', r) = Jobs(pid, r) /\ Jobs(pid', f) = Jobs(pid, f)
  BY <1>1, JobsKept
<1>3. cpu = "rehead" => pid'[r[1]] = pid[r[1]]
  <2>1. cpu = "rehead" => r # <<>> /\ Chain(next, r)
    BY DEF Lists, FirstInHand, ReadyCells
  <2> QED  BY <2>1, ListFacts
<1>4. ReadyJobs(pid', r, cpu') = ReadyJobs(pid, r, cpu)
  BY <1>2, <1>3 DEF ReadyJobs
<1> QED  BY <1>2, <1>4 DEF Moves, Effect

LEMMA MovesConsole ==
  ASSUME TypeInv, TypeInv', Stopped, NEW r, NEW f, Lists(r, f), Contents(r, f), Listing(r, f),
         up, window_thread
  PROVE  Moves(r, f, r, f)
<1>1. UNCHANGED <<heapVars, readyVars, finishVars, handlerVars, cpuVars>>
  BY DEF window_thread, SetStop, QueueCommand, QueueBegin, QueueEntry, QueueNext, QueueEnd,
     StopCommand, TableBegin, TableRow, TableNext, TableEnd, Prompt, ServerOnly
<1>2. Lists(r, f)'
  BY <1>1, HeapQuiet DEF heapVars, readyVars, finishVars, handlerVars, cpuVars, Appended
<1>3. Contents(r, f)'
  <2>1. UNCHANGED <<pid, phase, held, copy>> /\ cpu' = cpu /\ job' = job
    BY <1>1 DEF heapVars, handlerVars, cpuVars
  <2> QED  BY <2>1, ContentsKept
<1>4. Queued' = Queued /\ pid' = pid /\ cpu' = cpu
  BY <1>1 DEF Queued, heapVars, handlerVars, cpuVars
<1>5. Listing(r, f)'
  BY ListingConsole
<1> QED  BY <1>2, <1>3, <1>4, <1>5, MovesNothing

LEMMA MovesHandler ==
  ASSUME TypeInv, TypeInv', NEW r, NEW f, Lists(r, f), Contents(r, f), Listing(r, f),
         NEW j \in Job, handle_connection(j)
  PROVE  \E cells, done : Moves(r, f, cells, done)
<1>1. UNCHANGED <<consoleVars, cpuVars>>
  BY DEF handle_connection, AwaitGo, Fill, Link
<1>2. /\ r \in Seq(Addr) /\ f \in Seq(Addr) /\ Len(r) \in Nat
      /\ pid \in [Addr -> Job \cup {NULL}]
      /\ phase \in [Job -> {"held", "args", "link", "queued"}]
  BY CellsType DEF TypeInv, TypeOK
<1>3. CASE AwaitGo(j)
  <2>1. /\ UNCHANGED <<heapVars, readyVars, finishVars, held, cpuVars>>
        /\ \A k \in Job : phase'[k] = "link" <=> phase[k] = "link"
        /\ \A k \in Job : phase'[k] = "queued" <=> phase[k] = "queued"
    BY <1>2, <1>3 DEF AwaitGo
  <2>2. Lists(r, f)'
    BY <2>1, HeapQuiet DEF heapVars, readyVars, finishVars, cpuVars, Appended
  <2>3. Contents(r, f)'
    BY <1>3, ContentsAwait
  <2>4. Queued' = Queued /\ pid' = pid /\ cpu' = cpu
    BY <2>1 DEF Queued, heapVars, cpuVars
  <2>5. Listing(r, f)'
    BY <1>1, <1>2, <2>4, ListingKept
  <2>6. Moves(r, f, r, f)
    BY <2>2, <2>3, <2>4, <2>5, MovesNothing
  <2> QED  BY <2>6
<1>4. CASE Fill(j)
  <2>1. Lists(r, f)'
    BY <1>4, HeapFill
  <2>2. Contents(r, f)' /\ \A a \in Range(r) \cup Range(f) : pid'[a] = pid[a]
    BY <1>4, ContentsFill
  <2>3. Queued' = Queued /\ cpu' = cpu
    BY <1>1, <1>2, <1>4 DEF Fill, Queued, cpuVars
  <2>4. Listing(r, f)'
    BY <1>1, <1>2, <2>2, ListingKept
  <2>5. Moves(r, f, r, f)
    BY <2>1, <2>2, <2>3, <2>4, MovesNothing
  <2> QED  BY <2>5
<1>5. CASE Link(j)
  <2>1. PICK b : b = held[j]
    OBVIOUS
  <2>2. PICK cells : cells = Append(r, b)
    OBVIOUS
  <2>3. Lists(cells, f)'
    BY <1>5, <2>1, <2>2, HeapLink
  <2>4. Contents(cells, f)' /\ b \in Addr /\ pid' = pid /\ pid[b] = j
    BY <1>5, <2>1, <2>2, ContentsLink
  <2>5. /\ Len(cells) \in Nat /\ Len(r) <= Len(cells) /\ \A k \in 1..Len(r) : cells[k] = r[k]
        /\ cells # <<>> /\ (r # <<>> => cells[1] = r[1])
    <3>1. /\ Len(cells) = Len(r) + 1 /\ \A k \in 1..Len(r) : cells[k] = r[k]
          /\ cells # <<>> /\ (r # <<>> => 1 \in 1..Len(r))
      BY <1>2, <2>2, <2>4, AppendProperties, EmptySeq
    <3> QED  BY <1>2, <3>1
  <2>6. Listing(cells, f)'
    BY <1>1, <1>2, <2>4, <2>5, ListingKept
  <2>7. j \notin Queued /\ Queued' = Queued \cup {j}
    BY <1>2, <1>5 DEF Link, Queued
  <2>8. Jobs(pid, cells) = Append(Jobs(pid, r), j) /\ Jobs(pid, r) \in Seq(Job \cup {NULL})
    BY <1>2, <2>2, <2>4, JobsAppend, JobsOf
  <2>9. ReadyJobs(pid', cells, cpu') = Append(ReadyJobs(pid, r, cpu), j)
    <3>1. cpu' = cpu /\ cpu # "rehead" /\ pid' = pid
      BY <1>1, <1>5, <2>4 DEF cpuVars, Link, CpuLocks
    <3>2. CASE cpu = "unlink"
      <4>1. r # <<>>
        BY <3>2 DEF Lists, FirstInHand, HasJob
      <4>2. Jobs(pid, r) # <<>>
        BY <1>2, <4>1, JobsOf
      <4>3. Tail(Append(Jobs(pid, r), j)) = Append(Tail(Jobs(pid, r)), j)
        BY <2>8, <4>2, HeadTailAppend
      <4> QED  BY <2>8, <3>1, <3>2, <4>3 DEF ReadyJobs
    <3>3. CASE cpu # "unlink"
      BY <2>8, <3>1, <3>3 DEF ReadyJobs
    <3> QED  BY <3>2, <3>3
  <2>10. Effect(r, f, cells, f)
    BY <2>4, <2>7, <2>9 DEF Effect
  <2> QED  BY <2>3, <2>4, <2>6, <2>10 DEF Moves
<1> QED  BY <1>3, <1>4, <1>5 DEF handle_connection

LEMMA MovesCpu ==
  ASSUME TypeInv, TypeInv', RoundRobin, Stopped, algorithm # "SJF", NEW r, NEW f,
         Lists(r, f), Contents(r, f), Listing(r, f), Cpu
  PROVE  \E cells, done : Moves(r, f, cells, done)
<1>1. UNCHANGED <<handlerVars, consoleVars>> /\ Queued' = Queued
  BY DEF Cpu, Resume, Drained, GoOn, Pick, Execute, Verify, Stats, Copy, DeleteAppend,
     DeleteFirst, DeleteOther, DeleteSearch, Relink, Rehead, Cut, ListsOnly, handlerVars, Queued
<1>2. /\ r \in Seq(Addr) /\ f \in Seq(Addr) /\ Len(r) \in Nat
      /\ pid \in [Addr -> Job \cup {NULL}] /\ pid' \in [Addr -> Job \cup {NULL}]
  BY CellsType DEF TypeInv, TypeOK
<1>3. ASSUME ~Calm, NEW cells, NEW done
      PROVE  Listing(cells, done)'
  BY <1>1, <1>3, ListingOver
<1>4. CASE Quiet
  <2>1. Lists(r, f)'
    BY <1>4, HeapThinks
  <2>2. /\ UNCHANGED <<pid, phase, held, copy>> /\ cpu # "unlink" /\ cpu' \notin {"append", "unlink"}
        /\ {cpu, cpu'} \cap {"unlink", "rehead"} = {}
    BY <1>1, <1>4 DEF Quiet, Resume, Drained, GoOn, Pick, Execute, Verify, Stats, CpuGoto, heapVars, handlerVars
  <2>3. Contents(r, f)'
    BY <2>2, ContentsKept
  <2>4. Listing(r, f)'
    BY <1>1, <1>2, <2>2, ListingKept
  <2>5. Moves(r, f, r, f)
    BY <1>1, <2>1, <2>2, <2>3, <2>4, MovesNothing
  <2> QED  BY <2>5
<1>5. CASE Copy
  <2>1. ~Calm /\ {cpu, cpu'} \cap {"unlink", "rehead"} = {}
    BY <1>5 DEF Copy, CpuGoto, Calm
  <2>2. Lists(r, f)' /\ Contents(r, f)' /\ \A a \in Range(r) \cup Range(f) : pid'[a] = pid[a]
    BY <1>5, HeapCopy, ContentsCopy
  <2>3. Listing(r, f)'
    BY <1>3, <2>1
  <2>4. Moves(r, f, r, f)
    BY <1>1, <2>1, <2>2, <2>3, MovesNothing
  <2> QED  BY <2>4
<1>6. CASE DeleteAppend
  <2>1. PICK b : b = copy
    OBVIOUS
  <2>2. PICK done : done = Append(f, b)
    OBVIOUS
  <2>3. Lists(r, done)'
    BY <1>6, <2>1, <2>2, HeapAppend
  <2>4. Contents(r, done)' /\ b \in Addr /\ pid' = pid /\ pid[b] = pid[job] /\ r # <<>> /\ job = r[1]
    BY <1>6, <2>1, <2>2, ContentsAppend
  <2>5. ~Calm /\ cpu = "append" /\ cpu' = "unlink"
    BY <1>6 DEF DeleteAppend, CpuGoto, Calm
  <2>6. Listing(r, done)'
    BY <1>3, <2>5
  <2>7. Jobs(pid, done) = Append(Jobs(pid, f), pid[b])
    BY <1>2, <2>2, <2>4, JobsAppend
  <2>8. Jobs(pid, r) # <<>> /\ Head(Jobs(pid, r)) = pid[r[1]]
    BY <1>2, <2>4, JobsOf
  <2>9. ReadyJobs(pid', r, cpu') = Tail(Jobs(pid, r)) /\ ReadyJobs(pid, r, cpu) = Jobs(pid, r)
    BY <2>4, <2>5 DEF ReadyJobs
  <2>10. Effect(r, f, r, done)
    BY <1>1, <2>4, <2>7, <2>8, <2>9 DEF Effect
  <2> QED  BY <2>3, <2>4, <2>6, <2>10 DEF Moves
<1>7. CASE DeleteFirst
  <2>1. PICK cells : cells = Tail(r)
    OBVIOUS
  <2>2. Lists(cells, f)'
    BY <1>7, <2>1, HeapUnlink
  <2>3. /\ Contents(cells, f)' /\ r # <<>>
        /\ \A a \in Range(cells) \cup Range(f) : pid'[a] = pid[a]
    BY <1>7, <2>1, ContentsUnlink
  <2>4. ~Calm /\ cpu = "unlink" /\ cpu' = "ready"
    BY <1>7 DEF DeleteFirst, CpuGoto, Calm
  <2>5. Listing(cells, f)'
    BY <1>3, <2>4
  <2>6. cells \in Seq(Addr) /\ Jobs(pid, cells) = Tail(Jobs(pid, r))
    BY <1>2, <2>1, <2>3, JobsTail, HeadTailProperties
  <2>7. Jobs(pid', cells) = Jobs(pid, cells) /\ Jobs(pid', f) = Jobs(pid, f)
    BY <1>2, <2>3, <2>6, JobsKept
  <2>8. ReadyJobs(pid', cells, cpu') = ReadyJobs(pid, r, cpu)
    BY <2>4, <2>6, <2>7 DEF ReadyJobs
  <2>9. Effect(r, f, cells, f)
    BY <1>1, <2>7, <2>8 DEF Effect
  <2> QED  BY <2>2, <2>3, <2>5, <2>9 DEF Moves
<1>8. ~DeleteOther /\ ~DeleteSearch
  BY DEF CpuGoto, DeleteOther, DeleteSearch, Lists, FirstInHand, ReadyCells, HasJob
<1>9. ASSUME NEW cells, Range(cells) = Range(r), Relink \/ Rehead \/ Cut
      PROVE  Contents(cells, f)' /\ pid' = pid /\ Listing(cells, f)'
  <2>1. /\ UNCHANGED <<pid, phase, held, copy>> /\ cpu # "unlink" /\ cpu' \notin {"append", "unlink"}
        /\ ~Calm
    BY <1>1, <1>9 DEF Relink, Rehead, Cut, CpuGoto, heapVars, handlerVars, Calm
  <2>2. Contents(cells, f)'
    BY <1>9, <2>1, ContentsKept
  <2> QED  BY <1>3, <2>1, <2>2
<1>10. CASE Relink
  <2>1. Lists(r, f)' /\ Contents(r, f)' /\ pid' = pid /\ Listing(r, f)'
    BY <1>9, <1>10, HeapRelink
  <2>2. cpu = "relink" /\ cpu' = "rehead" /\ algorithm = "RR"
    BY <1>10 DEF Relink, CpuGoto, RoundRobin
  <2>3. r # <<>>
    BY <2>2 DEF Lists, FirstInHand, HasJob
  <2>4. Jobs(pid, r) # <<>> /\ Head(Jobs(pid, r)) = pid[r[1]]
    BY <1>2, <2>3, JobsOf
  <2>5. /\ ReadyJobs(pid', r, cpu') = Append(Tail(Jobs(pid, r)), pid[r[1]])
        /\ ReadyJobs(pid, r, cpu) = Jobs(pid, r)
    BY <2>1, <2>2 DEF ReadyJobs
  <2>6. Effect(r, f, r, f)
    BY <1>1, <2>1, <2>2, <2>4, <2>5 DEF Effect
  <2> QED  BY <2>1, <2>6 DEF Moves
<1>11. CASE Rehead
  <2>1. PICK cells : cells = Append(Tail(r), r[1])
    OBVIOUS
  <2>2. cpu = "rehead" /\ cpu' = "cut"
    BY <1>11 DEF Rehead, CpuGoto
  <2>3. r # <<>> /\ Chain(next, r) /\ next[LastOf(r)] = r[1]
    BY <2>2 DEF Lists, FirstInHand, ReadyCells, CpuLocks, HasJob
  <2>4. Range(cells) = Range(r)
    BY <2>1, <2>3, RingRotates
  <2>5. Lists(cells, f)' /\ Contents(cells, f)' /\ pid' = pid /\ Listing(cells, f)'
    BY <1>9, <1>11, <2>1, <2>4, HeapRehead
  <2>6. Tail(r) \in Seq(Addr) /\ r[1] \in Addr
    BY <1>2, <2>3, ListFacts, HeadTailProperties
  <2>7. Jobs(pid, cells) = Append(Tail(Jobs(pid, r)), pid[r[1]])
    BY <1>2, <2>1, <2>3, <2>6, JobsAppend, JobsTail
  <2>8. ReadyJobs(pid', cells, cpu') = ReadyJobs(pid, r, cpu)
    BY <2>2, <2>5, <2>7 DEF ReadyJobs
  <2>9. Effect(r, f, cells, f)
    BY <1>1, <2>5, <2>8 DEF Effect
  <2> QED  BY <2>5, <2>9 DEF Moves
<1>12. CASE Cut
  <2>1. Lists(r, f)' /\ Contents(r, f)' /\ pid' = pid /\ Listing(r, f)'
    BY <1>9, <1>12, HeapCut
  <2>2. {cpu, cpu'} \cap {"unlink", "rehead"} = {}
    BY <1>12 DEF Cut, CpuGoto
  <2>3. Moves(r, f, r, f)
    BY <1>1, <2>1, <2>2, MovesNothing
  <2> QED  BY <2>3
<1> QED  BY <1>4, <1>5, <1>6, <1>7, <1>8, <1>10, <1>11, <1>12 DEF Cpu, Quiet

LEMMA MovesAlways ==
  ASSUME TypeInv, TypeInv', RoundRobin, Stopped, algorithm # "SJF", NEW r, NEW f,
         Lists(r, f), Contents(r, f), Listing(r, f), [Next]_vars
  PROVE  \E cells, done : Moves(r, f, cells, done)
<1>1. CASE UNCHANGED vars
  <2>1. UNCHANGED <<heapVars, readyVars, finishVars, handlerVars, cpuVars, consoleVars>>
    BY <1>1 DEF vars
  <2>2. Lists(r, f)'
    BY <2>1, HeapQuiet DEF heapVars, readyVars, finishVars, handlerVars, cpuVars, Appended
  <2>3. Contents(r, f)'
    <3>1. UNCHANGED <<pid, phase, held, copy>> /\ cpu' = cpu /\ job' = job
      BY <2>1 DEF heapVars, handlerVars, cpuVars
    <3> QED  BY <3>1, ContentsKept
  <2>4. Queued' = Queued /\ pid' = pid /\ cpu' = cpu
    BY <2>1 DEF Queued, heapVars, handlerVars, cpuVars
  <2>5. Listing(r, f)'
    BY <2>1, <2>4, CellsType, ListingKept
  <2>6. Moves(r, f, r, f)
    BY <2>2, <2>3, <2>4, <2>5, MovesNothing
  <2> QED  BY <2>6
<1>2. CASE up /\ window_thread
  <2>1. Moves(r, f, r, f)
    BY <1>2, MovesConsole
  <2> QED  BY <2>1
<1>3. CASE Cpu
  BY <1>3, MovesCpu
<1>4. ASSUME NEW j \in Job, handle_connection(j)
      PROVE  \E cells, done : Moves(r, f, cells, done)
  BY <1>4, MovesHandler
<1> QED  BY <1>1, <1>2, <1>3, <1>4 DEF Next

LEMMA QueuesInit == Init => QueuesInv
<1> SUFFICES ASSUME Init
             PROVE  QueuesInv
  OBVIOUS
<1>1. Lists(<<>>, <<>>)
  BY HeapListsInit
<1>2. Contents(<<>>, <<>>) /\ Stopped /\ RoundRobin
  BY ContentsInit, StoppedInit, RoundRobinInit
<1>3. Listing(<<>>, <<>>)
  BY DEF Init, Listing
<1> QED  BY <1>1, <1>2, <1>3 DEF QueuesInv

LEMMA QueuesStep == TypeInv /\ TypeInv' /\ QueuesInv /\ [Next]_vars => QueuesInv'
<1> SUFFICES ASSUME TypeInv, TypeInv', QueuesInv, [Next]_vars
             PROVE  QueuesInv'
  OBVIOUS
<1>1. RoundRobin /\ Stopped /\ RoundRobin' /\ Stopped'
  BY StoppedStep, RoundRobinStep DEF QueuesInv
<1>2. algorithm' = algorithm
  BY DEF Next, vars
<1>3. ASSUME algorithm # "SJF"
      PROVE  \E r, f : Lists(r, f)' /\ Contents(r, f)' /\ Listing(r, f)'
  <2>1. PICK r, f : Lists(r, f) /\ Contents(r, f) /\ Listing(r, f)
    BY <1>3 DEF QueuesInv
  <2>2. PICK cells, done : Moves(r, f, cells, done)
    BY <1>1, <1>3, <2>1, MovesAlways
  <2> QED  BY <2>2 DEF Moves
<1> QED  BY <1>1, <1>2, <1>3 DEF QueuesInv

LEMMA AlwaysQueuesInv == Spec => [](TypeInv /\ QueuesInv)
<1>1. TypeInv /\ QueuesInv /\ [Next]_vars => (TypeInv /\ QueuesInv)'
  BY TypeStep, QueuesStep
<1> QED  BY <1>1, TypeInit, QueuesInit, PTL DEF Spec

(* Under fifo and roundRobin no pointer leads from either head to a PCB that *)
(* delete has freed, and no PCB is in both queues, whatever handlers insert  *)
(* meanwhile (delete and moveFirstToLast, jobscheduler.h:61-127).            *)
THEOREM ReachableAliveHolds == Spec => [](algorithm # "SJF" => ReachableAlive)
<1>1. TypeInv /\ QueuesInv => (algorithm # "SJF" => ReachableAlive)
  <2> SUFFICES ASSUME TypeInv, NEW r, NEW f, Lists(r, f)
               PROVE  ReachableAlive
    BY DEF QueuesInv
  <2>1. /\ Reached(rqHead) = Range(r) /\ FqCells = f
        /\ Range(r) \subseteq Addr /\ Range(f) \subseteq Addr
    BY Views
  <2>2. /\ Range(r) \cap Range(f) = {}
        /\ Addr \ freed = (Range(r) \cup Range(f) \cup Range(held) \cup {copy}) \ {NULL}
    BY DEF Lists, Owned
  <2> QED  BY <2>1, <2>2, HeapAssumption DEF ReachableAlive
<1> QED  BY <1>1, AlwaysQueuesInv, PTL

(* Under fifo and roundRobin malloc and free are balanced: no PCB leaks, and *)
(* none is freed twice (insert and delete, jobscheduler.h:35-118).           *)
THEOREM EveryCellOwnedHolds == Spec => []EveryCellOwned
<1>1. TypeInv /\ QueuesInv => EveryCellOwned
  <2> SUFFICES ASSUME TypeInv, NEW r, NEW f, Lists(r, f)
               PROVE  Addr \ freed = (Reached(rqHead) \cup Range(FqCells) \cup Range(held) \cup {copy}) \ {NULL}
    BY DEF QueuesInv, EveryCellOwned
  <2>1. Reached(rqHead) = Range(r) /\ FqCells = f
    BY Views
  <2> QED  BY <2>1 DEF Lists, Owned
<1> QED  BY <1>1, AlwaysQueuesInv, PTL

LEMMA ShownIsPrefix ==
  ASSUME TypeInv, NEW cells \in Seq(Addr), Shown(cells)
  PROVE  /\ IsPrefix(rows, Pids(cells))
         /\ \A x \in Range(rows) : \E a \in Range(cells) : x = pid[a]
<1>1. /\ Pids(cells) \in Seq(Job \cup {NULL}) /\ Len(Pids(cells)) = Len(cells) /\ Len(cells) \in Nat
      /\ \A k \in 1..Len(cells) : Pids(cells)[k] = pid[cells[k]] /\ cells[k] \in Range(cells)
  BY JobsOf DEF Pids, Jobs, TypeInv, TypeOK
<1>2. rows \in Seq(Job \cup {NULL}) /\ Len(rows) \in Nat /\ DOMAIN rows = 1..Len(rows)
  BY LenProperties DEF TypeInv, TypeOK
<1>3. Len(rows) <= Len(cells) /\ \A k \in 1..Len(rows) : k \in 1..Len(cells) /\ rows[k] = Pids(cells)[k]
  BY <1>1, <1>2 DEF Shown
<1> DEFINE n == Len(rows)
<1>4. /\ SubSeq(rows, 1, n) \in Seq(Job \cup {NULL}) /\ Len(SubSeq(rows, 1, n)) = (IF 1 <= n THEN n - 1 + 1 ELSE 0)
      /\ \A k \in 1..(n - 1 + 1) : SubSeq(rows, 1, n)[k] = rows[1 + k - 1]
  <2>1. \A k \in 1..n : rows[k] \in Job \cup {NULL}
    BY <1>2, ElementOfSeq
  <2> QED  BY <1>2, <2>1, SubSeqProperties
<1>5. /\ SubSeq(Pids(cells), 1, n) \in Seq(Job \cup {NULL})
      /\ Len(SubSeq(Pids(cells), 1, n)) = (IF 1 <= n THEN n - 1 + 1 ELSE 0)
      /\ \A k \in 1..(n - 1 + 1) : SubSeq(Pids(cells), 1, n)[k] = Pids(cells)[1 + k - 1]
  <2>1. \A k \in 1..n : Pids(cells)[k] \in Job \cup {NULL}
    BY <1>1, <1>2, <1>3, ElementOfSeq
  <2> QED  BY <1>2, <2>1, SubSeqProperties
<1>6. n \in Nat /\ n - 1 + 1 = n /\ \A k \in 1..n : 1 + k - 1 = k
  BY <1>2
<1>7. (IF 1 <= n THEN n - 1 + 1 ELSE 0) = n
  BY <1>6
<1>8. \A k \in 1..n : SubSeq(rows, 1, n)[k] = SubSeq(Pids(cells), 1, n)[k]
  BY <1>3, <1>4, <1>5, <1>6
<1>9. SubSeq(rows, 1, n) = SubSeq(Pids(cells), 1, n)
  BY <1>4, <1>5, <1>7, <1>8, SeqEqual
<1>10. IsPrefix(rows, Pids(cells))
  BY <1>1, <1>3, <1>9 DEF IsPrefix
<1>11. \A x \in Range(rows) : \E a \in Range(cells) : x = pid[a]
  BY <1>1, <1>2, <1>3 DEF Range
<1> QED  BY <1>10, <1>11

(* A listing of "queue" that finds the CPU thread away from the lists shows  *)
(* the ready queue of fifo and roundRobin from its head on and stands on no  *)
(* freed PCB, whatever handlers insert meanwhile (server.c:275-305).         *)
THEOREM CalmListingHolds == Spec => []CalmListing
<1>1. TypeInv /\ QueuesInv => CalmListing
  <2> SUFFICES ASSUME TypeInv, NEW r, NEW f, Lists(r, f), Contents(r, f), Listing(r, f),
                      console \in {"entry", "entered"}, calm
               PROVE  /\ IsPrefix(rows, Pids(Walk(rqHead))) /\ tmp \notin freed
                      /\ tmp = NULL => Len(rows) <= Cardinality(Reached(rqHead))
    BY DEF QueuesInv, CalmListing
  <2>1. Reached(rqHead) = Range(r) /\ Walk(rqHead) = r /\ Range(r) \subseteq Addr
    BY Views
  <2>2. /\ r \in Seq(Addr) /\ Len(r) \in Nat /\ IsInjective(r)
        /\ Cardinality(Range(r)) = Len(r)
        /\ \A k \in 1..Len(r) : r[k] \in Range(r)
    BY ChainFits DEF Lists, ReadyCells, Chain
  <2>3. Shown(r)
    BY DEF Listing
  <2>4. tmp = NULL \/ tmp \in Range(r)
    <3>1. Len(rows) \in Nat /\ (rows = <<>> <=> Len(rows) = 0)
      BY LenProperties, EmptySeq DEF TypeInv, TypeOK
    <3>2. Len(rows) < Len(r) => Len(rows) + 1 \in 1..Len(r)
      BY <2>2, <3>1
    <3>3. rows # <<>> => Len(rows) \in 1..Len(r)
      BY <2>2, <2>3, <3>1 DEF Shown
    <3> QED  BY <2>2, <3>2, <3>3 DEF Listing
  <2>5. freed \cap Range(r) = {} /\ NULL \notin freed
    BY <2>1, HeapAssumption DEF Lists, Owned, TypeInv, TypeOK
  <2>6. IsPrefix(rows, Pids(Walk(rqHead)))
    BY <2>1, <2>2, <2>3, ShownIsPrefix
  <2> QED  BY <2>1, <2>2, <2>3, <2>4, <2>5, <2>6 DEF Shown
<1> QED  BY <1>1, AlwaysQueuesInv, PTL

(* A table of "stop" that finds the CPU thread away from the lists has a row *)
(* for each finished job, in the order in which they finished, and for no    *)
(* other, and does not end the process, although the last PCB of FQ points   *)
(* into the ready queue of fifo and roundRobin (server.c:225-273).           *)
THEOREM CalmTableHolds == Spec => []CalmTable
<1>1. TypeInv /\ QueuesInv => CalmTable
  <2> SUFFICES ASSUME TypeInv, NEW r, NEW f, Lists(r, f), Contents(r, f), Listing(r, f), Stopped,
                      console \in {"row", "printed"}, calm
               PROVE  /\ up /\ IsPrefix(rows, Pids(FqCells)) /\ finishedJobs = Len(FqCells)
                      /\ Range(rows) \cap (Range(Pids(Walk(rqHead))) \cup {NULL}) = {}
    BY DEF QueuesInv, CalmTable
  <2>1. Walk(rqHead) = r /\ FqCells = f
    BY Views
  <2>2. r \in Seq(Addr) /\ f \in Seq(Addr)
    BY CellsType
  <2>3. Shown(f) /\ up /\ Calm
    BY DEF Listing, Stopped
  <2>4. finishedJobs = Len(f)
    <3>1. finishedJobs \in Nat /\ Len(f) = Appended
      BY DEF TypeInv, TypeOK, Lists, FinishCells
    <3> QED  BY <2>3, <3>1 DEF Calm, Appended
  <2>5. IsPrefix(rows, Pids(f)) /\ \A x \in Range(rows) : \E a \in Range(f) : x = pid[a]
    BY <2>2, <2>3, ShownIsPrefix
  <2>6. \A y \in Range(Pids(r)) : \E a \in Range(r) : y = pid[a]
    BY DEF Pids, Range
  <2>7. \A a \in Range(r), b \in Range(f) : pid[a] # pid[b] /\ pid[b] \in Job
    BY <2>3 DEF Contents, Calm
  <2>8. \A b \in Range(f) : pid[b] # NULL
    BY HeapAssumption DEF Contents
  <2>9. Range(rows) \cap (Range(Pids(r)) \cup {NULL}) = {}
    BY <2>5, <2>6, <2>7, <2>8
  <2> QED  BY <2>1, <2>3, <2>4, <2>5, <2>9
<1> QED  BY <1>1, AlwaysQueuesInv, PTL

-----------------------------------------------------------------------------
(* The cells implement the queue of jobs.                                    *)

Waiting ==
  IF cpu = "unlink" THEN Tail(Pids(Walk(rqHead))) ELSE
  IF cpu = "cut" THEN Pids(Walk(rqHead)) ELSE
  IF cpu = "rehead" THEN Append(Tail(Pids(Walk(rqHead))), pid[rqHead])
  ELSE Pids(Walk(rqHead))

Done == Pids(FqCells)

LEMMA MappedTo ==
  ASSUME TypeInv, NEW r, NEW f, Lists(r, f)
  PROVE  Waiting = ReadyJobs(pid, r, cpu) /\ Done = Jobs(pid, f)
<1>1. Walk(rqHead) = r /\ FqCells = f
  BY Views
<1>2. cpu = "rehead" => rqHead = r[1]
  BY DEF Lists, FirstInHand, ReadyCells
<1>3. Pids(r) = Jobs(pid, r) /\ Pids(f) = Jobs(pid, f)
  BY DEF Pids, Jobs
<1> QED  BY <1>1, <1>2, <1>3 DEF Waiting, Done, ReadyJobs

LEMMA MappedToNext ==
  ASSUME TypeInv', NEW r, NEW f, Lists(r, f)'
  PROVE  Waiting' = ReadyJobs(pid', r, cpu') /\ Done' = Jobs(pid', f)
<1>1. Walk(rqHead)' = r /\ FqCells' = f
  BY ViewsNext
<1>2. cpu' = "rehead" => rqHead' = r[1]
  BY DEF Lists, FirstInHand, ReadyCells
<1>3. Pids(Walk(rqHead))' = Jobs(pid', r) /\ Pids(FqCells)' = Jobs(pid', f)
  BY <1>1 DEF Pids, Jobs
<1> QED  BY <1>1, <1>2, <1>3 DEF Waiting, Done, ReadyJobs

AbstractStep ==
  \/ Queue!Insert \/ Queue!Finish
  \/ algorithm = "RR" /\ Queue!MoveFirstToLast
  \/ algorithm = "SJF"

LEMMA QueueInitMaps == Init => Queue!Init
<1> SUFFICES ASSUME Init
             PROVE  Queue!Init
  OBVIOUS
<1>1. TypeInv /\ Lists(<<>>, <<>>)
  BY TypeInit, HeapListsInit
<1>2. Waiting = ReadyJobs(pid, <<>>, cpu) /\ Done = Jobs(pid, <<>>) /\ cpu = "loop"
  BY <1>1, MappedTo DEF Init
<1>3. Jobs(pid, <<>>) = <<>>
  BY DEF Jobs
<1>4. Waiting = <<>> /\ Done = <<>>
  BY <1>2, <1>3 DEF ReadyJobs
<1>5. {j \in Job : phase[j] = "queued"} = {}
  BY DEF Init
<1> QED  BY <1>4, <1>5 DEF Queue!Init, Waiting, Done

LEMMA QueueStepMaps ==
  TypeInv /\ TypeInv' /\ QueuesInv /\ [Next]_vars => [AbstractStep]_(Queue!queues)
<1> SUFFICES ASSUME TypeInv, TypeInv', QueuesInv, [Next]_vars, algorithm # "SJF"
             PROVE  [AbstractStep]_(Queue!queues)
  BY DEF AbstractStep
<1>1. PICK r, f : Lists(r, f) /\ Contents(r, f) /\ Listing(r, f)
  BY DEF QueuesInv
<1>2. PICK cells, done : Moves(r, f, cells, done)
  BY <1>1, MovesAlways DEF QueuesInv
<1>3. Waiting = ReadyJobs(pid, r, cpu) /\ Done = Jobs(pid, f)
  BY <1>1, MappedTo
<1>4. Waiting' = ReadyJobs(pid', cells, cpu') /\ Done' = Jobs(pid', done)
  BY <1>2, MappedToNext DEF Moves
<1>5. \/ Queued' = Queued /\ Waiting' = Waiting /\ Done' = Done
      \/ /\ \E j \in Job \ Queued : Queued' = Queued \cup {j} /\ Waiting' = Append(Waiting, j)
         /\ Done' = Done
      \/ /\ Waiting # <<>> /\ Done' = Append(Done, Head(Waiting)) /\ Waiting' = Tail(Waiting)
         /\ Queued' = Queued
      \/ /\ algorithm = "RR" /\ Waiting # <<>> /\ Waiting' = Append(Tail(Waiting), Head(Waiting))
         /\ Queued' = Queued /\ Done' = Done
  BY <1>2, <1>3, <1>4 DEF Moves, Effect
<1>6. CASE Queued' = Queued /\ Waiting' = Waiting /\ Done' = Done
  BY <1>6 DEF Queue!queues, Queued, Waiting, Done
<1>7. CASE /\ \E j \in Job \ Queued : Queued' = Queued \cup {j} /\ Waiting' = Append(Waiting, j)
           /\ Done' = Done
  <2>1. Queue!Insert
    BY <1>7 DEF Queue!Insert, Queued, Waiting, Done
  <2> QED  BY <2>1 DEF AbstractStep
<1>8. CASE /\ Waiting # <<>> /\ Done' = Append(Done, Head(Waiting)) /\ Waiting' = Tail(Waiting)
           /\ Queued' = Queued
  <2>1. Queue!Finish
    BY <1>8 DEF Queue!Finish, Queued, Waiting, Done
  <2> QED  BY <2>1 DEF AbstractStep
<1>9. CASE /\ algorithm = "RR" /\ Waiting # <<>> /\ Waiting' = Append(Tail(Waiting), Head(Waiting))
           /\ Queued' = Queued /\ Done' = Done
  <2>1. "RR" \in Algorithms
    BY <1>9 DEF QueuesInv, RoundRobin
  <2>2. Queue!MoveFirstToLast
    BY <1>9, <2>1 DEF Queue!MoveFirstToLast, Queued, Waiting, Done
  <2> QED  BY <1>9, <2>2 DEF AbstractStep
<1> QED  BY <1>5, <1>6, <1>7, <1>8, <1>9

(* Under fifo and roundRobin every step on the cells, their links and the    *)
(* four pointers is one step of the queue of jobs or none: insert adds at    *)
(* the end, delete takes the first to the end of FQ, moveFirstToLast puts    *)
(* the first behind the last, for every number of cells and every order of   *)
(* the threads (jobscheduler.h:35-127).                                      *)
THEOREM PcbImplementsQueue == Spec => ImplementsQueue
<1>1. Init => Queue!Init
  BY QueueInitMaps
<1>2. TypeInv /\ TypeInv' /\ QueuesInv /\ [Next]_vars => [AbstractStep]_(Queue!queues)
  BY QueueStepMaps
<1> QED  BY <1>1, <1>2, AlwaysQueuesInv, PTL DEF Spec, ImplementsQueue, AbstractStep
=============================================================================
