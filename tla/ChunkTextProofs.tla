-------------------------- MODULE ChunkTextProofs ---------------------------
(***************************************************************************)
(* chunkText loses no rune, for every chunk size, every smaller overlap    *)
(* and every text length.                                                  *)
(***************************************************************************)
EXTENDS ChunkText, TLAPS

Last == chunks[Len(chunks)]

\* Where the loop stands: the next chunk starts Overlap runes before the end
\* of the last one, which is a full one and does not reach the end of the
\* text; when the loop is over, the last chunk reaches it.
LoopState ==
    /\ chunks = <<>> => i = 0
    /\ chunks # <<>> /\ pc = "loop" => /\ i = Last.hi - Overlap
                                       /\ Last.hi = Last.lo + ChunkSize
                                       /\ Last.hi < length
    /\ pc = "done" => IF chunks = <<>> THEN length = 0 ELSE Last.hi = length

\* The chunks so far cover the text up to the end of the last one.
CoveredSoFar ==
    chunks # <<>> =>
        \A p \in 0..(Last.hi - 1) : \E k \in 1..Len(chunks) : p \in Positions(chunks[k])

IInv ==
    /\ TypeOK
    /\ LoopState
    /\ ChunksArePieces
    /\ NeighboursOverlap
    /\ CoveredSoFar

-----------------------------------------------------------------------------
\* The initial state: nothing is cut yet.
LEMMA InitEstablishes == Init => IInv
  BY ChunkAssumption
  DEF Init, IInv, TypeOK, LoopState, ChunksArePieces, NeighboursOverlap, CoveredSoFar

\* What Append does to the length, the elements and the last element.
LEMMA Appended ==
    ASSUME NEW s \in Seq(Intervals), NEW x \in Intervals
    PROVE  /\ Append(s, x) \in Seq(Intervals)
           /\ Append(s, x) # <<>>
           /\ Len(Append(s, x)) = Len(s) + 1
           /\ Append(s, x)[Len(s) + 1] = x
           /\ \A k \in 1..Len(s) : Append(s, x)[k] = s[k]
  OBVIOUS

\* One run of the loop's body keeps the invariant.
LEMMA CutPreserves == IInv /\ Cut => IInv'
<1> SUFFICES ASSUME IInv, Cut PROVE IInv'
  OBVIOUS
<1> DEFINE new == [lo |-> i, hi |-> EndOf]
           n == Len(chunks)
<1>1. /\ TypeOK
      /\ i \in Nat /\ ChunkSize \in Nat /\ Overlap \in Nat /\ Overlap < ChunkSize
      /\ pc = "loop"
      /\ i < length
      /\ length \in Nat
      /\ n \in Nat
      /\ length' = length
      /\ chunks' = Append(chunks, new)
  BY ChunkAssumption DEF IInv, TypeOK, Cut
<1>2. new \in Intervals /\ EndOf \in Nat /\ i < EndOf /\ EndOf <= length /\ EndOf - i <= ChunkSize
  BY <1>1, ChunkAssumption DEF TypeOK, EndOf, Intervals
<1>3. /\ chunks' \in Seq(Intervals)
      /\ chunks' # <<>>
      /\ Len(chunks') = n + 1
      /\ chunks'[n + 1] = new
      /\ \A k \in 1..n : chunks'[k] = chunks[k]
  BY <1>1, <1>2, Appended DEF TypeOK
<1>4. /\ n = 0 => i = 0
      /\ n # 0 => /\ chunks[n] \in Intervals
                  /\ i = chunks[n].hi - Overlap
                  /\ chunks[n].hi = chunks[n].lo + ChunkSize
                  /\ chunks[n].hi < length
  BY <1>1 DEF IInv, TypeOK, LoopState, Last
<1>5. TypeOK'
  <2>1. CASE AtEnd
    BY <1>1, <1>3, <2>1 DEF TypeOK, Cut
  <2>2. CASE ~AtEnd
    <3>1. EndOf = i + ChunkSize
      BY <1>1, <2>2, ChunkAssumption DEF AtEnd, EndOf, TypeOK
    <3>2. i' = i + ChunkSize - Overlap
      BY <1>1, <2>2, <3>1 DEF Cut, NextStart
    <3> QED
      BY <1>1, <1>3, <2>2, <3>2, ChunkAssumption DEF TypeOK, Cut
  <2> QED
    BY <2>1, <2>2
<1>6. LoopState'
  <2>1. CASE AtEnd
    BY <1>3, <1>1, <2>1 DEF LoopState, Last, Cut, AtEnd
  <2>2. CASE ~AtEnd
    <3>1. EndOf = i + ChunkSize /\ EndOf < length
      BY <1>1, <1>2, <2>2, ChunkAssumption DEF AtEnd, EndOf, TypeOK
    <3> QED
      BY <1>3, <1>1, <2>2, <3>1 DEF LoopState, Last, Cut, NextStart
  <2> QED
    BY <2>1, <2>2
<1>7. n # 0 => i <= chunks[n].hi /\ chunks[n].hi < EndOf
  BY <1>1, <1>4, ChunkAssumption DEF EndOf, TypeOK, Intervals
<1>8. ChunksArePieces'
  <2> SUFFICES ASSUME NEW k \in 1..(n + 1)
               PROVE  /\ chunks'[k].lo < chunks'[k].hi
                      /\ chunks'[k].hi <= length
                      /\ chunks'[k].hi - chunks'[k].lo <= ChunkSize
                      /\ k > 1 => chunks'[k].hi > chunks'[k - 1].hi
    BY <1>1, <1>3 DEF ChunksArePieces
  <2>1. CASE k = n + 1
    BY <1>1, <1>2, <1>3, <1>4, <1>7, <2>1
  <2>2. CASE k \in 1..n
    <3>1. chunks'[k] = chunks[k] /\ (k > 1 => chunks'[k - 1] = chunks[k - 1])
      BY <1>1, <1>3, <2>2
    <3> QED
      BY <1>1, <2>2, <3>1 DEF IInv, ChunksArePieces
  <2> QED
    BY <1>1, <2>1, <2>2
<1>9. NeighboursOverlap'
  <2> SUFFICES ASSUME NEW k \in 1..n
               PROVE  chunks'[k].hi - chunks'[k + 1].lo = Overlap
    BY <1>1, <1>3 DEF NeighboursOverlap
  <2>1. CASE k = n
    BY <1>1, <1>3, <1>4, <2>1, ChunkAssumption DEF Intervals
  <2>2. CASE k \in 1..(n - 1)
    <3>1. chunks'[k] = chunks[k] /\ chunks'[k + 1] = chunks[k + 1]
      BY <1>1, <1>3, <2>2
    <3> QED
      BY <2>2, <3>1 DEF IInv, NeighboursOverlap
  <2> QED
    BY <1>1, <2>1, <2>2
<1>10. CoveredSoFar'
  <2> SUFFICES ASSUME NEW p \in 0..(EndOf - 1)
               PROVE  \E k \in 1..(n + 1) : p \in Positions(chunks'[k])
    BY <1>3 DEF CoveredSoFar, Last
  <2>1. CASE p >= i
    <3>1. p \in Positions(chunks'[n + 1])
      BY <1>1, <1>2, <1>3, <2>1 DEF Positions, TypeOK, Intervals
    <3> QED
      BY <1>1, <3>1
  <2>2. CASE p < i
    <3>1. n # 0 /\ p \in 0..(chunks[n].hi - 1)
      BY <1>1, <1>2, <1>4, <1>7, <2>2, ChunkAssumption DEF TypeOK, Intervals
    <3>2. PICK k \in 1..n : p \in Positions(chunks[k])
      BY <1>1, <3>1 DEF IInv, CoveredSoFar, Last
    <3>3. chunks'[k] = chunks[k] /\ k \in 1..(n + 1)
      BY <1>1, <1>3
    <3> QED
      BY <3>2, <3>3
  <2> QED
    BY <1>1, <1>2, <2>1, <2>2 DEF TypeOK, Intervals
<1> QED
  BY <1>5, <1>6, <1>8, <1>9, <1>10 DEF IInv

\* Leaving the loop keeps the invariant: it happens only on the empty text.
LEMMA ExitPreserves == IInv /\ Exit => IInv'
<1> SUFFICES ASSUME IInv, Exit PROVE IInv'
  OBVIOUS
<1>1. chunks = <<>>
  <2> SUFFICES ASSUME chunks # <<>> PROVE FALSE
    OBVIOUS
  <2>1. Last \in Intervals
    BY DEF IInv, TypeOK, Last
  <2>2. i = Last.hi - Overlap /\ Last.hi < length
    BY DEF IInv, LoopState, Exit
  <2> QED
    BY <2>1, <2>2, ChunkAssumption DEF IInv, TypeOK, Exit, Intervals
<1>2. length = 0
  BY <1>1, ChunkAssumption DEF IInv, TypeOK, LoopState, Exit
<1> QED
  BY <1>1, <1>2 DEF IInv, TypeOK, LoopState, ChunksArePieces, NeighboursOverlap, CoveredSoFar, Exit

\* The invariant holds in every reachable state.
THEOREM Inductive == Spec => []IInv
<1>1. IInv /\ UNCHANGED vars => IInv'
  BY DEF IInv, TypeOK, LoopState, Last, ChunksArePieces, NeighboursOverlap, CoveredSoFar,
         Positions, vars
<1>2. IInv /\ [Next]_vars => IInv'
  BY <1>1, CutPreserves, ExitPreserves DEF Next
<1> QED
  BY InitEstablishes, <1>2, PTL DEF Spec

\* chunkText loses no rune of any text: see EveryRuneIsInAChunk.
THEOREM NoRuneIsLost == Spec => []EveryRuneIsInAChunk
<1>1. IInv => EveryRuneIsInAChunk
  <2> SUFFICES ASSUME IInv, pc = "done", NEW p \in 0..(length - 1)
               PROVE  \E k \in 1..Len(chunks) : p \in Positions(chunks[k])
    BY DEF EveryRuneIsInAChunk
  <2>1. chunks # <<>> /\ Last.hi = length
    BY ChunkAssumption DEF IInv, TypeOK, LoopState
  <2> QED
    BY <2>1 DEF IInv, CoveredSoFar
<1> QED
  BY <1>1, Inductive, PTL

\* Every chunk is a non-empty piece of the text, small enough and with runes
\* of its own: see ChunksArePieces.
THEOREM ChunksAreWellFormed == Spec => []ChunksArePieces
<1>1. IInv => ChunksArePieces
  BY DEF IInv
<1> QED
  BY <1>1, Inductive, PTL

\* Neighbouring chunks share exactly Overlap runes: see NeighboursOverlap.
THEOREM NeighboursShareOverlap == Spec => []NeighboursOverlap
<1>1. IInv => NeighboursOverlap
  BY DEF IInv
<1> QED
  BY <1>1, Inductive, PTL

\* The variables of the loop keep their types; chunks are intervals of the text.
THEOREM TypeCorrect == Spec => []TypeOK
<1>1. IInv => TypeOK
  BY DEF IInv
<1> QED
  BY <1>1, Inductive, PTL

-----------------------------------------------------------------------------
(* The closed form *)

\* The chunks so far are those of the closed form: the k-th starts after
\* k - 1 strides, and all but the last are full and short of the end.
Strided ==
    /\ \A k \in 1..Len(chunks) :
        /\ chunks[k].lo = (k - 1) * Stride
        /\ chunks[k].hi = IF chunks[k].lo + ChunkSize > length THEN length
                          ELSE chunks[k].lo + ChunkSize
    /\ \A k \in 1..(Len(chunks) - 1) : chunks[k].hi < length

\* One stride more.
LEMMA NextMultiple ==
    ASSUME NEW n \in Nat, NEW s \in Nat
    PROVE  n * s \in Nat /\ (n + 1) * s = n * s + s
  OBVIOUS

\* A quotient is the number whose multiple is just below.
LEMMA QuotientIs ==
    ASSUME NEW a \in Nat, NEW s \in Nat, s > 0, NEW q \in Nat, q * s <= a, a < q * s + s
    PROVE  a \div s = q
  OBVIOUS

\* A run of the loop cuts the next chunk of the closed form.
LEMMA CutStrides == IInv /\ Strided /\ Cut => Strided'
<1> SUFFICES ASSUME IInv, Strided, Cut PROVE Strided'
  OBVIOUS
<1> DEFINE new == [lo |-> i, hi |-> EndOf]
           n == Len(chunks)
<1>1. /\ i \in Nat /\ length \in Nat /\ n \in Nat /\ chunks \in Seq(Intervals)
      /\ ChunkSize \in Nat /\ Overlap \in Nat /\ Overlap < ChunkSize
      /\ length' = length /\ chunks' = Append(chunks, new)
      /\ pc = "loop"
  BY ChunkAssumption DEF IInv, TypeOK, Cut
<1>2. new \in Intervals
  BY <1>1 DEF EndOf, Intervals
<1>3. /\ Len(chunks') = n + 1 /\ chunks'[n + 1] = new
      /\ \A k \in 1..n : chunks'[k] = chunks[k]
  BY <1>1, <1>2, Appended
<1>4. Stride \in Nat
  BY <1>1 DEF Stride
<1>5. i = n * Stride
  <2>1. CASE n = 0
    BY <1>1, <1>4, <2>1, NextMultiple DEF IInv, LoopState
  <2>2. CASE n # 0
    <3>1. chunks[n] \in Intervals /\ i = chunks[n].hi - Overlap /\ chunks[n].hi = chunks[n].lo + ChunkSize
      BY <1>1, <2>2 DEF IInv, LoopState, Last
    <3>2. chunks[n].lo = (n - 1) * Stride
      BY <1>1, <2>2 DEF Strided
    <3>3. i = (n - 1) * Stride + Stride
      BY <1>1, <3>1, <3>2 DEF Stride, Intervals
    <3> QED
      BY <1>1, <1>4, <2>2, <3>3, NextMultiple
  <2> QED
    BY <2>1, <2>2
<1>6. ASSUME NEW k \in 1..(n + 1)
      PROVE  /\ chunks'[k].lo = (k - 1) * Stride
             /\ chunks'[k].hi = IF chunks'[k].lo + ChunkSize > length THEN length
                                ELSE chunks'[k].lo + ChunkSize
  <2>1. CASE k = n + 1
    <3>1. k - 1 = n
      BY <1>1, <2>1
    <3>2. chunks'[k].lo = i /\ chunks'[k].hi = EndOf
      BY <1>3, <2>1
    <3> QED
      BY <1>5, <3>1, <3>2 DEF EndOf
  <2>2. CASE k \in 1..n
    BY <1>3, <2>2 DEF Strided
  <2> QED
    BY <1>1, <2>1, <2>2
<1>7. ASSUME NEW k \in 1..n PROVE chunks'[k].hi < length
  <2>1. CASE k = n
    BY <1>1, <1>3, <2>1 DEF IInv, LoopState, Last
  <2>2. CASE k \in 1..(n - 1)
    BY <1>3, <2>2 DEF Strided
  <2> QED
    BY <1>1, <2>1, <2>2
<1> QED
  BY <1>1, <1>3, <1>6, <1>7 DEF Strided

\* When the loop is over, the closed form has as many chunks.
LEMMA CountIs ==
    ASSUME IInv, Strided, pc = "done"
    PROVE  Len(chunks) = IF length = 0 THEN 0
                         ELSE IF length <= ChunkSize THEN 1
                         ELSE 1 + (length - ChunkSize + Stride - 1) \div Stride
<1> DEFINE n == Len(chunks)
<1>1. /\ length \in Nat /\ n \in Nat /\ chunks \in Seq(Intervals)
      /\ ChunkSize \in Nat /\ Overlap \in Nat /\ Overlap < ChunkSize
      /\ Stride \in Nat /\ Stride > 0 /\ Stride <= ChunkSize
  BY ChunkAssumption DEF IInv, TypeOK, Stride
<1>2. CASE n = 0
  BY <1>1, <1>2 DEF IInv, LoopState
<1>3. CASE n # 0
  <2>1. chunks[n].hi = length /\ chunks[n].lo < length /\ chunks[n].lo = (n - 1) * Stride
        /\ length <= chunks[n].lo + ChunkSize
    <3>1. chunks[n] \in Intervals /\ n \in 1..Len(chunks) /\ chunks # <<>>
      BY <1>1, <1>3
    <3> QED
      BY <1>1, <3>1 DEF IInv, LoopState, Last, ChunksArePieces, Strided, Intervals
  <2>2. CASE n = 1
    BY <1>1, <2>1, <2>2
  <2>3. CASE n > 1
    <3> DEFINE a == length - ChunkSize + Stride - 1
    <3>1. chunks[n - 1].lo = (n - 2) * Stride /\ (n - 2) * Stride + ChunkSize < length
      <4>1. /\ n - 1 \in 1..n /\ n - 1 \in 1..(n - 1) /\ (n - 1) - 1 = n - 2
            /\ chunks[n - 1] \in Intervals
        BY <1>1, <2>3
      <4>2. chunks[n - 1].lo = (n - 2) * Stride /\ chunks[n - 1].hi < length
        BY <4>1 DEF Strided
      <4>3. chunks[n - 1].hi = IF chunks[n - 1].lo + ChunkSize > length THEN length
                               ELSE chunks[n - 1].lo + ChunkSize
        BY <4>1 DEF Strided
      <4> QED
        BY <1>1, <4>1, <4>2, <4>3 DEF Intervals
    <3>2. /\ (n - 2) * Stride \in Nat
          /\ (n - 1) * Stride = (n - 2) * Stride + Stride
      <4>1. n - 2 \in Nat /\ (n - 2) + 1 = n - 1
        BY <1>1, <2>3
      <4> QED
        BY <1>1, <4>1, NextMultiple
    <3>3. length > ChunkSize
      BY <1>1, <3>1, <3>2
    <3>4. /\ a \in Nat /\ n - 1 \in Nat
          /\ (n - 1) * Stride <= a /\ a < (n - 1) * Stride + Stride
      BY <1>1, <2>1, <2>3, <3>1, <3>2
    <3>5. a \div Stride = n - 1
      BY <1>1, <3>4, QuotientIs
    <3> QED
      BY <1>1, <3>3, <3>5
  <2>4. n = 1 \/ n > 1
    BY <1>1, <1>3
  <2> QED
    BY <2>2, <2>3, <2>4
<1> QED
  BY <1>2, <1>3

\* The chunks of every text are those of the closed form: see
\* MatchesReference.
THEOREM ChunksMatchReference == Spec => []MatchesReference
<1>1. Init => Strided
  BY DEF Init, Strided
<1>2. IInv /\ Strided /\ [Next]_vars => Strided'
  BY CutStrides DEF Next, Exit, vars, Strided
<1>3. IInv /\ Strided => MatchesReference
  <2> SUFFICES ASSUME IInv, Strided, pc = "done" PROVE chunks = Reference
    BY DEF MatchesReference
  <2> DEFINE n == Len(chunks)
  <2>1. chunks \in Seq(Intervals) /\ DOMAIN chunks = 1..n /\ n \in Nat
    BY DEF IInv, TypeOK
  <2>2. ASSUME NEW k \in 1..n
        PROVE  /\ chunks[k].lo = (k - 1) * Stride
               /\ chunks[k].hi = IF k = n THEN length ELSE chunks[k].lo + ChunkSize
               /\ chunks[k] \in Intervals
    <3>1. /\ chunks[k].lo = (k - 1) * Stride
          /\ chunks[k].hi = IF chunks[k].lo + ChunkSize > length THEN length
                            ELSE chunks[k].lo + ChunkSize
      BY DEF Strided
    <3>2. chunks[k] \in Intervals
      BY <2>1
    <3>3. CASE k = n
      <4>1. chunks # <<>>
        BY <2>1, <3>3
      <4>2. chunks[k].hi = length
        BY <3>3, <4>1 DEF IInv, LoopState, Last
      <4> QED
        BY <3>1, <3>2, <3>3, <4>2
    <3>4. CASE k # n
      <4>1. n \in Nat /\ length \in Nat
        BY <2>1, ChunkAssumption DEF IInv, TypeOK
      <4> HIDE DEF n
      <4>2. k \in 1..(n - 1)
        BY <3>4, <4>1
      <4>3. chunks[k].hi < length
        BY <4>2 DEF Strided, n
      <4>4. chunks[k].hi # length
        BY <4>1, <4>3
      <4>5. chunks[k].hi = chunks[k].lo + ChunkSize
        BY <3>1, <4>4
      <4> QED
        BY <3>1, <3>2, <3>4, <4>5
    <3> QED
      BY <3>3, <3>4
  <2> DEFINE ref == [k \in 1..n |->
                        [lo |-> (k - 1) * Stride,
                         hi |-> IF k = n THEN length ELSE (k - 1) * Stride + ChunkSize]]
  <2>3. Reference = ref
    BY CountIs DEF Reference
  <2>4. chunks = [k \in 1..n |-> chunks[k]]
    BY <2>1
  <2> HIDE DEF n
  <2>5. ASSUME NEW k \in 1..n PROVE chunks[k] = ref[k]
    BY <2>2 DEF Intervals
  <2>6. [k \in 1..n |-> chunks[k]] = ref
    BY <2>5
  <2> QED
    BY <2>3, <2>4, <2>6 DEF n
<1> QED
  BY <1>1, <1>2, <1>3, Inductive, PTL DEF Spec

=============================================================================
