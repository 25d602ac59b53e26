----------------------------- MODULE ChunkText ------------------------------
(***************************************************************************)
(* chunkText of the chunker (workers/chunker/service.go): a text of length *)
(* runes is cut into chunks of at most ChunkSize runes, each of which      *)
(* starts Overlap runes before the end of the one before.  A chunk is the  *)
(* half-open interval [lo, hi) of the positions of its runes; what the     *)
(* runes are does not matter to the loop.                                  *)
(***************************************************************************)
EXTENDS Integers, Sequences

CONSTANTS
    ChunkSize,  \* 500 in the code
    Overlap,    \* 50 in the code
    Lengths     \* lengths of the texts, in runes

ASSUME ChunkAssumption ==
    /\ ChunkSize \in Nat
    /\ Overlap \in Nat
    /\ Overlap < ChunkSize
    /\ Lengths \subseteq Nat

VARIABLES
    length,  \* len(runes)
    i,       \* where the next chunk starts
    chunks,  \* the chunks cut so far
    pc       \* "loop" or "done"

vars == <<length, i, chunks, pc>>

Intervals == [lo : Nat, hi : Nat]

TypeOK ==
    /\ length \in Lengths
    /\ i \in Nat
    /\ chunks \in Seq(Intervals)
    /\ pc \in {"loop", "done"}

Init ==
    /\ length \in Lengths
    /\ i = 0
    /\ chunks = <<>>
    /\ pc = "loop"

\* Mutant of EndOf: the end is not cut to the text.
EndUncut == i + ChunkSize

EndOf == IF i + ChunkSize > length THEN length ELSE i + ChunkSize

\* Mutant of NextStart: the chunks do not overlap.
NextStartWithoutOverlap == EndOf

\* Mutant of NextStart: one rune between two chunks is skipped.
NextStartWithGap == EndOf + 1

\* Mutant of NextStart: the overlap is taken off the start, not the end.
NextStartFromStart == i - Overlap

NextStart == EndOf - Overlap

\* Mutant of AtEnd: the loop ends one rune early.
AtEndEarly == EndOf + 1 >= length

\* The break.
AtEnd == EndOf = length

\* One run of the loop's body.
Cut ==
    /\ pc = "loop"
    /\ i < length
    /\ chunks' = Append(chunks, [lo |-> i, hi |-> EndOf])
    /\ IF AtEnd THEN pc' = "done" /\ i' = i
                ELSE pc' = "loop" /\ i' = NextStart
    /\ UNCHANGED length

\* Mutant of Exit: the loop's condition is i <= len(runes).
ExitLate ==
    /\ pc = "loop"
    /\ i > length
    /\ pc' = "done"
    /\ UNCHANGED <<length, i, chunks>>

\* The loop's condition is false.
Exit ==
    /\ pc = "loop"
    /\ i >= length
    /\ pc' = "done"
    /\ UNCHANGED <<length, i, chunks>>

Next == Cut \/ Exit

Spec == Init /\ [][Next]_vars
FairSpec == Spec /\ WF_vars(Next)

-----------------------------------------------------------------------------
(* Properties *)

Positions(chunk) == chunk.lo .. (chunk.hi - 1)

\* No rune is lost: when the loop is over, every position of the text is in
\* some chunk.
EveryRuneIsInAChunk ==
    pc = "done" =>
        \A p \in 0..(length - 1) : \E k \in 1..Len(chunks) : p \in Positions(chunks[k])

\* Every chunk is a piece of the text of at most ChunkSize runes (no slice is
\* out of range), and it has runes that no earlier chunk has: no chunk
\* repeats only what the overlap already carried over.
ChunksArePieces ==
    \A k \in 1..Len(chunks) :
        /\ chunks[k].lo < chunks[k].hi
        /\ chunks[k].hi <= length
        /\ chunks[k].hi - chunks[k].lo <= ChunkSize
        /\ k > 1 => chunks[k].hi > chunks[k - 1].hi

\* Neighbours share exactly Overlap runes, so a sentence that one chunk cuts
\* off has its last Overlap runes again in the next.
NeighboursOverlap ==
    \A k \in 1..(Len(chunks) - 1) : chunks[k].hi - chunks[k + 1].lo = Overlap

\* The chunks are the ones of the closed form: chunk k starts at k - 1
\* strides, and there are just enough strides to reach the end of the text.
Stride == ChunkSize - Overlap
Reference ==
    LET count == IF length = 0 THEN 0
                 ELSE IF length <= ChunkSize THEN 1
                 ELSE 1 + (length - ChunkSize + Stride - 1) \div Stride
    IN  [k \in 1..count |->
            [lo |-> (k - 1) * Stride,
             hi |-> IF k = count THEN length ELSE (k - 1) * Stride + ChunkSize]]

MatchesReference == pc = "done" => chunks = Reference

\* The loop ends for every text.
Terminates == <>(pc = "done")

=============================================================================
