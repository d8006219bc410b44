-------------------------------- MODULE Chunking --------------------------------
(***************************************************************************)
(* ChunkingService.chunk: the greedy loop over sentences or paragraphs     *)
(* with its overlap, and the sliding window over the tokens of a segment   *)
(* that is too long by itself (the whole text under strategy "fixed").     *)
(* Segments are numbered from 1, the tokens of a segment from 0.  How many *)
(* tokens a joiner adds depends on the text, so it is free.                *)
(***************************************************************************)
EXTENDS Naturals, Functions

CONSTANTS
    NumSegments,
    LongestSegment,  \* bound: tokens of a segment
    MaxTokens,       \* max_tokens
    OverlapTokens,   \* overlap_tokens
    MinChunkTokens,  \* min_chunk_tokens
    JoinerTokens     \* tokens a joiner may add

ASSUME ChunkingAssumption ==
    /\ NumSegments \in Nat \ {0} /\ LongestSegment \in Nat \ {0}
    /\ MaxTokens \in Nat \ {0} /\ OverlapTokens \in Nat /\ MinChunkTokens \in Nat
    /\ JoinerTokens \subseteq Nat

Segments == 1..NumSegments

VARIABLES
    tokens,  \* seg_tokens
    first,   \* i: the segment the chunk under construction begins with
    next,    \* j: the segment to be looked at next
    filled,  \* tokens in the chunk under construction
    back,    \* idx of _overlap_start
    overlap, \* accumulated
    pos,     \* start of the window
    stage,
    chunks

chunkingVars == <<tokens, first, next, filled, back, overlap, pos, stage, chunks>>

\* The segments of a chunk; from and to are its tokens when it is a single segment.
Chunk(a, b, from, to) == [first |-> a, last |-> b, from |-> from, to |-> to]

ChunkingTypeOK ==
    /\ tokens \in [Segments -> 1..LongestSegment]
    /\ first \in 1..NumSegments + 1 /\ next \in 1..NumSegments + 2
    /\ filled \in Nat /\ back \in 0..NumSegments /\ overlap \in Nat /\ pos \in Nat
    /\ stage \in {"idle", "whole", "fill", "back", "window", "done"}
    /\ chunks \subseteq [first : Segments, last : Segments, from : Nat, to : Nat]

ChunkingInit ==
    /\ tokens = [s \in Segments |-> 1]
    /\ first = 1 /\ next = 1 /\ filled = 0 /\ back = 0 /\ overlap = 0 /\ pos = 0
    /\ stage = "idle" /\ chunks = {}

\* chunk is called with a text.
Receive ==
    /\ stage = "idle" /\ stage' = "whole"
    /\ tokens' \in [Segments -> 1..LongestSegment]
    /\ UNCHANGED <<first, next, filled, back, overlap, pos, chunks>>

-----------------------------------------------------------------------------
TokenCount == FoldFunction(+, 0, tokens)

\* An outer iteration begins with segment i, or the loop has ended.
Begin(i) ==
    /\ first' = i /\ next' = i + 1
    /\ IF i <= NumSegments
       THEN stage' = "fill" /\ filled' = tokens[i]
       ELSE stage' = "done" /\ filled' = 0

\* A text that is short, or fits, is one chunk.
Whole ==
    /\ stage = "whole"
    /\ IF TokenCount < MinChunkTokens \/ TokenCount <= MaxTokens
       THEN /\ chunks' = {Chunk(1, NumSegments, 0, tokens[1])}
            /\ stage' = "done" /\ UNCHANGED <<first, next, filled>>
       ELSE Begin(1) /\ UNCHANGED chunks
    /\ UNCHANGED <<tokens, back, overlap, pos>>

\* The candidate with the next segment fits.
Extend ==
    /\ stage = "fill" /\ next <= NumSegments
    /\ \E g \in JoinerTokens :
         /\ filled + g + tokens[next] <= MaxTokens
         /\ filled' = filled + g + tokens[next]
    /\ next' = next + 1
    /\ UNCHANGED <<tokens, first, back, overlap, pos, stage, chunks>>

\* No further segment fits.
ChunkFull ==
    /\ stage = "fill"
    /\ \/ next > NumSegments
       \/ next <= NumSegments /\ \E g \in JoinerTokens : filled + g + tokens[next] > MaxTokens

TooLong == next = first + 1 /\ tokens[first] > MaxTokens

EmitSegments ==
    /\ ChunkFull /\ ~TooLong
    /\ chunks' = chunks \cup {Chunk(first, next - 1, 0, tokens[first])}
    /\ IF next > NumSegments
       THEN stage' = "done" /\ UNCHANGED <<back, overlap>>
       ELSE stage' = "back" /\ back' = next - 1 /\ overlap' = 0
    /\ UNCHANGED <<tokens, first, next, filled, pos>>

SplitSegment ==
    /\ ChunkFull /\ TooLong
    /\ stage' = "window" /\ pos' = 0
    /\ UNCHANGED <<tokens, first, next, filled, back, overlap, chunks>>

\* _overlap_start: walk back while the trailing segments fit into the overlap.
FitsOverlap == back > first /\ overlap + tokens[back] <= OverlapTokens

WalkBack ==
    /\ stage = "back" /\ FitsOverlap
    /\ overlap' = overlap + tokens[back] /\ back' = back - 1
    /\ UNCHANGED <<tokens, first, next, filled, pos, stage, chunks>>

\* Mutant: the next chunk begins with the segment at which the walk stopped.
OverlapStart_OneEarly == back

\* The guard of the source against result <= chunk_start is never needed.
OverlapStart == IF back + 1 <= first THEN next ELSE back + 1

Advance ==
    /\ stage = "back" /\ ~FitsOverlap
    /\ Begin(OverlapStart)
    /\ UNCHANGED <<tokens, back, overlap, pos, chunks>>

\* _chunk_fixed: one window, and the position of the next.
\* Mutant: the step forgets that windows must touch.
WindowStep_NoOverlap == MaxTokens + OverlapTokens

\* Mutant: one token too few, and no step of at least one.
WindowStep_Backwards == MaxTokens - OverlapTokens - 1

WindowStep == IF MaxTokens > OverlapTokens THEN MaxTokens - OverlapTokens ELSE 1

Window ==
    /\ stage = "window"
    /\ LET end == IF pos + MaxTokens <= tokens[first] THEN pos + MaxTokens ELSE tokens[first]
       IN /\ chunks' = chunks \cup {Chunk(first, first, pos, end)}
          /\ IF end >= tokens[first]
             THEN Begin(first + 1) /\ UNCHANGED pos
             ELSE pos' = pos + WindowStep /\ UNCHANGED <<first, next, filled, stage>>
    /\ UNCHANGED <<tokens, back, overlap>>

ChunkingStep ==
    Whole \/ Extend \/ EmitSegments \/ SplitSegment \/ WalkBack \/ Advance \/ Window

ChunkingNext == Receive \/ ChunkingStep

ChunkingSpec == ChunkingInit /\ [][ChunkingNext]_chunkingVars

\* A loop that can go on does.
ChunkingFairness == WF_chunkingVars(ChunkingStep)

-----------------------------------------------------------------------------
(* Properties.                                                             *)

Holds(c, s, t) ==
    /\ c.first <= s /\ s <= c.last
    /\ c.first = c.last => c.from <= t /\ t < c.to

\* Whatever the lengths, the overlap and the joiners, no token of the text is
\* dropped between two chunks or two windows (_chunk_by_segments, _chunk_fixed).
ChunksCover ==
    stage = "done" =>
        \A s \in Segments : \A t \in 0..tokens[s] - 1 : \E c \in chunks : Holds(c, s, t)

\* The loops end: the overlap never takes a chunk back to where the last one began,
\* and the window moves on even if the overlap is as long as the chunk.
ChunkingEnds == stage = "whole" ~> stage = "done"
=============================================================================
