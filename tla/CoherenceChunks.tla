----------------------------- MODULE CoherenceChunks -----------------------------
(***************************************************************************)
(* SemanticCoherenceChunker: sentences are grouped between breakpoints,    *)
(* groups that are too long are split in the middle, groups that are too   *)
(* short are merged into their predecessor.  (The overlap, which is put in *)
(* front of each group afterwards, is not modelled.)  A group is an        *)
(* interval of sentences, numbered from 0.  Which sentences are            *)
(* breakpoints depends on the embeddings: any set that respects the gap.   *)
(* The sentences of a group are joined by blanks, and a tokenizer may      *)
(* count a sentence otherwise when a blank precedes it.                    *)
(***************************************************************************)
EXTENDS Naturals, Sequences, FiniteSets, FiniteSetsExt, SequencesExt

CONSTANTS
    NumSentences,
    LongestSentence, \* bound: tokens of a sentence
    GroupMaxTokens,  \* max_tokens
    GroupMinTokens,  \* min_tokens
    MinGap,          \* min_sentences_per_group
    BlankTokens      \* tokens a blank may add to the sentence it precedes

ASSUME CoherenceAssumption ==
    /\ NumSentences \in Nat \ {0} /\ LongestSentence \in Nat
    /\ GroupMaxTokens \in Nat /\ GroupMinTokens \in Nat /\ MinGap \in Nat
    /\ BlankTokens \in Nat

VARIABLES
    sentenceTokens, \* of a sentence by itself, or at the beginning of a group
    blankTokens,    \* of a blank and the sentence behind it
    todo,           \* groups before the split, in order
    merged          \* groups done with, in order

coherenceVars == <<sentenceTokens, blankTokens, todo, merged>>

Sentences == 0..NumSentences - 1
Group(a, b) == [first |-> a, last |-> b]
Groups == [first : Sentences, last : Sentences]

CoherenceTypeOK ==
    /\ sentenceTokens \in [Sentences -> 1..LongestSentence]
    /\ blankTokens \in [Sentences \ {0} -> 1..LongestSentence + BlankTokens]
    /\ todo \in Seq(Groups) /\ merged \in Seq(Groups)

\* detect_breakpoints: inner local minima, at least a gap apart; two strict local
\* minima are never neighbours.
Breakpoints ==
    {B \in SUBSET (2..NumSentences - 2) :
        \A p, q \in B : p < q => q - p >= MinGap /\ q - p >= 2}

\* The members of a set of numbers, in order.
InOrder(S) ==
    CHOOSE s \in [1..Cardinality(S) -> S] : \A i, j \in 1..Cardinality(S) : i < j => s[i] < s[j]

\* _group_by_breakpoints.
GroupsBetween(B) ==
    LET starts == InOrder(B \cup {0})
        n == Cardinality(B \cup {0})
    IN [i \in 1..n |-> Group(starts[i], IF i < n THEN starts[i + 1] - 1 ELSE NumSentences - 1)]

CoherenceInit ==
    /\ sentenceTokens \in [Sentences -> 1..LongestSentence]
    /\ blankTokens \in [Sentences \ {0} -> 1..LongestSentence + BlankTokens]
    /\ \A s \in Sentences \ {0} : blankTokens[s] <= sentenceTokens[s] + BlankTokens
    /\ \E B \in Breakpoints : todo = GroupsBetween(B)
    /\ merged = <<>>

-----------------------------------------------------------------------------
\* _count_tokens of the joined sentences.
Tokens(g) == sentenceTokens[g.first] + MapThenSumSet(LAMBDA s : blankTokens[s], g.first + 1..g.last)

Oversized(g) == Tokens(g) > GroupMaxTokens /\ g.first < g.last

\* Half of the sentences go to the left.
Middle(g) == g.first + (g.last - g.first + 1) \div 2

\* _split_if_oversized.
Split ==
    /\ todo # <<>> /\ Oversized(Head(todo))
    /\ LET g == Head(todo)
       IN todo' = <<Group(g.first, Middle(g) - 1), Group(Middle(g), g.last)>> \o Tail(todo)
    /\ UNCHANGED <<sentenceTokens, blankTokens, merged>>

\* Mutant: the size of the result is not looked at.
CanMerge_AnySize(g) == merged # <<>> /\ Tokens(g) < GroupMinTokens

\* The counts of the parts are added: the blank between them is not counted.
CanMerge(g) ==
    /\ merged # <<>>
    /\ Tokens(g) < GroupMinTokens
    /\ Tokens(Last(merged)) + Tokens(g) <= GroupMaxTokens

\* The second phase looks only at groups the first one is done with.
Merge ==
    /\ todo # <<>> /\ ~Oversized(Head(todo))
    /\ LET g == Head(todo)
       IN merged' = IF CanMerge(g)
                    THEN Front(merged) \o <<Group(Last(merged).first, g.last)>>
                    ELSE Append(merged, g)
    /\ todo' = Tail(todo)
    /\ UNCHANGED <<sentenceTokens, blankTokens>>

CoherenceNext == Split \/ Merge
CoherenceSpec == CoherenceInit /\ [][CoherenceNext]_coherenceVars

-----------------------------------------------------------------------------
(* Properties.                                                             *)

Contiguous(gs) ==
    /\ gs # <<>> /\ gs[1].first = 0 /\ Last(gs).last = NumSentences - 1
    /\ \A i \in 1..Len(gs) : gs[i].first <= gs[i].last
    /\ \A i \in 1..Len(gs) - 1 : gs[i + 1].first = gs[i].last + 1

\* However groups are split and merged, every sentence stays in exactly one group,
\* in the order of the text.  A group of several sentences that is done with exceeds
\* the token limit by no more than the one blank its last merge did not count: the
\* excess does not build up from merge to merge (_enforce_token_limits).
GroupsPartition ==
    /\ Contiguous(merged \o todo)
    /\ \A i \in 1..Len(merged) :
         Tokens(merged[i]) <= GroupMaxTokens + BlankTokens \/ merged[i].first = merged[i].last
=============================================================================
