------------------------------ MODULE EntityDedup ------------------------------
(***************************************************************************)
(* EntityDeduplicationService: the entities of a chunk are resolved, each  *)
(* with a SELECT of its own, against the rows of their type, then each is  *)
(* upserted together with its mention, all in the transaction of the       *)
(* caller, who is external.  An upsert waits for another transaction that  *)
(* has touched the same row.  The same chunk may be extracted again, and   *)
(* goes with its document when that is deleted.  Names are normalized; how *)
(* similar they are is a parameter.                                        *)
(***************************************************************************)
EXTENDS Naturals, Sequences, FiniteSets

CONSTANTS
    Names,
    Similar,        \* <<new name, name of a row>> whose ratio reaches the threshold
    TextChunks,
    Transactions,   \* transactions that may overlap
    MaxBatches      \* bound: extracted chunks, again and again

ASSUME DedupAssumption ==
    /\ IsFiniteSet(Names) /\ Names # {} /\ IsFiniteSet(TextChunks) /\ TextChunks # {}
    /\ Similar \subseteq {p \in Names \X Names : p[1] # p[2]}
    /\ MaxBatches \in Nat

VARIABLES
    mentionCount, \* committed entities; 0: no row
    mentions,     \* committed entity_mentions
    chunkRows,    \* chunks that exist
    txn,          \* per transaction: what is left to do and what it has touched
    batches,
    again,        \* history: entities met once more in a chunk that mentions them
    unlinked,     \* history: mentions that went with their chunk, per entity
    parallel      \* history: pairs of names that were new at the same time

dedupVars == <<mentionCount, mentions, chunkRows, txn, batches, again, unlinked, parallel>>

NoTxn == [open |-> FALSE, chunk |-> CHOOSE c \in TextChunks : TRUE,
          names |-> <<>>, targets |-> <<>>, new |-> {}, hits |-> [n \in Names |-> 0]]

DedupTypeOK ==
    /\ mentionCount \in [Names -> Nat]
    /\ mentions \subseteq Names \X TextChunks /\ chunkRows \subseteq TextChunks
    /\ txn \in [Transactions -> [open : BOOLEAN, chunk : TextChunks, names : Seq(Names),
                                 targets : Seq(Names), new : SUBSET Names, hits : [Names -> Nat]]]
    /\ batches \in 0..MaxBatches
    /\ again \subseteq Names /\ unlinked \in [Names -> Nat] /\ parallel \subseteq SUBSET Names

DedupInit ==
    /\ mentionCount = [n \in Names |-> 0] /\ mentions = {} /\ chunkRows = TextChunks
    /\ txn = [x \in Transactions |-> NoTxn]
    /\ batches = 0 /\ again = {} /\ unlinked = [n \in Names |-> 0] /\ parallel = {}

-----------------------------------------------------------------------------
\* The entities of one chunk are distinct.
Batch == {<<n>> : n \in Names} \cup {b \in Names \X Names : b[1] # b[2]}

BeginBatch(x, c, batch) ==
    /\ ~txn[x].open /\ c \in chunkRows /\ batches < MaxBatches
    /\ batches' = batches + 1
    /\ txn' = [txn EXCEPT ![x] = [NoTxn EXCEPT !.open = TRUE, !.chunk = c, !.names = batch]]
    /\ UNCHANGED <<mentionCount, mentions, chunkRows, again, unlinked, parallel>>

HasRow(n) == mentionCount[n] > 0
SimilarRows(n) == {m \in Names : HasRow(m) /\ <<n, m>> \in Similar}

\* Mutant: fuzzy matching finds nothing.
Resolved_Exact(n) == {n}

\* _find_fuzzy_match: a row with this very name comes first, then the best match.
Resolved(n) == IF HasRow(n) \/ SimilarRows(n) = {} THEN {n} ELSE SimilarRows(n)

NewElsewhere == UNION {txn[y].new : y \in Transactions}

Resolve(x) ==
    /\ txn[x].open /\ txn[x].names # <<>>
    /\ \E m \in Resolved(Head(txn[x].names)) :
         /\ txn' = [txn EXCEPT ![x].names = Tail(@),
                               ![x].targets = Append(@, m),
                               ![x].new = IF HasRow(m) THEN @ ELSE @ \cup {m}]
         /\ parallel' = IF HasRow(m)
                        THEN parallel
                        ELSE parallel \cup {{m, k} : k \in NewElsewhere}
    /\ UNCHANGED <<mentionCount, mentions, chunkRows, batches, again, unlinked>>

Working(x) == txn[x].open /\ txn[x].names = <<>>
WaitsFor(x, y) ==
    /\ x # y /\ Working(x) /\ txn[x].targets # <<>>
    /\ txn[y].hits[Head(txn[x].targets)] > 0

\* INSERT ... ON CONFLICT DO UPDATE, then the mention, whose chunk must exist.  The
\* statement is taken as it is meant: text() probably does not read the parameter in
\* ":metadata::jsonb", and then every upsert fails before it is sent.
UpsertEntity(x) ==
    /\ Working(x) /\ txn[x].targets # <<>> /\ txn[x].chunk \in chunkRows
    /\ \A y \in Transactions : ~WaitsFor(x, y)
    /\ txn' = [txn EXCEPT ![x].targets = Tail(@), ![x].hits[Head(txn[x].targets)] = @ + 1]
    /\ UNCHANGED <<mentionCount, mentions, chunkRows, batches, again, unlinked, parallel>>

\* Mutant: the conflict clause updates last_seen only.
CountAfter_SeenOnly(n, hits) == IF hits > 0 /\ mentionCount[n] = 0 THEN 1 ELSE mentionCount[n]

CountAfter(n, hits) == mentionCount[n] + hits

CommitBatch(x) ==
    /\ Working(x) /\ txn[x].targets = <<>>
    /\ LET hit == {n \in Names : txn[x].hits[n] > 0}
       IN /\ mentionCount' = [n \in Names |-> CountAfter(n, txn[x].hits[n])]
          /\ mentions' = mentions \cup (hit \X {txn[x].chunk})
          /\ again' = again \cup {n \in hit : txn[x].hits[n] > 1 \/ <<n, txn[x].chunk>> \in mentions}
    /\ txn' = [txn EXCEPT ![x] = NoTxn]
    /\ UNCHANGED <<chunkRows, batches, unlinked, parallel>>

\* A statement fails, because the chunk is gone or PostgreSQL breaks a deadlock of two transactions
\* that upsert in opposite order: every later statement of the transaction fails
\* too and its commit is a rollback, though the result lists what came before.
AbortBatch(x) ==
    /\ txn[x].open
    /\ txn' = [txn EXCEPT ![x] = NoTxn]
    /\ UNCHANGED <<mentionCount, mentions, chunkRows, batches, again, unlinked, parallel>>

\* A chunk is deleted with its document (a disconnected or revoked source, a file
\* missing from an upload): entity_mentions cascades, mention_count stays.  The DELETE
\* waits for a transaction that has inserted a mention of the chunk.
DeleteChunk(c) ==
    /\ c \in chunkRows
    /\ \A x \in Transactions : txn[x].chunk = c => \A n \in Names : txn[x].hits[n] = 0
    /\ chunkRows' = chunkRows \ {c}
    /\ mentions' = mentions \ (Names \X {c})
    /\ unlinked' = [n \in Names |-> IF <<n, c>> \in mentions THEN unlinked[n] + 1 ELSE unlinked[n]]
    /\ UNCHANGED <<mentionCount, txn, batches, again, parallel>>

DedupNext ==
    \/ \E x \in Transactions :
         \/ \E c \in TextChunks, b \in Batch : BeginBatch(x, c, b)
         \/ Resolve(x) \/ UpsertEntity(x) \/ CommitBatch(x) \/ AbortBatch(x)
    \/ \E c \in TextChunks : DeleteChunk(c)

DedupSpec == DedupInit /\ [][DedupNext]_dedupVars

-----------------------------------------------------------------------------
(* Properties.                                                             *)

\* mention_count and the rows of entity_mentions are written by two statements with
\* different rules for repetition, and a chunk that is deleted takes its rows along:
\* the count never falls behind the rows there are and were, however extractions and
\* deletions overlap or break off, and runs ahead of them only for entities that were
\* met again in the same chunk (_upsert_entity, _create_mention).
MentionsCounted ==
    \A n \in Names :
        LET rows == Cardinality({c \in TextChunks : <<n, c>> \in mentions}) + unlinked[n]
        IN rows <= mentionCount[n] /\ (n \notin again => rows = mentionCount[n])

\* Two names that are similar whichever comes first share one row unless they were
\* new at the same time, in one chunk or in two transactions that could not see each
\* other (_resolve_fuzzy_matches looks at all names of a chunk before it inserts any).
Alike == {{p[1], p[2]} : p \in {q \in Similar : <<q[2], q[1]>> \in Similar}}
DuplicatesExplained ==
    \A p \in Alike : (\A n \in p : HasRow(n)) => p \in parallel
=============================================================================
