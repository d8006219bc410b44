------------------------------ MODULE MCServices ------------------------------
(***************************************************************************)
(* The services and libraries that keep no state in common.  As in         *)
(* MCBackground, a behaviour is about the component in focus while the     *)
(* others rest in one initial state.  The circuit breaker (Init, Next,     *)
(* vars) has a single caller here.                                         *)
(***************************************************************************)
EXTENDS RateLimit, LlmExtraction, VaultWatcher, BillingMirror, Marketplace, Chunking,
        CoherenceChunks, EntityDedup, MCCircuitBreaker, TLC

CONSTANT InFocus   \* the components a run looks at

ASSUME FocusAssumption ==
    InFocus \subseteq {"rate", "llm", "watcher", "billing", "marketplace", "chunking", "coherence", "dedup",
                       "breaker"}

\* Two deliveries of a webhook are alike.
HandlerSymmetry == Permutations(Handlers)

\* Two names are similar both ways, a third one to the first of them in one direction.
MCSimilar == {<<"n1", "n2">>, <<"n2", "n1">>, <<"n3", "n1">>}

VARIABLE focus

noRate == <<llmVars, watcherVars, billingVars, marketplaceVars, chunkingVars, coherenceVars, dedupVars, vars>>
noLlm == <<rateVars, watcherVars, billingVars, marketplaceVars, chunkingVars, coherenceVars, dedupVars, vars>>
noWatcher == <<rateVars, llmVars, billingVars, marketplaceVars, chunkingVars, coherenceVars, dedupVars, vars>>
noBilling == <<rateVars, llmVars, watcherVars, marketplaceVars, chunkingVars, coherenceVars, dedupVars, vars>>
noMarketplace == <<rateVars, llmVars, watcherVars, billingVars, chunkingVars, coherenceVars, dedupVars, vars>>
noChunking == <<rateVars, llmVars, watcherVars, billingVars, marketplaceVars, coherenceVars, dedupVars, vars>>
noCoherence == <<rateVars, llmVars, watcherVars, billingVars, marketplaceVars, chunkingVars, dedupVars, vars>>
noDedup == <<rateVars, llmVars, watcherVars, billingVars, marketplaceVars, chunkingVars, coherenceVars, vars>>
noBreaker == <<rateVars, llmVars, watcherVars, billingVars, marketplaceVars, chunkingVars, coherenceVars,
               dedupVars>>
servicesVars == <<focus, rateVars, noRate>>

\* Away from its focus, CoherenceChunks starts with sentences of one token.
ServicesInit ==
    /\ focus \in InFocus
    /\ RateInit /\ LlmInit /\ WatcherInit /\ BillingInit /\ MarketplaceInit /\ ChunkingInit /\ DedupInit
    /\ CoherenceInit /\ Init
    /\ focus # "coherence" =>
         /\ sentenceTokens = [s \in Sentences |-> 1] /\ blankTokens = [s \in Sentences \ {0} |-> 1]
         /\ Len(todo) = 1

ServicesNext ==
    /\ UNCHANGED focus
    /\ \/ focus = "rate" /\ RateNext /\ UNCHANGED noRate
       \/ focus = "llm" /\ LlmNext /\ UNCHANGED noLlm
       \/ focus = "watcher" /\ WatcherNext /\ UNCHANGED noWatcher
       \/ focus = "billing" /\ BillingNext /\ UNCHANGED noBilling
       \/ focus = "marketplace" /\ MarketplaceNext /\ UNCHANGED noMarketplace
       \/ focus = "chunking" /\ ChunkingNext /\ UNCHANGED noChunking
       \/ focus = "coherence" /\ CoherenceNext /\ UNCHANGED noCoherence
       \/ focus = "dedup" /\ DedupNext /\ UNCHANGED noDedup
       \/ focus = "breaker" /\ Next /\ UNCHANGED noBreaker

\* The fairness of the component in focus (LlmFairness, ChunkingFairness), over all
\* the variables.
ServicesSpec ==
    /\ ServicesInit /\ [][ServicesNext]_servicesVars
    /\ \A e \in Extractors :
         WF_servicesVars(focus = "llm" /\ Proceed(e) /\ UNCHANGED <<focus, noLlm>>)
    /\ WF_servicesVars(focus = "chunking" /\ ChunkingStep /\ UNCHANGED <<focus, noChunking>>)

ServicesTypeOK ==
    /\ RateTypeOK /\ LlmTypeOK /\ WatcherTypeOK /\ BillingTypeOK
    /\ MarketplaceTypeOK /\ ChunkingTypeOK /\ CoherenceTypeOK /\ DedupTypeOK
    /\ TypeOK
=============================================================================
