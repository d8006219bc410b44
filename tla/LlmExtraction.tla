----------------------------- MODULE LlmExtraction -----------------------------
(***************************************************************************)
(* One LLM request from the daily limit to the stored usage: LLMEntity-    *)
(* Extractor.extract over StructuredOutputService.generate (one repair     *)
(* prompt) over LLMGateway.generate (providers in turn, retries, the cache *)
(* of answers as last resort).  The coroutines of one process share the    *)
(* gateway, its cache and the usage of one user.  A step is what runs      *)
(* between two awaits that suspend.                                        *)
(***************************************************************************)
EXTENDS Naturals, FiniteSets

CONSTANTS
    Extractors,     \* coroutines that extract
    Chunks,         \* chunk texts
    Providers,      \* length of the cascade of configured providers
    GatewayRetries, \* LLMConfig.max_retries
    Repairs,        \* StructuredOutputService.max_retries
    MaxDailyCalls,
    MaxExtractions, \* bound: extractions begun on one day
    LastDay         \* bound

ASSUME LlmAssumption ==
    /\ IsFiniteSet(Extractors) /\ IsFiniteSet(Chunks) /\ Chunks # {}
    /\ Providers \in Nat \ {0} /\ GatewayRetries \in Nat /\ Repairs \in Nat
    /\ MaxDailyCalls \in Nat \ {0} /\ MaxExtractions \in Nat /\ LastDay \in Nat

Days == 0..LastDay
Contents == {"valid", "malformed"}

\* The prompt of a chunk; round 0 is the task, the others ask to repair the answer.
Prompts == Chunks \X (0..Repairs)

VARIABLES
    day,
    callCount,   \* the user's DailyUsage per day
    answers,     \* the gateway's cache: prompt to content
    extraction,  \* per coroutine: where it is
    begun,    \* history: extractions begun per day, each with a call at least
    unbooked     \* history: of these, the ones that ended without being booked

llmHistory == <<begun, unbooked>>
llmVars == <<day, callCount, answers, extraction, llmHistory>>

NoExtraction ==
    [at |-> "idle", chunk |-> CHOOSE k \in Chunks : TRUE, round |-> 0, provider |-> 1,
     attempt |-> 0, since |-> 0]

Extractions ==
    [at : {"idle", "asking", "recording"}, chunk : Chunks, round : 0..Repairs,
     provider : 1..Providers, attempt : 0..GatewayRetries, since : Days]

LlmTypeOK ==
    /\ day \in Days
    /\ callCount \in [Days -> Nat] /\ begun \in [Days -> Nat] /\ unbooked \in [Days -> Nat]
    /\ answers \in [Prompts -> Contents \cup {"none"}]
    /\ extraction \in [Extractors -> Extractions]

LlmInit ==
    /\ day = 0
    /\ callCount = [d \in Days |-> 0] /\ begun = callCount /\ unbooked = callCount
    /\ answers = [p \in Prompts |-> "none"]
    /\ extraction = [e \in Extractors |-> NoExtraction]

-----------------------------------------------------------------------------
(* Limits.                                                                 *)

Move(e, x) == extraction' = [extraction EXCEPT ![e] = x]
End(e) == Move(e, NoExtraction)

EndUnbooked(e) ==
    /\ End(e)
    /\ unbooked' = [unbooked EXCEPT ![extraction[e].since] = @ + 1]
    /\ UNCHANGED begun

\* Mutant: the comparison lets one call more pass.
WithinLimit_OneMore == callCount[day] <= MaxDailyCalls

WithinLimit == callCount[day] < MaxDailyCalls

InFlight == {e \in Extractors : extraction[e].at # "idle"}

\* check_limits passes, and without a suspension the first request follows.  A
\* coroutine that is refused, for the calls, the costs or its tokens, changes nothing.
Start(e, k) ==
    /\ extraction[e].at = "idle" /\ WithinLimit /\ begun[day] < MaxExtractions
    /\ Move(e, [NoExtraction EXCEPT !.at = "asking", !.chunk = k, !.since = day])
    /\ begun' = [begun EXCEPT ![day] = @ + 1]
    /\ UNCHANGED <<day, callCount, answers, unbooked>>

-----------------------------------------------------------------------------
(* The gateway.                                                            *)

PromptOf(e) == <<extraction[e].chunk, extraction[e].round>>

\* Mutant: the round of the repair is not counted.
UseContent_RepairsForever(e, content) ==
    /\ IF content = "valid"
       THEN Move(e, [extraction[e] EXCEPT !.at = "recording"])
       ELSE Move(e, [extraction[e] EXCEPT !.provider = 1, !.attempt = 0])
    /\ UNCHANGED llmHistory

\* What generate does with the content: hand it on, ask for a repair, or give up:
\* then extract returns before it records anything.
UseContent(e, content) ==
    \/ /\ content = "valid"
       /\ Move(e, [extraction[e] EXCEPT !.at = "recording"])
       /\ UNCHANGED llmHistory
    \/ /\ content # "valid" /\ extraction[e].round < Repairs
       /\ Move(e, [extraction[e] EXCEPT !.round = @ + 1, !.provider = 1, !.attempt = 0])
       /\ UNCHANGED llmHistory
    \/ /\ content # "valid" /\ extraction[e].round >= Repairs
       /\ EndUnbooked(e)

ProviderAnswers(e, content) ==
    /\ extraction[e].at = "asking"
    /\ answers' = [answers EXCEPT ![PromptOf(e)] = content]
    /\ UseContent(e, content)
    /\ UNCHANGED <<day, callCount>>

\* Timeouts, rate limits and server errors are retried with the same provider.
Transient(e) ==
    /\ extraction[e].at = "asking" /\ extraction[e].attempt < GatewayRetries
    /\ Move(e, [extraction[e] EXCEPT !.attempt = @ + 1])
    /\ UNCHANGED <<day, callCount, answers, llmHistory>>

\* Any other error, or the last attempt: the next provider of the cascade.
NextProvider(e) ==
    /\ extraction[e].at = "asking" /\ extraction[e].provider < Providers
    /\ Move(e, [extraction[e] EXCEPT !.provider = @ + 1, !.attempt = 0])
    /\ UNCHANGED <<day, callCount, answers, llmHistory>>

\* No provider is left: the cached answer to this prompt, or ProviderError,
\* which extract does not catch.
CascadeFails(e) ==
    /\ extraction[e].at = "asking" /\ extraction[e].provider = Providers
    /\ IF answers[PromptOf(e)] # "none"
       THEN UseContent(e, answers[PromptOf(e)])
       ELSE EndUnbooked(e)
    /\ UNCHANGED <<day, callCount, answers>>

-----------------------------------------------------------------------------
(* Usage.                                                                  *)

\* record_usage books one call on the day it runs, cached answers and the rounds of a
\* repair included.
Record(e) ==
    /\ extraction[e].at = "recording"
    /\ callCount' = [callCount EXCEPT ![day] = @ + 1]
    /\ End(e)
    /\ UNCHANGED <<day, answers, llmHistory>>

\* An error of the store is logged and swallowed.
RecordFails(e) ==
    /\ extraction[e].at = "recording"
    /\ EndUnbooked(e)
    /\ UNCHANGED <<day, callCount, answers>>

Midnight ==
    /\ day < LastDay
    /\ day' = day + 1
    /\ UNCHANGED <<callCount, answers, extraction, llmHistory>>

Proceed(e) ==
    \/ \E c \in Contents : ProviderAnswers(e, c)
    \/ Transient(e) \/ NextProvider(e) \/ CascadeFails(e)
    \/ Record(e) \/ RecordFails(e)

LlmNext ==
    \/ \E e \in Extractors :
         (\E k \in Chunks : Start(e, k)) \/ Proceed(e)
    \/ Midnight

LlmSpec == LlmInit /\ [][LlmNext]_llmVars

\* Requests time out, so every coroutine goes on.
LlmFairness == \A e \in Extractors : WF_llmVars(Proceed(e))

-----------------------------------------------------------------------------
(* Properties.                                                             *)

\* check_limits and record_usage are apart by a whole LLM call, a call may be booked
\* on the day after its check, and some are never booked: a malformed answer, an error
\* of all providers and a store that fails end the extraction before.  What is booked
\* exceeds the limit of a day by less than the number of coroutines, the ones from
\* yesterday included, and nothing but those three lets a user begin more.
OvershootBounded ==
    \A d \in Days :
        /\ callCount[d] < MaxDailyCalls + Cardinality(Extractors)
        /\ begun[d] < MaxDailyCalls + Cardinality(Extractors) + unbooked[d]

\* Every extraction comes to an end, whatever the providers answer.
ExtractionEnds == \A e \in Extractors : extraction[e].at # "idle" ~> extraction[e].at = "idle"
=============================================================================
