------------------------------ MODULE Services ------------------------------
(***************************************************************************)
(* The components around the graph that share no state with each other:    *)
(* LLM answers, the embedding client, templates, the hybrid query, the     *)
(* bandit, the chat history, the judge and the bootstrap of the schemas.   *)
(* One of them moves in a behaviour, the others stay as they are.          *)
(***************************************************************************)
EXTENDS Extraction, EmbeddingCache, Templates, HybridRetrieval, Bandit, ChatHistory,
        Judge, Bootstrap

CONSTANT Parts  \* the components that are checked

VARIABLE part

ServicesInit ==
  /\ part \in Parts
  /\ ExtractionInit /\ CacheInit /\ TemplatesInit /\ HybridInit /\ BanditInit
  /\ ChatInit /\ JudgeInit /\ BootstrapInit

ExtractionStep ==
  /\ part = "extraction" /\ ExtractionNext
  /\ UNCHANGED <<part, cacheVars, templateVars, hybridVars, banditVars,
                 chatVars, judgeVars, bootstrapVars>>
CacheStep ==
  /\ part = "cache" /\ CacheNext
  /\ UNCHANGED <<part, extractionVars, templateVars, hybridVars, banditVars,
                 chatVars, judgeVars, bootstrapVars>>
TemplatesStep ==
  /\ part = "templates" /\ TemplatesNext
  /\ UNCHANGED <<part, extractionVars, cacheVars, hybridVars, banditVars,
                 chatVars, judgeVars, bootstrapVars>>
HybridStep ==
  /\ part = "hybrid" /\ HybridNext
  /\ UNCHANGED <<part, extractionVars, cacheVars, templateVars, banditVars,
                 chatVars, judgeVars, bootstrapVars>>
BanditStep ==
  /\ part = "bandit" /\ BanditNext
  /\ UNCHANGED <<part, extractionVars, cacheVars, templateVars, hybridVars,
                 chatVars, judgeVars, bootstrapVars>>
ChatStep ==
  /\ part = "chat" /\ ChatNext
  /\ UNCHANGED <<part, extractionVars, cacheVars, templateVars, hybridVars,
                 banditVars, judgeVars, bootstrapVars>>
JudgeStep ==
  /\ part = "judge" /\ JudgeNext
  /\ UNCHANGED <<part, extractionVars, cacheVars, templateVars, hybridVars,
                 banditVars, chatVars, bootstrapVars>>
BootstrapStep ==
  /\ part = "bootstrap" /\ BootstrapNext
  /\ UNCHANGED <<part, extractionVars, cacheVars, templateVars, hybridVars,
                 banditVars, chatVars, judgeVars>>

ServicesNext ==
  \/ ExtractionStep \/ CacheStep \/ TemplatesStep \/ HybridStep
  \/ BanditStep \/ ChatStep \/ JudgeStep \/ BootstrapStep

services ==
  <<part, extractionVars, cacheVars, templateVars, hybridVars, banditVars, chatVars,
    judgeVars, bootstrapVars>>

ServicesSpec == ServicesInit /\ [][ServicesNext]_services
=============================================================================
