------------------------------- MODULE MCLLM ---------------------------------
\* A provider that is paid by the token and a local one that is free.
EXTENDS LLMService, TLC

MCChain == <<"cloud", "local">>
MCEstimates == "cloud" :> {1, 2} @@ "local" :> {0}
MCCosts == "cloud" :> {1, 3} @@ "local" :> {0}
==============================================================================
