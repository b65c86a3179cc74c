---------------------------- MODULE MCReputation -----------------------------
\* The chain of DomainListed, without its third provider.
EXTENDS ReputationClient

MCChain == <<"urlhaus", "openphish">>
==============================================================================
