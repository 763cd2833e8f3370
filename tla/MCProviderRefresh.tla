------------------------- MODULE MCProviderRefresh -------------------------
\* Instance of ProviderRefresh.
EXTENDS ProviderRefresh, TLC
=============================================================================
