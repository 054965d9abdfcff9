----------------------------- MODULE MCHandlers -----------------------------
EXTENDS Handlers

\* Every handler, one after the other: a run starts with any of them.
AllKinds == {"kafka", "opensearch", "valkey"}
=============================================================================
