----------------------------- MODULE MCGthrTime -----------------------------
\* GthrTime on three slots, with a clock of few values.
EXTENDS GthrTime
=============================================================================
