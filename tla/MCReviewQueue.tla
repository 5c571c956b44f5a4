---------------------------- MODULE MCReviewQueue -----------------------------
EXTENDS ReviewQueue
=============================================================================
