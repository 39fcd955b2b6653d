--------------------------- MODULE MCSegmentWorkerV2 ---------------------------
EXTENDS SegmentWorkerV2, SegmentDamage
=============================================================================
