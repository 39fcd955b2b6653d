---------------------------- MODULE MCSegmentWorker ----------------------------
EXTENDS SegmentWorker, SegmentDamage
=============================================================================
