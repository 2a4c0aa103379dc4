---------------------------- MODULE MC_Firehose ----------------------------
(* Model-checking instance of the Firehose tracer.  With MaxDepth = 3 a    *)
(* root call can have nested children (so a child can outlive a failed or *)
(* survive a reverted parent), and MaxOrdinal bounds each block's length.  *)
EXTENDS Firehose
=============================================================================
