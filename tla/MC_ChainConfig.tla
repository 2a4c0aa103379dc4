--------------------------- MODULE MC_ChainConfig ---------------------------
(* Fork values -1 (rejected), 0, 1, 3 (within 2 bits) and 4 = 2^W (one     *)
(* past the width): every ordering and every nil pattern of five forks.    *)
EXTENDS ChainConfig

MCValues == {-1, 0, 1, 3, 4}
=============================================================================
