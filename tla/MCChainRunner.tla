---------------------------- MODULE MCChainRunner ----------------------------
(* Two chains; warmup, samples and thin that every sum fits, with a thinning *)
(* of one and of two, without samples and without warmup; and, four being    *)
(* the largest int, a thinning beside which the sum over the samples wraps.  *)
EXTENDS ChainRunner

MCSizes == {<<1, 2, 2>>, <<1, 0, 2>>, <<0, 2, 1>>, <<0, 2, 4>>}
=============================================================================
