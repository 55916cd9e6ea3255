------------------------- MODULE MCSubchannelFanout -------------------------
(***************************************************************************)
(* A small instance of SubchannelFanout for TLC: the pool is smaller than  *)
(* the largest channel, so that a worker takes several subchannels.        *)
(***************************************************************************)
EXTENDS SubchannelFanout

SomeSubchannels == 1..3
=============================================================================
