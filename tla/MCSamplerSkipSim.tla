-------------------------- MODULE MCSamplerSkipSim --------------------------
(* TLC instance of SamplerSkipSim: the sampler of the first flow, that of  *)
(* the second, and one shared by both.                                     *)
EXTENDS SamplerSkipSim

MCCrews == {{0}, {1}, {0, 1}}
=============================================================================
