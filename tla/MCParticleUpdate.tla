--------------------------- MODULE MCParticleUpdate ---------------------------
(* ParticleUpdate for TLC.                                                   *)
EXTENDS ParticleUpdate
=============================================================================
