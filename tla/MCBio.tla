------------------------------- MODULE MCBio -------------------------------
(* Bio with fewer buffers than blocks.                                     *)
EXTENDS Bio
=============================================================================
