---------------------------- MODULE MCUdpChannel ----------------------------
(* Small instances of UdpChannel for TLC. *)
EXTENDS UdpChannel, TLC

\* Callers differ only in their name, and so do readers; no safety property
\* names one.
CallerSymmetry == Permutations(Callers)
ReaderSymmetry == Permutations(Readers)
=============================================================================
