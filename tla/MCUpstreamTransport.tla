------------------------ MODULE MCUpstreamTransport ------------------------
(* Instances of UpstreamTransport for TLC. *)
EXTENDS UpstreamTransport, TLC

CallSymmetry == Permutations(Calls)
=============================================================================
