--------------------------- MODULE MCUpstreamFetch ---------------------------
(* Instances of UpstreamFetch for TLC. *)
EXTENDS UpstreamFetch, TLC

CONSTANTS h1, h2, f1, f2

\* f1 downloads over two mirrors, proxies a request to the second of them, or has
\* no mirror at all; f2 keeps asking the mirror they share for publish dates, so
\* that its circuit opens and closes, and its token and slot are taken, under f1.
SharedJobs ==
  f1 :> {<<"download", <<h1, h2>>>>, <<"transparent", <<h2>>>>, <<"metadata", <<>>>>}
  @@ f2 :> {<<"metadata", <<h2>>>>}

\* The bound on the run: f2 sets out only while f1 is on its way to its mirrors,
\* and f1 only while f2 rests and no circuit is left open.  Only Begin is
\* restrained, which no fairness is assumed of.
Focus ==
  /\ fpc[f2] = "idle" /\ fpc'[f2] # "idle" => fpc[f1] \in {"try", "call"}
  /\ fpc[f1] = "idle" /\ fpc'[f1] # "idle" => fpc[f2] = "idle" /\ ~\E h \in Hosts : isOpen(h)
=============================================================================
