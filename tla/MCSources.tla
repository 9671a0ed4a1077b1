------------------------------ MODULE MCSources ------------------------------
(***************************************************************************)
(* Instances of Sources.                                                   *)
(***************************************************************************)
EXTENDS Sources

LineIn(i, t, h) == [input |-> i, signal |-> [threshold |-> t, hold |-> h]]
With(u, w) == [url |-> u, sources |-> [c \in Clients |-> w]]

\* One input, twice with different settings; another one; none; no endpoint.
OneLine == { With(TRUE, LineIn(1, 1, 1)), With(TRUE, LineIn(1, 0, 1)),
             With(TRUE, LineIn(2, 1, 0)), With(TRUE, None), With(FALSE, LineIn(1, 1, 1)) }
=============================================================================
