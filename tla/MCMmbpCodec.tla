----------------------------- MODULE MCMmbpCodec ----------------------------
(***************************************************************************)
(* TLC instances of MmbpCodec: every way to cut a few short streams.       *)
(***************************************************************************)
EXTENDS MmbpCodec

Msg(hlen, size) ==
    [hlen |-> hlen, size |-> size, len |-> size, sum |-> TRUE, tag |-> TRUE]

\* Good messages with size headers of one and two cells; next to them one with a
\* wrong checksum, a wrong tag, a size that is too small, too large, more than
\* what follows, one that is itself as large as the limit allows, and one whose
\* header is too long for its size but is skipped as garbage.
MCStreams ==
    { <<Msg(1, 2), Msg(2, 4), Msg(1, 3)>>,
      <<Msg(1, 3), [Msg(1, 3) EXCEPT !.sum = FALSE], Msg(1, 2)>>,
      <<Msg(2, 2), [Msg(1, 4) EXCEPT !.tag = FALSE], Msg(2, 3)>>,
      <<Msg(1, 2), Msg(1, 1), Msg(1, 2)>>,
      <<Msg(1, 2), [Msg(2, 2) EXCEPT !.size = 10], Msg(1, 2)>>,
      <<[Msg(1, 2) EXCEPT !.size = 4], Msg(1, 2), Msg(1, 2)>>,
      <<Msg(1, 8), Msg(1, 2)>>,
      <<[Msg(1, 2) EXCEPT !.sum = FALSE], Msg(2, 8)>> }
=============================================================================
