----------------------------- MODULE MCParseLoop -----------------------------
(***************************************************************************)
(* ParseLoop for TLC: a header of two units and up to three more, so that  *)
(* a demo may be cut in its header, in a prefix or in a payload, and three *)
(* frames fit; a length of -1 or -3 reads the same frame, or the header,   *)
(* again.                                                                  *)
(***************************************************************************)
EXTENDS ParseLoop

MCLengths == {-3, -1, 0, 1}

\* The lengths a recorder writes.
MCForward == {0, 1}

=============================================================================
