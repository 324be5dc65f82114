------------------------------- MODULE MCFwUp -------------------------------
(* Instances of the firmware update for TLC. *)
EXTENDS FwUp, SequencesExt

CONSTANTS t1, t2, img, long, b0, b1

MCByte == HeaderCell \cup {b0, b1}

\* img ends at a sector boundary.  long passes the header check, which counts the
\* body only, and ends behind the upgrade image area.
MCBase == (img :> SecSize) @@ (long :> CodeRunStart - 4)
MCBody == (img :> <<b0>>) @@ (long :> <<b0, b1, b0>>)
MCSig == (img :> 1) @@ (long :> 0)

\* Headers alone and with the first cell of the body, and cells of the bodies; a
\* task sends them in any order, too few or too many.
MixedPieces ==
    {Header(i) : i \in Image} \cup {Header(long) \o <<b0>>, <<b0>>, <<b0, b1>>}
TwoPieces == {Header(img), <<b0, b0>>}
=============================================================================
