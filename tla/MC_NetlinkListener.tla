------------------------- MODULE MC_NetlinkListener -------------------------
(***************************************************************************)
(* NetlinkListener for TLC.  The buffer holds one long message, or two     *)
(* short ones of a dump; lists without attributes, with one of a length    *)
(* that is not a multiple of four, with two, and one that is too long for  *)
(* the buffer.  A payload word read as a length of 0 ends an attribute     *)
(* loop; one of 4 does not.                                                *)
(***************************************************************************)
EXTENDS NetlinkListener

\* The words at which attributes of these lengths begin, and their end.
Offsets(attrs) ==
  [nr \in 0 .. Len(attrs) |->
     FoldLeft(LAMBDA sum, l : sum + WordsOf(l), 0, SubSeq(attrs, 1, nr))]

Content(attrs, data) ==
  [attrs |-> attrs, at |-> Offsets(attrs), data |-> data]

MCEventContents ==
  {Content(<<>>, 4), Content(<<9>>, 4), Content(<<8, 5>>, 0), Content(<<24, 24>>, 0)}
MCLinkContents == {Content(<<>>, 0), Content(<<9>>, 4)}
MCJunk == {0, 4}
=============================================================================
