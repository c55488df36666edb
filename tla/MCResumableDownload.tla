------------------------- MODULE MCResumableDownload -------------------------
(* Small instances of ResumableDownload.                                   *)
EXTENDS ResumableDownload

Whole == [isRange |-> FALSE, start |-> -1, end |-> -1]
Bytes(a, b) == [isRange |-> TRUE, start |-> a, end |-> b]

\* The whole object, and ranges that begin in the first part, at a part's
\* border, in a later part, past the payload, with an open end, or reversed.
AllRequests ==
  {Whole, Bytes(0, 2), Bytes(1, 4), Bytes(2, 5), Bytes(3, -1), Bytes(5, 9),
   Bytes(3, 1)}

WholeObject == {Whole}

=============================================================================
