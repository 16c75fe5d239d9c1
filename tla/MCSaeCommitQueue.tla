-------------------------- MODULE MCSaeCommitQueue --------------------------
(***************************************************************************)
(* SaeCommitQueue with two stations and two groups.                        *)
(***************************************************************************)
EXTENDS SaeCommitQueue

CONSTANTS s1, s2

\* s1 makes one attempt; s2 makes two with one group, so that the second finds
\* the session of the first, and one with another, which clears it.
OneAndThree ==
  [s \in Stations |-> IF s = s1 THEN <<19, 0, 0>> ELSE <<19, 19, 20>>]
=============================================================================
