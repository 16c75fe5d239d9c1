---------------------------- MODULE MCPmksaCache ----------------------------
(***************************************************************************)
(* PmksaCache with PMKs that share hash chains.  BSSs without okc have     *)
(* nothing in common, so one is enough, with more supplicants than         *)
(* entries; okc needs two, and one supplicant can fill a cache.  Where     *)
(* there are several supplicants the last one is a P2P client, and another *)
(* of the addresses is that of its device.                                 *)
(***************************************************************************)
EXTENDS PmksaCache

CONSTANTS b1, b2, s1, s2, s3

SharedHash == [k \in Pmk |-> k % 2]

ClientOf(client, device) ==
  [s \in Spa |-> IF s = client THEN device ELSE NULL]

Installations ==
  {[okc |-> FALSE, bss |-> {b1}, spa |-> {s1, s2, s3},
    p2p_dev_addr |-> ClientOf(s3, s1), events |-> 5],
   [okc |-> TRUE, bss |-> {b1, b2}, spa |-> {s1, s2},
    p2p_dev_addr |-> ClientOf(s2, s1), events |-> 4],
   [okc |-> TRUE, bss |-> {b1, b2}, spa |-> {s1},
    p2p_dev_addr |-> [s \in Spa |-> NULL], events |-> 5]}
=============================================================================
