--------------------------- MODULE MCPeerManager ---------------------------
(* Two peer objects, so that one can be stopped while the other serves, and
   limits that two of them reach.                                            *)
EXTENDS PeerManager

CONSTANTS p1, p2, h1, h2, a1

=============================================================================
