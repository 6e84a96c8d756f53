--------------------------- MODULE MCPeerService ---------------------------
(* PeerService with a seed node and two other peers. *)
EXTENDS PeerService

CONSTANTS seed, peer, me, none

MCAddresses == {seed, peer, me, none}
MCSeeds == <<seed>>
============================================================================
