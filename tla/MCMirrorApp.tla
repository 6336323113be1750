---------------------------- MODULE MCMirrorApp ----------------------------
(***************************************************************************)
(* MirrorApp for TLC.                                                      *)
(***************************************************************************)
EXTENDS MirrorApp, TLC

CONSTANTS h1, h2

\* The first target is mirrored from both hosts, the second from one.
MCSeen == {<<1, h1>>, <<1, h2>>, <<2, h1>>}

\* The second target's interface is in the topology and has no address there (DHCP).
MCTopology == <<"absent", "noAddress">>
=============================================================================
