---------------------------- MODULE MCAesdSocket ----------------------------
(***************************************************************************)
(* Constant values for the runs of AesdSocket.                             *)
(***************************************************************************)
EXTENDS AesdSocket

CONSTANTS c1, c2, c3

NoClient     == {}
OneClient    == {c1}
TwoClients   == {c1, c2}
ThreeClients == {c1, c2, c3}
=============================================================================
