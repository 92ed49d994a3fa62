--------------------------- MODULE MCPtyLifecycle ---------------------------
(* PtyLifecycle with two sockets, and as many PTYs as they can start. *)
EXTENDS PtyLifecycle

CONSTANTS k1, k2, p1, p2

MCSockets2 == {k1, k2}
MCPtys2    == {p1, p2}
=============================================================================
