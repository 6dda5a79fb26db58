---------------------------- MODULE MCHydraWrites ----------------------------
(***************************************************************************)
(* Two statements of vertices and one of relationships; a row that alone   *)
(* is over the byte budget, and chunks closed by bytes and by rows.        *)
(***************************************************************************)
EXTENDS HydraWrites

MCVertexGroups == << <<1, 1, 3, 1, 1>>, <<4>> >>
MCEdgeGroups == << <<1, 2, 1, 1>> >>
=============================================================================
