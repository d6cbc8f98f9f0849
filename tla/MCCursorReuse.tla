---------------------------- MODULE MCCursorReuse ----------------------------
(* A one-octet, a two-octet and a four-octet array. *)
EXTENDS CursorReuse

MCArrays == {<<1>>, <<3, 1>>, <<1, 2, 1, 0>>}
MCRegions == {Extent(1, 1), Extent(2, 2)}
=============================================================================
