---------------------------- MODULE MCTileCache ----------------------------
(* Model values for TileCache. *)
EXTENDS TileCache

CONSTANTS t1, t2, svg, small, png

MCThreads == {t1, t2}
MCSvgTiles == {svg, small}
MCPngTiles == {png}
MCSmallTiles == {small}
=============================================================================
