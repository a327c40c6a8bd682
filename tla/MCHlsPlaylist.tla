--------------------------- MODULE MCHlsPlaylist ---------------------------
(* Every playlist of at most MaxLines lines, served twice: long enough for  *)
(* two segments with a byte range before or between them, and for two       *)
(* variants.                                                                *)
EXTENDS HlsPlaylist
=============================================================================
