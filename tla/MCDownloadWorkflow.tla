------------------------- MODULE MCDownloadWorkflow -------------------------
(* Every command line, on tracks with at most two transcodings: enough for  *)
(* one to be preferred to another.                                          *)
EXTENDS DownloadWorkflow
=============================================================================
