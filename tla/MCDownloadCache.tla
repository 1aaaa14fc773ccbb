-------------------------- MODULE MCDownloadCache --------------------------
(* Instances of DownloadCache for TLC.                                       *)
EXTENDS DownloadCache
=============================================================================
