--------------------------- MODULE MCDownloadClock ---------------------------
(* The instance of DownloadClock that TLC checks.                          *)
EXTENDS DownloadClock
=============================================================================
