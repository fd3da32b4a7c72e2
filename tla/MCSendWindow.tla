---------------------------- MODULE MCSendWindow -----------------------------
(***************************************************************************)
(* Small windows.  The code's are 1024 requests wide with one signal every *)
(* 512.                                                                    *)
(***************************************************************************)
EXTENDS SendWindow

=============================================================================
