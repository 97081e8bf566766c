----------------------------- MODULE MCNvmeOpera -----------------------------
(* Model-checking instances of NvmeOpera.                                  *)
EXTENDS NvmeOpera
=============================================================================
