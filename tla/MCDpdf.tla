------------------------------- MODULE MCDpdf -------------------------------
(* A small distribution for Dpdf: see MCDpdf.cfg and MCDpdfZero.cfg.       *)
EXTENDS DpdfProps
=============================================================================
