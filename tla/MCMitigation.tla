------------------------------ MODULE MCMitigation ------------------------------
(* MitigationRun with the values the runs use.                             *)
EXTENDS MitigationRun

CONSTANTS restart, scale

MCRemedies == {restart, scale}
===============================================================================
