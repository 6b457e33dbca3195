------------------------------ MODULE MCVisionLink ------------------------------
(* The vision link for TLC: enough images for one to be stored while two others *)
(* are compared.                                                                *)
EXTENDS VisionLink
===============================================================================
