----------------------------- MODULE MCWSStream -----------------------------
(* Small instances of WSStream; the cfg files give the constants.          *)
EXTENDS WSStream
=============================================================================
