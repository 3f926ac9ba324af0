------------------------------ MODULE MCSession -----------------------------
(* An instance of Session for TLC; every constant is set in the cfg.        *)
EXTENDS Session
=============================================================================
