---------------------------- MODULE MCCnameChain ----------------------------
(* Every alias map over four names, with chains cut after two follow-ups:  *)
(* cycles of each length and a chain longer than the limit fit.            *)
EXTENDS CnameChain
=============================================================================
