------------------------------ MODULE MCServer ------------------------------
(***************************************************************************)
(* Server for TLC: a request, two records, one of them approved.            *)
(***************************************************************************)
EXTENDS Server

CONSTANTS r1, t1, t2

TwoTokens == {t1, t2}
OneToken  == {t1}
=============================================================================
