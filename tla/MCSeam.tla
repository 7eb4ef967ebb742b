------------------------------- MODULE MCSeam -------------------------------
(***************************************************************************)
(* The seam check on a token between blanks: " svc " is the one token of   *)
(* ARCH_WORDS that holds blanks (tools/sos_runner.py:986).                 *)
(***************************************************************************)
EXTENDS SeamScan

\* " svc " and a token of letters, cut to one and two characters.
Tokens == <<<<" ", "s", " ">>, <<"s", "v">>>>

=============================================================================
