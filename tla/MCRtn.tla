------------------------------- MODULE MCRtn --------------------------------
(***************************************************************************)
(* Runs of the compiled machines of the sample grammars.                   *)
(***************************************************************************)
EXTENDS Rtn, SampleGrammars
=============================================================================
