--------------------------- MODULE MC_IBPipeline ---------------------------
(* Small instances of IBPipeline for TLC.                                  *)
EXTENDS IBPipeline

OneSymbol == <<"TQQQ">>
TwoSymbols == <<"TQQQ", "TMF">>

(* Short one share, or long two.                                           *)
LongShort == {-1, 2}
=============================================================================
