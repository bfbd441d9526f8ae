--------------------------- MODULE MCSeekCoverage ---------------------------
(* One state of two classifications, the first with a subclassification,     *)
(* and a state that need not be split.                                       *)
EXTENDS SeekCoverage

MCStates == <<"nsw", "act">>
MCKids == [n \in {"nsw", "act", "ict", "sales", "dev"} |->
             CASE n = "nsw" -> <<"ict", "sales">>
               [] n = "ict" -> <<"dev">>
               [] OTHER -> <<>>]
=============================================================================
