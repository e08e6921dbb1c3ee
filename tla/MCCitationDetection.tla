-------------------------- MODULE MCCitationDetection --------------------------
(* Every identity with a score on either side of each threshold or none, and every    *)
(* response: the detector has no other input.                                         *)
EXTENDS CitationDetection

const_Scores == {Nothing, 0, 39, 40, 69, 70}
const_MaxWords == 2
===============================================================================
