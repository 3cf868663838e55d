------------------------------ MODULE MCFinanceId ------------------------------
(* Two applications, of bank accounts and of IDs of every class.          *)
EXTENDS FinanceId

MCIdType == {"Birth certificate", Adoption, Divorce, Licence, NILetter, "Deed poll certificate"}

Bounds(kinds, new, bad) == [kinds |-> kinds, creates |-> new, mishaps |-> bad]

(* The bank account with two things going wrong; two kinds of ID that have *)
(* an answer in common, and the letter; the account beside an ID; the      *)
(* remaining kinds; appointments; both reports and the skip; documents.    *)
MCScenario ==
    { Bounds({"bank"}, 2, 2),
      Bounds({"Birth certificate", Licence, NILetter}, 2, 1),
      Bounds({"bank", Adoption}, 2, 1),
      Bounds({Divorce, "Deed poll certificate", Licence}, 2, 0),
      Bounds({"appointment"}, 2, 1),
      Bounds({"skip", "BCST2", "RESETTLEMENT_PLAN"}, 2, 1),
      Bounds({"document"}, 2, 1) }
=============================================================================
