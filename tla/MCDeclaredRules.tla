---------------------------- MODULE MCDeclaredRules ----------------------------
(* The declared rules on small instances: rows that keep them all, and rows that *)
(* break one rule each.                                                          *)
EXTENDS DeclaredRules, TLC

Good == [f \in Field |-> "short"]

LongNotes == [Good EXCEPT !["notes"] = "long"]

SpacesNumber == [Good EXCEPT !["from_number"] = "spaces"]

TabsNumber == [Good EXCEPT !["from_number"] = "tabs", !["notes"] = None]

MCSubmitted == {Good, LongNotes, SpacesNumber, TabsNumber}

MCStored == {Good, LongNotes, SpacesNumber}

MCDeclared == {[kind |-> "required", field |-> "from_number"],
               [kind |-> "max_length", field |-> "subject_type"],
               [kind |-> "max_length", field |-> "notes"]}

MCSubjectType == {"long"}

UpdateSymmetry == Permutations(Update)

================================================================================
