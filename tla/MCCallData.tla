------------------------------- MODULE MCCallData -------------------------------
(* Small inputs for CallData, every combination of them: one state per CDR, per    *)
(* page asked for, per body and keys of it already applied to a call.             *)
EXTENDS CallData

CONSTANTS c1, u1, v1, v2

Times == -2 .. 9

Cdrs ==
    [direction : {"inbound"}, status : {"completed", "missed"}, numbers : {"given"},
     external_id : {None}, answered_at : Times \cup {None},
     ended_at : Times \cup {None}, subject : {None}, overlong : {FALSE}]

(* A list longer than the width of the request's numbers, too. *)
Listings == [total : 0 .. Modulus + 2, page : Numbers, per_page : Numbers]

(* Calls and bodies that differ in a required, an optional and a one-word field,  *)
(* the first also in its other spelling.                                         *)
Keys == {<<"from_number", "snake">>, <<"from_number", "camel">>, <<"subject_id", "snake">>, <<"notes", "snake">>}

Calls == {[f \in Field |-> IF f \in {"subject_id", "notes"} THEN v ELSE v1] : v \in {v1, Null}}

Bodies == UNION {[keys -> {v1, v2, Null, Malformed}] : keys \in SUBSET Keys}

Edits == [call : Calls, body : Bodies]

================================================================================
