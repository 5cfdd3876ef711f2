------------------------------- MODULE CallEntity -------------------------------
(* What a request body says of a call: a full update replaces every field, a      *)
(* partial one the fields it names.  The DTOs take a key in either spelling,      *)
(* apply_patch in one.                                                           *)
EXTENDS Naturals, FiniteSets

CONSTANTS
    Value,      \* JSON values that decode
    Malformed,  \* one that does not
    Null        \* null, and Option::None

ASSUME JsonAssumption == Null \notin Value /\ Malformed \notin Value \cup {Null}

Required == {"direction", "from_number", "to_number", "status", "started_at", "duration_seconds"}

Optional == {"party_id", "agent_id", "external_id", "subject_type", "subject_id",
             "answered_at", "ended_at", "recording_url", "notes"}

Field == Required \cup Optional

Call == {call \in [Field -> Value \cup {Null}] : \A f \in Required : call[f] # Null}

(* Names of one word are spelled alike in snake_case and camelCase. *)
Key == Field \X {"snake"} \cup (Field \ {"direction", "status", "notes"}) \X {"camel"}

(* A JSON object: a value, null or something malformed under some of the keys.    *)
IsBody(body) ==
    /\ DOMAIN body \subseteq Key
    /\ body \in [DOMAIN body -> Value \cup {Null, Malformed}]

(* serde_json::from_value into the field's type: null is an Option's None. *)
from_value_ok(field, json) == json \in Value \/ (json = Null /\ field \in Optional)

(* Mutant: null is taken for a field left out.                                   *)
patch_field_IgnoresNull(call, key, json) ==
    IF key[2] = "snake" /\ json \in Value THEN [call EXCEPT ![key[1]] = json] ELSE call

(* One arm of apply_patch: unknown keys and what does not decode are skipped. *)
patch_field(call, key, json) ==
    IF key[2] = "snake" /\ from_value_ok(key[1], json) THEN [call EXCEPT ![key[1]] = json] ELSE call

Given(body, field) == {key \in DOMAIN body : key[1] = field}

(* A body deserializes as UpdateCallDto, or as CreateCallDto: no field twice, none *)
(* malformed, the required ones there.                                           *)
IsUpdateCallDto(body) ==
    \A f \in Field :
        /\ Cardinality(Given(body, f)) <= 1
        /\ \A key \in Given(body, f) : from_value_ok(f, body[key])
        /\ f \in Required => Given(body, f) # {}

(* An optional field left out is None. *)
UpdateCallDto(body) ==
    [f \in Field |-> IF Given(body, f) = {} THEN Null ELSE body[CHOOSE key \in Given(body, f) : TRUE]]

apply_update(call, dto) == [f \in Field |-> dto[f]]

(* The name a response gives a field. *)
ResponseKey(field) == IF <<field, "camel">> \in Key THEN <<field, "camel">> ELSE <<field, "snake">>

(* What a GET shows of the call. *)
CallResponseDto(call) == [key \in {ResponseKey(f) : f \in Field} |-> call[key[1]]]

(* A body deserializes as PatchCallDto: any field may be left out, and null is    *)
(* left out.                                                                     *)
IsPatchCallDto(body) ==
    \A f \in Field :
        /\ Cardinality(Given(body, f)) <= 1
        /\ \A key \in Given(body, f) : body[key] # Malformed

(* Mutant: a field is forgotten in the list of fields tested.                    *)
has_changes_ForgetsNotes(body) == \E f \in Field \ {"notes"} : \E key \in Given(body, f) : body[key] # Null

has_changes(body) == \E f \in Field : \E key \in Given(body, f) : body[key] # Null

================================================================================
