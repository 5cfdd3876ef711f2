------------------------------ MODULE DeclaredRules ------------------------------
(* The rules the schema declares for a call, kept in three places that never     *)
(* talk to each other: CallRowRules, which the generic create and update check   *)
(* before they write; the CHECK constraints, which a migration adds rule by rule *)
(* where no stored row breaks them; and the validated write path, which checks   *)
(* almost none of them.  A generic update reads the row, applies the request,    *)
(* checks the result against what it read, and writes the whole row back, with   *)
(* other writers and the migration in between.                                   *)
EXTENDS Naturals

CONSTANTS
    Call,           \* row ids
    Update,         \* generic updates in flight
    Submitted,      \* the rows requests may submit
    Stored,         \* the rows recorded before the rules were declared
    Declared,       \* the rules the migration adds
    SubjectType,    \* the subject types link_call is given
    None,           \* SQL NULL; also no row, no request
    RuleTrimsTabs   \* row_rule's trim strips tabs and newlines as well as spaces

Field == {"from_number", "to_number", "external_id", "subject_type", "recording_url", "notes"}

Number == {"from_number", "to_number"}

(* Strings, as far as the rules tell them apart: a longer one than the limit of  *)
(* its field, spaces only, tabs only.                                            *)
String == {"short", "long", "spaces", "tabs"}

Row == {row \in [Field -> String \cup {None}] : \A f \in Number : row[f] # None}

ASSUME ValueAssumption == None \notin String

ASSUME RowAssumption == Submitted \subseteq Row /\ Stored \subseteq Row

ASSUME NoneAssumption == None \notin Row

ASSUME TrimAssumption == RuleTrimsTabs \in BOOLEAN

Rule == [kind : {"required"}, field : Number] \cup [kind : {"max_length"}, field : Field]

ASSUME DeclaredAssumption == Declared \subseteq Rule /\ SubjectType \subseteq String

VARIABLES
    calls,      \* the stored rows
    purged,     \* ids of rows deleted for good
    checks,     \* the rules that are constraints of the table
    scanned,    \* the rule whose scan found no offender, before its ALTER TABLE
    update,     \* where each generic update is, and what it has read
    unguarded   \* history: the <<row, rule>> breaches that bypassed the guard

vars == <<calls, purged, checks, scanned, update, unguarded>>

Idle == [pc |-> "idle", id |-> None, before |-> None, after |-> None, standing |-> {}]

(* A NULL is longer than nothing. *)
WithinLimit(value) == value # "long"

(* CHECK: btrim strips spaces only. *)
CheckHolds(rule, row) ==
    IF rule.kind = "required" THEN row[rule.field] \notin {None, "spaces"}
                              ELSE WithinLimit(row[rule.field])

(* Mutant: the rule tests for NULL and forgets to trim.                         *)
holds_Untrimmed(rule, row) ==
    rule.kind = "required" \/ WithinLimit(row[rule.field])

(* The same rule in CallRowRules. *)
holds(rule, row) ==
    IF rule.kind = "required"
    THEN row[rule.field] \notin {None, "spaces"} \cup (IF RuleTrimsTabs THEN {"tabs"} ELSE {})
    ELSE WithinLimit(row[rule.field])

(* Mutant: an update is let through once what it read breaks a rule itself.     *)
update_guard_Lenient(before, after) ==
    \/ \E rule \in Rule : ~holds(rule, before)
    \/ \A rule \in Rule : before[rule.field] # after[rule.field] => holds(rule, after)

(* A create is checked against every rule, an update against those of the        *)
(* fields it changes.                                                            *)
create_guard(after) == \A rule \in Rule : holds(rule, after)

update_guard(before, after) ==
    \A rule \in Rule : before[rule.field] # after[rule.field] => holds(rule, after)

Accepted(row) == \A rule \in checks : CheckHolds(rule, row)

(* An unguarded writer stores row under id. *)
Breaches(id, row) == {b \in {id} \X Rule : ~CheckHolds(b[2], row)}

--------------------------------------------------------------------------------
Init ==
    /\ calls \in [Call -> Stored \cup {None}]
    /\ purged = {}
    /\ checks = {}
    /\ scanned = None
    /\ update = [u \in Update |-> Idle]
    /\ unguarded = UNION {Breaches(id, calls[id]) : id \in {i \in Call : calls[i] # None}}

Free(id) == calls[id] = None /\ id \notin purged

(* POST on the generic surface. *)
create(id, row) ==
    /\ Free(id)
    /\ create_guard(row)
    /\ Accepted(row)
    /\ calls' = [calls EXCEPT ![id] = row]
    /\ UNCHANGED <<purged, checks, scanned, update, unguarded>>

(* The validated path refuses blank numbers, whatever they are blank with. *)
NumbersMissing(row) == \E f \in Number : row[f] \in {"spaces", "tabs"}

record_call(id, row) ==
    /\ Free(id)
    /\ ~NumbersMissing(row)
    /\ Accepted(row)
    /\ calls' = [calls EXCEPT ![id] = row]
    /\ unguarded' = unguarded \cup Breaches(id, row)
    /\ UNCHANGED <<purged, checks, scanned, update>>

link_call(id, subject_type) ==
    LET row == [calls[id] EXCEPT !["subject_type"] = subject_type]
    IN  /\ calls[id] # None
        /\ Accepted(row)
        /\ calls' = [calls EXCEPT ![id] = row]
        /\ unguarded' = unguarded \cup Breaches(id, row)
        /\ UNCHANGED <<purged, checks, scanned, update>>

empty_trash(id) ==
    /\ calls[id] # None
    /\ calls' = [calls EXCEPT ![id] = None]
    /\ purged' = purged \cup {id}
    /\ UNCHANGED <<checks, scanned, update, unguarded>>

--------------------------------------------------------------------------------
(* PUT on the generic surface: find, apply_update, guard, write. *)
find(u, id) ==
    /\ update[u].pc = "idle"
    /\ calls[id] # None
    /\ update' = [update EXCEPT ![u] = [pc |-> "found", id |-> id, before |-> calls[id],
                                        after |-> None, standing |-> checks]]
    /\ UNCHANGED <<calls, purged, checks, scanned, unguarded>>

(* Every field of the rules is replaced by the request's. *)
apply_update(before, dto) == [f \in DOMAIN before |-> dto[f]]

GuardAllows(u, dto) ==
    /\ update[u].pc = "found"
    /\ update_guard(update[u].before, apply_update(update[u].before, dto))
    /\ update' = [update EXCEPT ![u].pc = "write",
                                ![u].after = apply_update(update[u].before, dto)]
    /\ UNCHANGED <<calls, purged, checks, scanned, unguarded>>

(* 422. *)
GuardRefuses(u, dto) ==
    /\ update[u].pc = "found"
    /\ ~update_guard(update[u].before, apply_update(update[u].before, dto))
    /\ update' = [update EXCEPT ![u] = Idle]
    /\ UNCHANGED <<calls, purged, checks, scanned, unguarded>>

Write(u) ==
    /\ update[u].pc = "write"
    /\ calls[update[u].id] # None
    /\ Accepted(update[u].after)
    /\ calls' = [calls EXCEPT ![update[u].id] = update[u].after]
    /\ update' = [update EXCEPT ![u] = Idle]
    /\ UNCHANGED <<purged, checks, scanned, unguarded>>

(* The row is gone, a constraint refuses it, or the database fails. *)
WriteFails(u) ==
    /\ update[u].pc = "write"
    /\ update' = [update EXCEPT ![u] = Idle]
    /\ UNCHANGED <<calls, purged, checks, scanned, unguarded>>

--------------------------------------------------------------------------------
Offenders(rule) == {id \in Call : calls[id] # None /\ ~CheckHolds(rule, calls[id])}

(* A rule that stored rows break is left out with a NOTICE. *)
Scan(rule) ==
    /\ scanned = None
    /\ rule \notin checks
    /\ Offenders(rule) = {}
    /\ scanned' = rule
    /\ UNCHANGED <<calls, purged, checks, update, unguarded>>

(* Mutant: the constraint is added NOT VALID.                                   *)
AddConstraint_NotValid ==
    /\ scanned # None
    /\ checks' = checks \cup {scanned}
    /\ scanned' = None
    /\ UNCHANGED <<calls, purged, update, unguarded>>

(* ALTER TABLE reads the table again, under its own lock. *)
AddConstraint ==
    /\ scanned # None
    /\ Offenders(scanned) = {}
    /\ checks' = checks \cup {scanned}
    /\ scanned' = None
    /\ UNCHANGED <<calls, purged, update, unguarded>>

(* A row that broke the rule meanwhile, or any failure, ends the migration. *)
AddConstraintFails ==
    /\ scanned # None
    /\ scanned' = None
    /\ UNCHANGED <<calls, purged, checks, update, unguarded>>

(* The down drops one constraint after the other. *)
DropConstraint(rule) ==
    /\ scanned = None
    /\ rule \in checks
    /\ checks' = checks \ {rule}
    /\ UNCHANGED <<calls, purged, scanned, update, unguarded>>

Next ==
    \/ \E id \in Call, row \in Submitted : create(id, row) \/ record_call(id, row)
    \/ \E id \in Call, subject_type \in SubjectType : link_call(id, subject_type)
    \/ \E id \in Call : empty_trash(id)
    \/ \E u \in Update, id \in Call : find(u, id)
    \/ \E u \in Update, dto \in Submitted : GuardAllows(u, dto) \/ GuardRefuses(u, dto)
    \/ \E u \in Update : Write(u) \/ WriteFails(u)
    \/ \E rule \in Declared : Scan(rule) \/ DropConstraint(rule)
    \/ AddConstraint
    \/ AddConstraintFails

Spec == Init /\ [][Next]_vars

--------------------------------------------------------------------------------
InFlight ==
    {Idle} \cup [pc : {"found"}, id : Call, before : Row, after : {None}, standing : SUBSET Rule]
           \cup [pc : {"write"}, id : Call, before : Row, after : Row, standing : SUBSET Rule]

(* Type invariant of the table, the migration and the updates in flight. *)
TypeOK ==
    /\ calls \in [Call -> Row \cup {None}]
    /\ purged \subseteq Call
    /\ checks \subseteq Rule
    /\ scanned \in Rule \cup {None}
    /\ update \in [Update -> InFlight]
    /\ unguarded \subseteq Call \X Rule

(* A rule that is a constraint holds of every stored row, those written between  *)
(* its scan and its ALTER TABLE included (each block of add_declared_checks).    *)
ConstraintsHold == \A rule \in checks : Offenders(rule) = {}

(* The generic surface brings no breach in: whatever rule a stored row breaks,   *)
(* it was broken by a writer that is not guarded, even where an update in        *)
(* flight writes back what it read before (CallRowRules::check).                 *)
GuardLetsNothingIn ==
    \A rule \in Rule, id \in Call :
        calls[id] # None /\ ~CheckHolds(rule, calls[id]) => <<id, rule>> \in unguarded

(* An update the guard let through is never refused by a constraint that stood   *)
(* when it read the row: a broken rule is answered 422, not 500 (check only the  *)
(* rules of changed fields; the constraint vouches for the others).              *)
GuardAnticipatesChecks ==
    \A u \in Update : update[u].pc = "write" =>
        \A rule \in update[u].standing : CheckHolds(rule, update[u].after)

(* What makes them inductive: an update in flight remembers a row whose breaches *)
(* were brought in unguarded and which kept every standing constraint, and what  *)
(* it is about to write passed the guard.                                        *)
RulesInv ==
    /\ TypeOK
    /\ ConstraintsHold
    /\ GuardLetsNothingIn
    /\ \A u \in Update : update[u].pc # "idle" =>
         \A rule \in Rule : ~CheckHolds(rule, update[u].before) =>
             /\ rule \notin update[u].standing
             /\ <<update[u].id, rule>> \in unguarded
    /\ \A u \in Update :
         update[u].pc = "write" => update_guard(update[u].before, update[u].after)

================================================================================
