------------------------------ MODULE CallRecord ------------------------------
(* The data of the CDR log: what a provider delivers (InboundCdr), the talk     *)
(* time derived from it, what the database accepts as a row of telephony.calls, *)
(* and the routing event a recorded call becomes.  Free text is abstracted to   *)
(* the distinctions the code makes: a number is blank or not, a text fits its   *)
(* declared length or not, direction and status are known to the enum or not.   *)
EXTENDS Integers

CONSTANTS
    None,             \* Option::None
    ExternalId,       \* provider CDR ids
    Subject,          \* (subject_type, subject_id) pairs a call may concern
    Company,          \* legacy companies that own outbox records
    Unit,             \* org units a request scope may be bound to
    NoScope,          \* no org scope bound on the request
    TicksPerSecond,   \* resolution of a timestamp
    I32Max,           \* i32::MAX
    DeclaredChecks    \* the declared-rule CHECKs were added by their migration

ASSUME NoneAssumption ==
    /\ None \notin Int
    /\ None \notin ExternalId \cup Subject \cup Company \cup Unit
    /\ NoScope \notin Unit

ASSUME TimeAssumption ==
    /\ TicksPerSecond \in Nat \ {0}
    /\ I32Max \in Nat

ASSUME ChecksAssumption == DeclaredChecks \in BOOLEAN

CallDirection == {"inbound", "outbound"}

CallStatus == {"ringing", "answered", "completed", "missed", "failed"}

(* A timestamp is an instant in ticks; started_at, party_id, agent_id,          *)
(* recording_url and notes are copied through and nothing tests their value     *)
(* except their length, which "overlong" stands for.                            *)
InboundCdr ==
    [direction   : CallDirection \cup {"unknown"},
     status      : CallStatus \cup {"unknown"},
     numbers     : {"given", "blank"},
     external_id : ExternalId \cup {None},
     answered_at : Int \cup {None},
     ended_at    : Int \cup {None},
     subject     : Subject \cup {None},
     overlong    : BOOLEAN]

(* from_number or to_number is empty once trimmed. *)
NumbersMissing(c) == c.numbers = "blank"

(* Mutant: the seconds are stored without saturating at the column's width.     *)
talk_time_Unsaturated(answered_at, ended_at) ==
    IF answered_at # None /\ ended_at # None /\ ended_at >= answered_at
    THEN (ended_at - answered_at) \div TicksPerSecond
    ELSE 0

(* Mutant: no order guard; a clock running backwards gives negative talk time.  *)
talk_time_Unclamped(answered_at, ended_at) ==
    IF answered_at # None /\ ended_at # None
    THEN LET seconds == (ended_at - answered_at) \div TicksPerSecond
         IN  IF seconds <= I32Max THEN seconds ELSE I32Max
    ELSE 0

(* Whole seconds from answer to end; zero for a call never answered or whose    *)
(* clock runs backwards; saturating at the column's width.                      *)
talk_time(answered_at, ended_at) ==
    IF answered_at # None /\ ended_at # None /\ ended_at >= answered_at
    THEN LET seconds == (ended_at - answered_at) \div TicksPerSecond
         IN  IF seconds <= I32Max THEN seconds ELSE I32Max
    ELSE 0

Duration(c) == talk_time(c.answered_at, c.ended_at)

(* The casts $2::call_direction and $7::call_status of the INSERT. *)
CastsSucceed(c) == c.direction \in CallDirection /\ c.status \in CallStatus

(* calls_duration_non_negative. *)
DurationCheck(c) == Duration(c) >= 0

(* The required and max_length CHECKs, each added only over clean rows. *)
DeclaredChecksHold(c) == DeclaredChecks => ~NumbersMissing(c) /\ ~c.overlong

RowAccepted(c) == CastsSucceed(c) /\ DurationCheck(c) /\ DeclaredChecksHold(c)

(* A row of telephony.calls.  unit is the tenancy column the composing          *)
(* service's decorator adds and fills from the bound scope.                     *)
Row == [cdr : InboundCdr, unit : Unit, duration_seconds : 0 .. I32Max,
        subject : Subject \cup {None}, deleted : BOOLEAN]

NewCallRow(c, unit) ==
    [cdr |-> c, unit |-> unit, duration_seconds |-> Duration(c),
     subject |-> c.subject, deleted |-> FALSE]

(* Mutant: the provider's word is taken for it, answered or not.                *)
GenuinelyMissed_ByStatus(c) == c.status = "missed"

(* A call nobody answered, by the test record_call applies. *)
GenuinelyMissed(c) == c.status = "missed" /\ c.answered_at = None

(* CallLogged carries direction and talk time; MissedCall has neither field. *)
RoutingEvent(call_id, company, c) ==
    [call_id    |-> call_id,
     company_id |-> company,
     subject    |-> c.subject,
     event_type |-> IF GenuinelyMissed(c) THEN "MissedCall" ELSE "CallLogged",
     direction  |-> IF GenuinelyMissed(c) THEN None ELSE c.direction,
     duration_seconds |-> IF GenuinelyMissed(c) THEN None ELSE Duration(c)]

(* Two rows the composer's per-unit external_id unique cannot both hold; rows   *)
(* without an external_id never collide (NULLs are distinct).                   *)
SameProviderCall(row1, row2) ==
    /\ row1.cdr.external_id # None
    /\ row1.cdr.external_id = row2.cdr.external_id
    /\ row1.unit = row2.unit
================================================================================
