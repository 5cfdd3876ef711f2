------------------------------ MODULE MCTelephony ------------------------------
(* TelephonyWriteService on small instances: the CDRs, companies and symmetry   *)
(* the configurations choose from.                                              *)
EXTENDS TelephonySurface, TLC

CONSTANTS e1, s1, co1, co2, u1, u2, u3

CDR(direction, status, external_id, answered_at, ended_at) ==
    [direction |-> direction, status |-> status, numbers |-> "given",
     external_id |-> external_id, answered_at |-> answered_at,
     ended_at |-> ended_at, subject |-> None, overlong |-> FALSE]

Completed == CDR("inbound", "completed", e1, 1, 5)

Corrected == CDR("inbound", "completed", e1, 1, 3)

Ringing == CDR("inbound", "ringing", e1, None, None)

Missed == CDR("inbound", "missed", e1, None, 4)

MissedOutbound == CDR("outbound", "missed", e1, None, 4)

Manual == CDR("outbound", "completed", None, 2, 13)

Blank == [Completed EXCEPT !.numbers = "blank"]

Overlong == [Completed EXCEPT !.overlong = TRUE]

(* Missed by its status, and answered all the same. *)
Contradictory == CDR("inbound", "missed", e1, 1, 3)

(* Redeliveries of one CDR, in versions that differ in talk time and in what they *)
(* say became of the call, a manual log, and what the code refuses: before the    *)
(* transaction, and at the insert.                                               *)
RaceCdrs == {Completed, Contradictory, Missed, Manual, Blank, Overlong}

RedeliveredCdrs == {Completed, Corrected}

ProgressCdrs == {Ringing, Missed}

OutboundCdrs == {MissedOutbound, Missed}

(* u1 and u2 belong to two companies, u3 to none. *)
OwnCompany == [u \in Unit |-> IF u = u1 THEN co1 ELSE IF u = u2 THEN co2 ELSE None]

RequestSymmetry == Permutations(Request)

================================================================================
