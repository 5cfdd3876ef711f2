--------------------------- MODULE TelephonyInvariant ---------------------------
(* The inductive invariant behind the safety properties of                      *)
(* TelephonyWriteService: what holds between a handler's position, its open     *)
(* transaction and the committed tables.                                        *)
EXTENDS TelephonyWriteService

(* A handler past its validations has a scope that names the owning company,    *)
(* and looks a call up only by a provider id it has.                            *)
RequestOK(r) ==
    /\ pc[r] = "idle" <=> req[r] = None
    /\ pc[r] \notin {"idle", "done"} => owning_company(req[r].scope) # None
    /\ pc[r] \in {"probe", "rollback", "reprobe"} => req[r].cdr.external_id # None

(* An open transaction is bound to its owner, holds the request's own row and   *)
(* event, nothing of the request is committed yet, and a refused request can no *)
(* longer commit.                                                               *)
TransactionOK(r) ==
    /\ pc[r] \in {"insert", "stage", "commit"} => tx[r].bound = owning_company(req[r].scope)
    /\ tx[r].row # None =>
         /\ pc[r] \in {"stage", "commit", "done"}
         /\ tx[r].row = NewCallRow(req[r].cdr, req[r].scope)
         /\ calls[r] = None /\ outbox[r] = None
    /\ tx[r].event # None =>
         /\ pc[r] \in {"commit", "done"}
         /\ tx[r].row # None
         /\ tx[r].event = EventOf(r)
         /\ reply[r].result \notin {"Invalid", "OrgScopeRequired", "ok"}
    /\ pc[r] = "stage" => tx[r].row # None
    /\ pc[r] = "commit" => tx[r].event # None

(* A committed row is the one its request asked for and has its event; an event *)
(* outlives its row only where the generic endpoints may purge it.              *)
RecordOK(r) ==
    /\ calls[r] # None =>
         /\ outbox[r] # None
         /\ calls[r].cdr = req[r].cdr
         /\ calls[r].unit = req[r].scope
         /\ calls[r].duration_seconds = Duration(req[r].cdr)
    /\ outbox[r] # None =>
         /\ pc[r] \in {"publish", "done"}
         /\ outbox[r] = EventOf(r)
         /\ AdminCrud \/ calls[r] # None
    /\ pc[r] = "publish" => outbox[r] # None

ReplyOK(r) ==
    /\ pc[r] = "done" <=> reply[r] # NoReply
    /\ reply[r].result \in {"Invalid", "OrgScopeRequired"} => outbox[r] = None
    /\ Acknowledged(r) =>
         /\ outbox[Answer(r).call_id] # None
         /\ req[Answer(r).call_id].cdr.external_id = req[r].cdr.external_id
         /\ Fenced => req[Answer(r).call_id].scope = req[r].scope
         /\ Answer(r).duration_seconds = Duration(req[Answer(r).call_id].cdr)
         /\ ~Answer(r).duplicate => Answer(r).call_id = r

(* The rows a request has in the table, committed or not. *)
Held(r) == {calls[r], tx[r].row} \ {None}

(* No two requests hold one key of the unique index, counting open transactions *)
(* (the lock insert_cdr takes): what OneCallPerProviderId needs to be inductive.*)
KeysDisjoint ==
    PerUnitUnique => \A r, q \in Request :
        r # q => \A row1 \in Held(r), row2 \in Held(q) : ~SameProviderCall(row1, row2)

(* The inductive invariant.                                                     *)
IInv ==
    /\ TypeOK
    /\ \A r \in Request : RequestOK(r) /\ TransactionOK(r) /\ RecordOK(r) /\ ReplyOK(r)
    /\ KeysDisjoint
    /\ PublishedIsStaged
================================================================================
