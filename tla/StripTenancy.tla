------------------------------ MODULE StripTenancy ------------------------------
(* The upgrade that strips tenancy from telephony.calls: the composing service's *)
(* decorator adds org_unit_id and backfills it, then 20260909120000_strip_tenancy *)
(* drops company_id, while releases of the service are stopped and started and    *)
(* requests insert calls.  Each statement of the migration is a step of its own   *)
(* and the migration may fail between two of them; a runner that wraps the file   *)
(* in one transaction shows a subset of these behaviours.                         *)
EXTENDS Naturals

CONSTANTS
    Call, Company, Unit,
    CompanyOf,          \* the legacy company of each unit
    UnitOf,             \* the unit the decorator backfills for each company
    None,
    MigratorBypasses    \* migrations connect as a role row security does not bind

ASSUME UnitAssumption ==
    /\ CompanyOf \in [Unit -> Company]
    /\ UnitOf \in [Company -> Unit]
    /\ \A c \in Company : CompanyOf[UnitOf[c]] = c

ASSUME NoneAssumption == None \notin Company \cup Unit

ASSUME DeploymentAssumption == MigratorBypasses \in BOOLEAN

VARIABLES
    calls,      \* the rows, each with two history fields: owner, the company whose
                \* call it really is, and late (see StripBegun)
    columns,    \* the tenancy columns of the table
    required,   \* those declared NOT NULL
    uniques,    \* those a unique (column, external_id) leads with
    policies,   \* those a permissive row policy compares with the session
    fenced,     \* ENABLE and FORCE ROW LEVEL SECURITY are set
    migration,  \* how far strip_tenancy.up is
    releases    \* the releases of the service that are running

vars == <<calls, columns, required, uniques, policies, fenced, migration, releases>>

schema == <<columns, required, uniques, policies, fenced>>

Key == {"company_id", "org_unit_id"}

Row == [company_id : Company \cup {None}, org_unit_id : Unit \cup {None},
        owner : Company, late : BOOLEAN]

(* The guard has passed and the strip was not completed, or an interrupted strip *)
(* has left the table without the former release's unique.  A row that release   *)
(* writes in such a state is late: no guard has counted it.                      *)
StripBegun ==
    \/ migration \in {"guarded", "unindexed", "unpoliced", "failed"}
    \/ "company_id" \notin uniques

(* The settings a request binds on its connection: the former release sets only *)
(* app.company_id, this one the unit and its legacy company.                     *)
CompanySession(c) == [company_id |-> c, org_unit_id |-> None]

UnitSession(u) == [company_id |-> CompanyOf[u], org_unit_id |-> u]

Unbound == [company_id |-> None, org_unit_id |-> None]

(* Permissive policies are alternatives, and none of them passes a null. *)
Passes(row, session) ==
    fenced => \E k \in policies : row[k] # None /\ row[k] = session[k]

--------------------------------------------------------------------------------
(* The table the former release ran on, with whatever it had recorded. *)
Init ==
    /\ calls \in [Call -> {None} \cup
                    {[company_id |-> c, org_unit_id |-> None, owner |-> c, late |-> FALSE] :
                        c \in Company}]
    /\ columns = {"company_id"}
    /\ required = {"company_id"}
    /\ uniques = {"company_id"}
    /\ policies = {"company_id"}
    /\ fenced = TRUE
    /\ migration = "pending"
    /\ releases = {"former"}

Insert(id, row, session) ==
    /\ calls[id] = None
    /\ Passes(row, session)
    /\ calls' = [calls EXCEPT ![id] = row]
    /\ UNCHANGED <<schema, migration, releases>>

(* The former release's insert names company_id. *)
InsertWithCompany(id, c) ==
    /\ "former" \in releases
    /\ "company_id" \in columns
    /\ Insert(id, [company_id |-> c, org_unit_id |-> None, owner |-> c, late |-> StripBegun],
              CompanySession(c))

(* insert_cdr names no tenancy column; the decorator's column takes the unit of  *)
(* the session.                                                                  *)
insert_cdr(id, u) ==
    /\ "current" \in releases
    /\ "company_id" \notin required
    /\ Insert(id, [company_id  |-> None,
                   org_unit_id |-> IF "org_unit_id" \in columns THEN u ELSE None,
                   owner       |-> CompanyOf[u],
                   late        |-> FALSE], UnitSession(u))

Start(release) ==
    /\ releases' = releases \cup {release}
    /\ UNCHANGED <<calls, schema, migration>>

Stop(release) ==
    /\ releases' = releases \ {release}
    /\ UNCHANGED <<calls, schema, migration>>

(* The decorator: the column, its policy and its unique; then the backfill. *)
AddOrgUnit ==
    /\ "org_unit_id" \notin columns
    /\ columns' = columns \cup {"org_unit_id"}
    /\ uniques' = uniques \cup {"org_unit_id"}
    /\ policies' = policies \cup {"org_unit_id"}
    /\ UNCHANGED <<calls, required, fenced, migration, releases>>

NeedsBackfill(row) == row.org_unit_id = None /\ row.company_id # None

Backfill ==
    /\ "org_unit_id" \in columns
    /\ calls' = [id \in Call |->
                   IF calls[id] # None /\ NeedsBackfill(calls[id])
                   THEN [calls[id] EXCEPT !.org_unit_id = UnitOf[calls[id].company_id]]
                   ELSE calls[id]]
    /\ UNCHANGED <<schema, migration, releases>>

--------------------------------------------------------------------------------
(* The rows the migration's SELECT count( * ) counts. *)
Counted ==
    {id \in Call : calls[id] # None /\ (MigratorBypasses \/ Passes(calls[id], Unbound))}

(* Mutant: the guard is content with the column and forgets the NULLs in it.    *)
Safe_AnyColumn == "org_unit_id" \in columns \/ Counted = {}

(* total = 0, or org_unit_id is there and org_nulls = 0. *)
Safe ==
    \/ Counted = {}
    \/ "org_unit_id" \in columns /\ \A id \in Counted : calls[id].org_unit_id # None

CanRun == migration \in {"pending", "refused", "failed", "stripped"}

Proceed ==
    /\ CanRun /\ Safe
    /\ migration' = "guarded"
    /\ UNCHANGED <<calls, schema, releases>>

(* Mutant: the policy is dropped before the guard looks.                        *)
Refuse_Unfenced ==
    /\ CanRun /\ ~Safe
    /\ migration' = "refused"
    /\ policies' = policies \ {"company_id"}
    /\ UNCHANGED <<calls, columns, required, uniques, fenced, releases>>

(* Mutant: the indexes are dropped before the guard looks.                      *)
Refuse_Unindexed ==
    /\ CanRun /\ ~Safe
    /\ migration' = "refused"
    /\ uniques' = uniques \ {"company_id"}
    /\ UNCHANGED <<calls, columns, required, policies, fenced, releases>>

(* RAISE EXCEPTION. *)
Refuse ==
    /\ CanRun /\ ~Safe
    /\ migration' = "refused"
    /\ UNCHANGED <<calls, schema, releases>>

DropIndexes ==
    /\ migration = "guarded"
    /\ uniques' = uniques \ {"company_id"}
    /\ migration' = "unindexed"
    /\ UNCHANGED <<calls, columns, required, policies, fenced, releases>>

(* Mutant: the policy outlives the column it names.                             *)
DropPolicy_Forgotten ==
    /\ migration = "unindexed"
    /\ migration' = "unpoliced"
    /\ UNCHANGED <<calls, schema, releases>>

(* Mutant: the policy goes together with row security.                          *)
DropPolicy_Unfences ==
    /\ migration = "unindexed"
    /\ policies' = policies \ {"company_id"}
    /\ fenced' = FALSE
    /\ migration' = "unpoliced"
    /\ UNCHANGED <<calls, columns, required, uniques, releases>>

(* The ENABLE and FORCE flags stay. *)
DropPolicy ==
    /\ migration = "unindexed"
    /\ policies' = policies \ {"company_id"}
    /\ migration' = "unpoliced"
    /\ UNCHANGED <<calls, columns, required, uniques, fenced, releases>>

WithoutCompany(rows) ==
    [id \in Call |-> IF rows[id] = None THEN None ELSE [rows[id] EXCEPT !.company_id = None]]

DropColumn ==
    /\ migration = "unpoliced"
    /\ calls' = WithoutCompany(calls)
    /\ columns' = columns \ {"company_id"}
    /\ required' = required \ {"company_id"}
    /\ migration' = "stripped"
    /\ UNCHANGED <<uniques, policies, fenced, releases>>

MigrationFails ==
    /\ migration \in {"guarded", "unindexed", "unpoliced"}
    /\ migration' = "failed"
    /\ UNCHANGED <<calls, schema, releases>>

(* strip_tenancy.down: a nullable column and plain indexes; no data, no policy. *)
Revert ==
    /\ migration = "stripped"
    /\ columns' = columns \cup {"company_id"}
    /\ migration' = "pending"
    /\ UNCHANGED <<calls, required, uniques, policies, fenced, releases>>

up == Proceed \/ Refuse \/ DropIndexes \/ DropPolicy \/ DropColumn

Next ==
    \/ \E id \in Call, c \in Company : InsertWithCompany(id, c)
    \/ \E id \in Call, u \in Unit : insert_cdr(id, u)
    \/ \E release \in {"former", "current"} : Start(release) \/ Stop(release)
    \/ AddOrgUnit
    \/ Backfill
    \/ up
    \/ MigrationFails
    \/ Revert

Spec == Init /\ [][Next]_vars

--------------------------------------------------------------------------------
Progress == {"pending", "refused", "guarded", "unindexed", "unpoliced", "failed", "stripped"}

(* Type invariant of the table, its schema and the deployment. *)
TypeOK ==
    /\ calls \in [Call -> Row \cup {None}]
    /\ columns \subseteq Key
    /\ required \subseteq columns
    /\ uniques \subseteq columns
    /\ policies \subseteq columns
    /\ fenced \in BOOLEAN
    /\ migration \in Progress
    /\ releases \subseteq {"former", "current"}

KeyNamesOwner(row) ==
    \/ row.company_id = row.owner
    \/ row.org_unit_id # None /\ CompanyOf[row.org_unit_id] = row.owner

(* The rows the next three properties are about: all but the late ones.  Those   *)
(* the code does lose, for nothing stops a writer between the guard and the      *)
(* DROPs; that nobody else pays for it is what the properties say.               *)
InTime == {id \in Call : calls[id] # None /\ ~calls[id].late}

(* No call is orphaned, but one that the former release wrote beside a strip     *)
(* that had begun: each row keeps a tenancy key that names the company whose     *)
(* call it is (the guard of strip_tenancy.up).                                   *)
KeyKept == \A id \in InTime : KeyNamesOwner(calls[id])

(* No such call disappears from its owner: at each step of the upgrade some      *)
(* session of its company still passes the fence (the order of the guard and     *)
(* DROP POLICY).                                                                 *)
OwnerSees ==
    \A id \in InTime :
        \/ Passes(calls[id], CompanySession(calls[id].owner))
        \/ \E u \in Unit : /\ CompanyOf[u] = calls[id].owner
                           /\ Passes(calls[id], UnitSession(u))

(* No such call is out of reach of dedup: each row is covered by a unique on a   *)
(* tenancy key it has (the order of the guard and DROP INDEX, and the fence that *)
(* refuses every insert until the decorator lands).                              *)
DedupKept == \A id \in InTime : \E k \in uniques : calls[id][k] # None

(* No call is ever shown to another company, however the upgrade is run, fails   *)
(* or is reverted (the flags strip_tenancy.up leaves alone).                     *)
FenceHolds ==
    \A id \in Call : calls[id] # None =>
        /\ \A c \in Company : Passes(calls[id], CompanySession(c)) => calls[id].owner = c
        /\ \A u \in Unit :
             Passes(calls[id], UnitSession(u)) => calls[id].owner = CompanyOf[u]

--------------------------------------------------------------------------------
(* What makes them inductive. *)

(* Every key a row has names its owner, the fence stands, and nothing refers to  *)
(* company_id any more when it is dropped.                                       *)
FenceInv ==
    /\ TypeOK
    /\ fenced
    /\ migration \in {"unindexed", "unpoliced"} => "company_id" \notin uniques
    /\ migration = "unpoliced" => "company_id" \notin policies
    /\ \A id \in Call : calls[id] # None =>
         /\ calls[id].company_id \in {None, calls[id].owner}
         /\ calls[id].org_unit_id # None =>
              /\ "org_unit_id" \in columns
              /\ CompanyOf[calls[id].org_unit_id] = calls[id].owner

(* Each row in time has a key whose unique and policy stand, and once the strip  *)
(* has begun that key is the unit (the guard).  The policy never goes before the *)
(* unique: the former release writes only where its rows were still covered, or  *)
(* late.                                                                         *)
UpgradeInv ==
    /\ FenceInv
    /\ "org_unit_id" \in columns => "org_unit_id" \in uniques \cap policies
    /\ "company_id" \in uniques => "company_id" \in policies
    /\ \A id \in InTime :
         \/ calls[id].org_unit_id # None
         \/ /\ ~StripBegun
            /\ calls[id].company_id # None

================================================================================
