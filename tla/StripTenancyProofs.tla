--------------------------- MODULE StripTenancyProofs ---------------------------
(* The fence never leaks, however the strip is run; and when the migrator sees    *)
(* every row, no call is orphaned, hidden or left out of dedup but those the      *)
(* former release writes beside a strip that has begun.                           *)
EXTENDS StripTenancy, TLAPS

USE UnitAssumption, NoneAssumption, DeploymentAssumption

(* The database the upgrade starts from is fenced and honestly keyed (Init).     *)
LEMMA InitFence == Init => FenceInv
<1> SUFFICES ASSUME Init PROVE FenceInv
  OBVIOUS
<1> DEFINE former(c) == [company_id |-> c, org_unit_id |-> None, owner |-> c, late |-> FALSE]
<1>1. \A c \in Company : /\ former(c) \in Row
                         /\ former(c).company_id = former(c).owner
                         /\ former(c).org_unit_id = None
  BY DEF Row
<1>2. \A id \in Call : calls[id] # None => \E c \in Company : calls[id] = former(c)
  BY DEF Init
<1> HIDE DEF former
<1>3. calls \in [Call -> Row \cup {None}]
  BY <1>1, <1>2 DEF Init
<1>4. QED
  BY <1>1, <1>2, <1>3 DEF Init, FenceInv, TypeOK, Key, Progress

(* Every statement, insert and restart keeps the fence up and every key of every *)
(* row honest (each action of Next).                                             *)
LEMMA StepFence == FenceInv /\ [Next]_vars => FenceInv'
<1> SUFFICES ASSUME FenceInv, [Next]_vars PROVE FenceInv'
  OBVIOUS
<1> USE DEF FenceInv, TypeOK, Row, Key, Progress, schema
<1>1. ASSUME NEW id \in Call, NEW c \in Company, InsertWithCompany(id, c) PROVE FenceInv'
  <2> DEFINE row == [company_id |-> c, org_unit_id |-> None, owner |-> c, late |-> StripBegun]
  <2>1. row \in Row /\ row.company_id = row.owner /\ row.org_unit_id = None
    BY DEF StripBegun
  <2>2. calls' = [calls EXCEPT ![id] = row] /\ UNCHANGED <<schema, migration, releases>>
    BY <1>1 DEF InsertWithCompany, Insert
  <2> HIDE DEF row
  <2>3. QED  BY <2>1, <2>2
<1>2. ASSUME NEW id \in Call, NEW u \in Unit, insert_cdr(id, u) PROVE FenceInv'
  BY <1>2 DEF insert_cdr, Insert
<1>3. ASSUME NEW release \in {"former", "current"}, Start(release) \/ Stop(release)
      PROVE FenceInv'
  BY <1>3 DEF Start, Stop
<1>4. CASE AddOrgUnit
  BY <1>4 DEF AddOrgUnit
<1>5. CASE Backfill
  BY <1>5 DEF Backfill, NeedsBackfill
<1>6. CASE up
  <2>1. CASE Proceed \/ Refuse
    BY <2>1 DEF Proceed, Refuse
  <2>2. CASE DropIndexes \/ DropPolicy
    BY <2>2 DEF DropIndexes, DropPolicy
  <2>3. CASE DropColumn
    BY <2>3 DEF DropColumn, WithoutCompany
  <2>4. QED  BY <1>6, <2>1, <2>2, <2>3 DEF up
<1>7. CASE MigrationFails \/ Revert
  BY <1>7 DEF MigrationFails, Revert
<1>8. CASE UNCHANGED vars
  BY <1>8 DEF vars
<1>9. QED
  BY <1>1, <1>2, <1>3, <1>4, <1>5, <1>6, <1>7, <1>8 DEF Next

(* The fence and the honesty of keys hold in every reachable state, in any       *)
(* posture, with any interleaving of releases, failures and reverts.             *)
THEOREM FenceInvariance == Spec => []FenceInv
  BY InitFence, StepFence, PTL DEF Spec

(* No call is ever shown to another company (strip_tenancy.up keeps the flags).  *)
THEOREM NoLeak == Spec => []FenceHolds
<1>1. FenceInv => FenceHolds
  BY DEF FenceInv, FenceHolds, TypeOK, Passes, Row, Key, CompanySession, UnitSession
<1>2. QED  BY <1>1, FenceInvariance, PTL

--------------------------------------------------------------------------------
(* The table the former release ran on is keyed, covered and visible (Init).     *)
LEMMA InitUpgrade == Init => UpgradeInv
  BY InitFence DEF Init, UpgradeInv, InTime, StripBegun

(* With a migrator that sees every row the guard admits the strip only when the  *)
(* unit covers every row, and only a late row is uncovered afterwards (Proceed,  *)
(* DropIndexes, DropPolicy, DropColumn, InsertWithCompany).                      *)
LEMMA StepUpgrade ==
  ASSUME MigratorBypasses
  PROVE  UpgradeInv /\ [Next]_vars => UpgradeInv'
<1> SUFFICES ASSUME UpgradeInv, [Next]_vars PROVE UpgradeInv'
  OBVIOUS
<1>0. FenceInv /\ FenceInv'
  BY StepFence DEF UpgradeInv
<1> USE <1>0 DEF UpgradeInv, InTime, StripBegun, FenceInv, TypeOK, Row, Key, Progress, schema
<1>1. ASSUME NEW id \in Call, NEW c \in Company, InsertWithCompany(id, c) PROVE UpgradeInv'
  BY <1>1 DEF InsertWithCompany, Insert
<1>2. ASSUME NEW id \in Call, NEW u \in Unit, insert_cdr(id, u) PROVE UpgradeInv'
  <2>1. "org_unit_id" \in columns
    BY <1>2 DEF insert_cdr, Insert, Passes, UnitSession
  <2>2. QED  BY <1>2, <2>1 DEF insert_cdr, Insert
<1>3. ASSUME NEW release \in {"former", "current"}, Start(release) \/ Stop(release)
      PROVE UpgradeInv'
  BY <1>3 DEF Start, Stop
<1>4. CASE AddOrgUnit
  BY <1>4 DEF AddOrgUnit
<1>5. CASE Backfill
  BY <1>5 DEF Backfill, NeedsBackfill
<1>6. CASE up
  <2>1. Counted = {id \in Call : calls[id] # None}
    BY DEF Counted
  <2>2. CASE Proceed
    BY <2>1, <2>2 DEF Proceed, CanRun, Safe
  <2>3. CASE Refuse
    BY <2>3 DEF Refuse, CanRun
  <2>4. CASE DropIndexes
    BY <2>4 DEF DropIndexes
  <2>5. CASE DropPolicy
    BY <2>5 DEF DropPolicy
  <2>6. CASE DropColumn
    BY <2>6 DEF DropColumn, WithoutCompany
  <2>7. QED  BY <1>6, <2>2, <2>3, <2>4, <2>5, <2>6 DEF up
<1>7. CASE MigrationFails
  BY <1>7 DEF MigrationFails
<1>8. CASE Revert
  BY <1>8 DEF Revert
<1>9. CASE UNCHANGED vars
  BY <1>9 DEF vars
<1>10. QED
  BY <1>1, <1>2, <1>3, <1>4, <1>5, <1>6, <1>7, <1>8, <1>9 DEF Next

(* The upgrade's invariant holds throughout, whichever releases run, when the    *)
(* fence does not bind the migrator (strip_tenancy.up).                          *)
THEOREM UpgradeInvariance ==
  ASSUME MigratorBypasses
  PROVE  Spec => []UpgradeInv
  BY InitUpgrade, StepUpgrade, PTL DEF Spec

(* No call in time is orphaned by the strip (its guard).                         *)
THEOREM NoOrphan ==
  ASSUME MigratorBypasses
  PROVE  Spec => []KeyKept
<1>1. UpgradeInv => KeyKept
  BY DEF UpgradeInv, InTime, FenceInv, TypeOK, Row, KeyKept, KeyNamesOwner
<1>2. QED  BY <1>1, UpgradeInvariance, PTL

(* No call in time disappears from its owner at any step of the strip (DROP      *)
(* POLICY).                                                                      *)
THEOREM NoCallHidden ==
  ASSUME MigratorBypasses
  PROVE  Spec => []OwnerSees
<1>1. ASSUME UpgradeInv, NEW id \in InTime
      PROVE  \/ Passes(calls[id], CompanySession(calls[id].owner))
             \/ \E u \in Unit : /\ CompanyOf[u] = calls[id].owner
                                /\ Passes(calls[id], UnitSession(u))
  <2> USE <1>1 DEF UpgradeInv, InTime, StripBegun, FenceInv, TypeOK, Row
  <2>1. CASE calls[id].org_unit_id # None
    <3> DEFINE u == calls[id].org_unit_id
    <3>1. u \in Unit /\ CompanyOf[u] = calls[id].owner /\ "org_unit_id" \in policies
      BY <2>1
    <3>2. Passes(calls[id], UnitSession(u))
      BY <3>1, <2>1 DEF Passes, UnitSession
    <3>3. QED  BY <3>1, <3>2
  <2>2. CASE calls[id].org_unit_id = None
    BY <2>2 DEF Passes, CompanySession
  <2>3. QED  BY <2>1, <2>2
<1>2. UpgradeInv => OwnerSees
  BY <1>1 DEF OwnerSees
<1>3. QED  BY <1>2, UpgradeInvariance, PTL

(* No call in time is out of reach of dedup at any step of the strip (DROP       *)
(* INDEX).                                                                       *)
THEOREM NoCallUncovered ==
  ASSUME MigratorBypasses
  PROVE  Spec => []DedupKept
<1>1. UpgradeInv => DedupKept
  BY DEF UpgradeInv, InTime, StripBegun, FenceInv, TypeOK, Row, DedupKept
<1>2. QED  BY <1>1, UpgradeInvariance, PTL

--------------------------------------------------------------------------------
(* The former release is stopped before the guard passes, and stays stopped until *)
(* the strip is reverted or refused (nothing in the migration sees to it).        *)
Drained == StripBegun => "former" \notin releases

NoneLate == \A id \in Call : calls[id] # None => ~calls[id].late

(* An operator who drains the former release loses nothing: every call, without   *)
(* exception, keeps a key that names its owner (strip_tenancy.up).                *)
THEOREM DrainingKeepsEveryKey ==
  ASSUME MigratorBypasses
  PROVE  Spec /\ []Drained => [](\A id \in Call : calls[id] # None => KeyNamesOwner(calls[id]))
<1>1. Init => NoneLate
  BY DEF Init, NoneLate
<1>2. FenceInv /\ Drained /\ NoneLate /\ [Next]_vars => NoneLate'
  <2> SUFFICES ASSUME FenceInv, Drained, NoneLate, [Next]_vars PROVE NoneLate'
    OBVIOUS
  <2> USE DEF NoneLate, FenceInv, TypeOK, Row, schema
  <2>1. ASSUME NEW id \in Call, NEW c \in Company, InsertWithCompany(id, c) PROVE NoneLate'
    BY <2>1 DEF InsertWithCompany, Insert, Drained
  <2>2. ASSUME NEW id \in Call, NEW u \in Unit, insert_cdr(id, u) PROVE NoneLate'
    BY <2>2 DEF insert_cdr, Insert
  <2>3. CASE Backfill
    BY <2>3 DEF Backfill
  <2>4. CASE DropColumn
    BY <2>4 DEF DropColumn, WithoutCompany
  <2>5. CASE UNCHANGED calls
    BY <2>5
  <2>6. QED
    BY <2>1, <2>2, <2>3, <2>4, <2>5
    DEF Next, up, vars, Start, Stop, AddOrgUnit, Proceed, Refuse, DropIndexes, DropPolicy,
        MigrationFails, Revert
<1>3. NoneLate /\ KeyKept => \A id \in Call : calls[id] # None => KeyNamesOwner(calls[id])
  BY DEF NoneLate, KeyKept, InTime
<1>4. QED
  BY <1>1, <1>2, <1>3, FenceInvariance, NoOrphan, PTL DEF Spec

================================================================================
