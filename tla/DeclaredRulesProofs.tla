--------------------------- MODULE DeclaredRulesProofs ---------------------------
(* The guard, the constraints and the migration agree about the declared rules,   *)
(* for any rows, any updates in flight and any order of the migration's steps.    *)
EXTENDS DeclaredRules, TLAPS

USE ValueAssumption, RowAssumption, NoneAssumption, TrimAssumption, DeclaredAssumption

(* A rule looks at one field of a row only (CallRowRules, add_declared_checks).   *)
LEMMA RuleReadsItsField ==
  ASSUME NEW rule \in Rule, NEW row1, NEW row2, row1[rule.field] = row2[rule.field]
  PROVE  CheckHolds(rule, row1) <=> CheckHolds(rule, row2)
  BY DEF CheckHolds

(* The guard's rule is at least as strict as the constraint, tabs included.       *)
LEMMA GuardIsStricter ==
  ASSUME NEW rule \in Rule, NEW row, holds(rule, row)
  PROVE  CheckHolds(rule, row)
  BY DEF CheckHolds, holds

(* What the guard lets an update store breaks no rule its row did not break.      *)
LEMMA GuardAddsNoBreach ==
  ASSUME NEW before, NEW after, update_guard(before, after),
         NEW rule \in Rule, ~CheckHolds(rule, after)
  PROVE  ~CheckHolds(rule, before)
<1>1. CASE before[rule.field] = after[rule.field]
  BY <1>1, RuleReadsItsField
<1>2. CASE before[rule.field] # after[rule.field]
  BY <1>2, GuardIsStricter DEF update_guard
<1>3. QED  BY <1>1, <1>2

(* The rows stored before the rules existed are all unguarded (Init).             *)
LEMMA InitRules == Init => RulesInv
<1> SUFFICES ASSUME Init PROVE RulesInv
  OBVIOUS
<1>1. unguarded \subseteq Call \X Rule
  BY DEF Init, Breaches
<1>2. TypeOK
  BY <1>1 DEF Init, TypeOK, InFlight, Idle
<1>3. GuardLetsNothingIn
  BY DEF Init, GuardLetsNothingIn, Breaches
<1>4. QED
  BY <1>2, <1>3 DEF Init, RulesInv, ConstraintsHold, Idle

(* Every row some writer may store is a row.                                      *)
LEMMA UpdatedRowTyped ==
  ASSUME NEW before \in Row, NEW dto \in Row
  PROVE  apply_update(before, dto) = dto
  BY DEF apply_update, Row

(* No writer, update, purge or step of the migration breaks the invariant (Next). *)
LEMMA StepRules == RulesInv /\ [Next]_vars => RulesInv'
<1> SUFFICES ASSUME RulesInv, [Next]_vars PROVE RulesInv'
  OBVIOUS
<1> USE DEF RulesInv
<1>1. ASSUME NEW id \in Call, NEW row \in Submitted, create(id, row) PROVE RulesInv'
  <2>1. \A rule \in Rule : CheckHolds(rule, row)
    BY <1>1, GuardIsStricter DEF create, create_guard
  <2>2. TypeOK'
    BY <1>1 DEF create, TypeOK
  <2>3. ConstraintsHold' /\ GuardLetsNothingIn'
    BY <1>1, <2>1 DEF create, TypeOK, ConstraintsHold, Offenders, GuardLetsNothingIn
  <2>4. QED  BY <1>1, <2>2, <2>3 DEF create
<1>2. ASSUME NEW id \in Call, NEW row \in Submitted, record_call(id, row) PROVE RulesInv'
  <2>1. TypeOK'
    BY <1>2 DEF record_call, TypeOK, Breaches
  <2>2. ConstraintsHold'
    BY <1>2 DEF record_call, TypeOK, ConstraintsHold, Offenders, Accepted
  <2>3. GuardLetsNothingIn'
    BY <1>2 DEF record_call, TypeOK, GuardLetsNothingIn, Breaches
  <2>4. QED  BY <1>2, <2>1, <2>2, <2>3 DEF record_call
<1>3. ASSUME NEW id \in Call, NEW subject_type \in SubjectType, link_call(id, subject_type)
      PROVE  RulesInv'
  <2> DEFINE row == [calls[id] EXCEPT !["subject_type"] = subject_type]
  <2>1. row \in Row /\ calls' = [calls EXCEPT ![id] = row] /\ Accepted(row)
        /\ unguarded' = unguarded \cup Breaches(id, row)
    BY <1>3 DEF link_call, TypeOK, Row, Field, Number
  <2> HIDE DEF row
  <2>2. TypeOK'
    BY <1>3, <2>1 DEF link_call, TypeOK, Breaches
  <2>3. ConstraintsHold'
    BY <1>3, <2>1 DEF link_call, TypeOK, ConstraintsHold, Offenders, Accepted
  <2>4. GuardLetsNothingIn'
    BY <1>3, <2>1 DEF link_call, TypeOK, GuardLetsNothingIn, Breaches
  <2>5. QED  BY <1>3, <2>1, <2>2, <2>3, <2>4 DEF link_call
<1>4. ASSUME NEW id \in Call, empty_trash(id) PROVE RulesInv'
  <2>1. TypeOK'
    BY <1>4 DEF empty_trash, TypeOK
  <2>2. ConstraintsHold' /\ GuardLetsNothingIn'
    BY <1>4 DEF empty_trash, TypeOK, ConstraintsHold, Offenders, GuardLetsNothingIn
  <2>3. QED  BY <1>4, <2>1, <2>2 DEF empty_trash
<1>5. ASSUME NEW u \in Update, NEW id \in Call, find(u, id) PROVE RulesInv'
  <2>1. TypeOK'
    BY <1>5 DEF find, TypeOK, InFlight
  <2>2. ConstraintsHold' /\ GuardLetsNothingIn'
    BY <1>5 DEF find, ConstraintsHold, Offenders, GuardLetsNothingIn
  <2>3. \A rule \in Rule : ~CheckHolds(rule, calls[id]) =>
          rule \notin checks /\ <<id, rule>> \in unguarded
    BY <1>5 DEF find, ConstraintsHold, Offenders, GuardLetsNothingIn
  <2>4. QED  BY <1>5, <2>1, <2>2, <2>3 DEF find, TypeOK
<1>6. ASSUME NEW u \in Update, NEW dto \in Submitted, GuardAllows(u, dto) PROVE RulesInv'
  <2>1. update[u].before \in Row /\ update[u].id \in Call /\ update[u].standing \subseteq Rule
    BY <1>6 DEF GuardAllows, TypeOK, InFlight, Idle
  <2>2. apply_update(update[u].before, dto) = dto
    BY <2>1, UpdatedRowTyped
  <2> DEFINE allowed == [pc |-> "write", id |-> update[u].id, before |-> update[u].before,
                         after |-> dto, standing |-> update[u].standing]
  <2>3. update' = [update EXCEPT ![u] = allowed]
    BY <1>6, <2>2 DEF GuardAllows, TypeOK, InFlight, Idle
  <2>4. allowed \in InFlight
    BY <2>1 DEF InFlight
  <2>5. /\ \A rule \in Rule : ~CheckHolds(rule, allowed.before) =>
             rule \notin allowed.standing /\ <<allowed.id, rule>> \in unguarded
        /\ update_guard(allowed.before, allowed.after)
    BY <1>6, <2>2 DEF GuardAllows
  <2> HIDE DEF allowed
  <2>6. TypeOK'
    BY <1>6, <2>3, <2>4 DEF GuardAllows, TypeOK
  <2>7. ConstraintsHold' /\ GuardLetsNothingIn'
    BY <1>6 DEF GuardAllows, ConstraintsHold, Offenders, GuardLetsNothingIn
  <2>8. QED  BY <1>6, <2>3, <2>5, <2>6, <2>7 DEF GuardAllows, TypeOK
<1>7. ASSUME NEW u \in Update, NEW dto \in Submitted, GuardRefuses(u, dto) PROVE RulesInv'
  <2>1. TypeOK'
    BY <1>7 DEF GuardRefuses, TypeOK, InFlight
  <2>2. ConstraintsHold' /\ GuardLetsNothingIn'
    BY <1>7 DEF GuardRefuses, ConstraintsHold, Offenders, GuardLetsNothingIn
  <2>3. QED  BY <1>7, <2>1, <2>2 DEF GuardRefuses, TypeOK, Idle
<1>8. ASSUME NEW u \in Update, Write(u) PROVE RulesInv'
  <2>1. update[u].after \in Row /\ update[u].id \in Call
    BY <1>8 DEF Write, TypeOK, InFlight, Idle
  <2>2. TypeOK'
    BY <1>8, <2>1 DEF Write, TypeOK, InFlight
  <2>3. ConstraintsHold'
    BY <1>8, <2>1 DEF Write, TypeOK, ConstraintsHold, Offenders, Accepted
  <2>4. \A rule \in Rule : ~CheckHolds(rule, update[u].after) =>
          <<update[u].id, rule>> \in unguarded
    BY <1>8, GuardAddsNoBreach DEF Write
  <2>5. GuardLetsNothingIn'
    BY <1>8, <2>1, <2>4 DEF Write, TypeOK, GuardLetsNothingIn
  <2>6. QED  BY <1>8, <2>2, <2>3, <2>5 DEF Write, TypeOK, Idle
<1>9. ASSUME NEW u \in Update, WriteFails(u) PROVE RulesInv'
  <2>1. TypeOK'
    BY <1>9 DEF WriteFails, TypeOK, InFlight
  <2>2. ConstraintsHold' /\ GuardLetsNothingIn'
    BY <1>9 DEF WriteFails, ConstraintsHold, Offenders, GuardLetsNothingIn
  <2>3. QED  BY <1>9, <2>1, <2>2 DEF WriteFails, TypeOK, Idle
<1>10. ASSUME NEW rule \in Declared, Scan(rule) \/ DropConstraint(rule) PROVE RulesInv'
  BY <1>10 DEF Scan, DropConstraint, TypeOK, ConstraintsHold, Offenders, GuardLetsNothingIn
<1>11. CASE AddConstraint \/ AddConstraintFails
  BY <1>11 DEF AddConstraint, AddConstraintFails, TypeOK, ConstraintsHold, Offenders,
               GuardLetsNothingIn
<1>12. CASE UNCHANGED vars
  BY <1>12 DEF vars, TypeOK, ConstraintsHold, Offenders, GuardLetsNothingIn
<1>13. QED
  BY <1>1, <1>2, <1>3, <1>4, <1>5, <1>6, <1>7, <1>8, <1>9, <1>10, <1>11, <1>12 DEF Next

(* The invariant holds in every reachable state.                                  *)
THEOREM RulesInvariance == Spec => []RulesInv
  BY InitRules, StepRules, PTL DEF Spec

(* A rule that is a constraint holds of every stored row (add_declared_checks).   *)
THEOREM ConstraintsAreKept == Spec => []ConstraintsHold
<1>1. RulesInv => ConstraintsHold
  BY DEF RulesInv
<1>2. QED  BY <1>1, RulesInvariance, PTL

(* The generic surface brings no breach in (CallRowRules::check).                 *)
THEOREM GuardedSurface == Spec => []GuardLetsNothingIn
<1>1. RulesInv => GuardLetsNothingIn
  BY DEF RulesInv
<1>2. QED  BY <1>1, RulesInvariance, PTL

(* No standing constraint refuses what the guard let through.                     *)
THEOREM GuardSpeaksFirst == Spec => []GuardAnticipatesChecks
<1>1. ASSUME RulesInv PROVE GuardAnticipatesChecks
  <2> SUFFICES ASSUME NEW u \in Update, update[u].pc = "write",
                      NEW rule \in update[u].standing
               PROVE  CheckHolds(rule, update[u].after)
    BY DEF GuardAnticipatesChecks
  <2>1. rule \in Rule
    BY <1>1 DEF RulesInv, TypeOK, InFlight, Idle
  <2>2. CheckHolds(rule, update[u].before)
    BY <1>1, <2>1 DEF RulesInv
  <2>3. QED  BY <1>1, <2>1, <2>2, GuardAddsNoBreach DEF RulesInv
<1>2. QED  BY <1>1, RulesInvariance, PTL

================================================================================
