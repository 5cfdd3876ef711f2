---------------------------- MODULE CallRecordProofs ----------------------------
(* Lemmas about the data of the CDR log, for every resolution of the clock and  *)
(* every width of the duration column.                                          *)
EXTENDS CallRecord, TLAPS

(* Talk time fits the duration_seconds column and passes its CHECK >= 0,        *)
(* whatever timestamps a provider sends (talk_time).                            *)
LEMMA TalkTimeRange ==
    ASSUME NEW a \in Int \cup {None}, NEW e \in Int \cup {None}
    PROVE  talk_time(a, e) \in 0 .. I32Max
<1>1. CASE a # None /\ e # None /\ e >= a
  <2>1. a \in Int /\ e \in Int /\ e - a \in Nat
    BY <1>1
  <2>2. (e - a) \div TicksPerSecond \in Nat
    BY <2>1, TimeAssumption, SMT
  <2> QED
    BY <1>1, <2>2, TimeAssumption DEF talk_time
<1>2. CASE ~(a # None /\ e # None /\ e >= a)
  BY <1>2, TimeAssumption DEF talk_time
<1> QED
  BY <1>1, <1>2

(* Talk time is exact: of the whole numbers of seconds the column can hold, the *)
(* largest that fits between answer and end (talk_time).                        *)
THEOREM TalkTimeExact ==
    ASSUME NEW a \in Int, NEW e \in Int, e >= a
    PROVE  /\ talk_time(a, e) * TicksPerSecond <= e - a
           /\ talk_time(a, e) < I32Max => (talk_time(a, e) + 1) * TicksPerSecond > e - a
<1> DEFINE x == e - a
           q == x \div TicksPerSecond
<1>1. x \in Nat /\ TicksPerSecond \in Nat /\ TicksPerSecond > 0
  BY TimeAssumption
<1>2. q \in Nat
  BY <1>1, SMT
<1>3. TicksPerSecond * q <= x
  BY <1>1, SMT
<1>4. x < TicksPerSecond * (q + 1)
  BY <1>1, SMT
<1>5. talk_time(a, e) = IF q <= I32Max THEN q ELSE I32Max
  BY NoneAssumption DEF talk_time
<1> HIDE DEF q
<1>6. CASE q <= I32Max
  BY <1>1, <1>2, <1>3, <1>4, <1>5, <1>6
<1>7. CASE q > I32Max
  <2>1. I32Max * TicksPerSecond <= q * TicksPerSecond
    BY <1>1, <1>2, <1>7, TimeAssumption
  <2> QED
    BY <1>1, <1>2, <1>3, <1>5, <1>7, <2>1, TimeAssumption
<1> QED
  BY <1>2, <1>6, <1>7, TimeAssumption

(* The derived duration of any deliverable CDR is a value of the column.        *)
LEMMA DurationRange ==
    ASSUME NEW c \in InboundCdr
    PROVE  Duration(c) \in 0 .. I32Max
  BY TalkTimeRange DEF Duration, InboundCdr

(* What insert_cdr writes is a row of the table.                                *)
LEMMA NewCallRowIsRow ==
    ASSUME NEW c \in InboundCdr, NEW u \in Unit
    PROVE  NewCallRow(c, u) \in Row
  BY DurationRange DEF NewCallRow, Row, InboundCdr

(* The unique index does not care which of two rows came first.                 *)
LEMMA SameProviderCallSymmetric ==
    ASSUME NEW row1, NEW row2
    PROVE  SameProviderCall(row1, row2) <=> SameProviderCall(row2, row1)
  BY DEF SameProviderCall
================================================================================
