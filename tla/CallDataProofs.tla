----------------------------- MODULE CallDataProofs -----------------------------
(* Talk time, events, pages and partial updates for every CDR, list, width and    *)
(* body: the invariants of CallData, and where a row of a list is shown.          *)
EXTENDS CallData, CallRecordProofs, FiniteSetTheorems

USE WidthAssumption

(* A quotient is the number whose multiples the dividend lies between (PageOf).   *)
LEMMA Quotient ==
  ASSUME NEW i \in Nat, NEW d \in Nat \ {0}
  PROVE  /\ i \div d \in Nat
         /\ (i \div d) * d <= i /\ i < (i \div d + 1) * d
         /\ \A q \in Nat : q * d <= i /\ i < (q + 1) * d => i \div d = q
<1> DEFINE n == i \div d
<1>1. n \in Nat /\ d * n <= i /\ i < d * (n + 1)
  BY SMT
<1> HIDE DEF n
<1>2. n * d <= i /\ i < (n + 1) * d
  BY <1>1
<1>3. ASSUME NEW a \in Nat, NEW b \in Nat, a * d <= i, i < (a + 1) * d, b * d <= i, i < (b + 1) * d, a < b
      PROVE  FALSE
  <2>1. (a + 1) * d <= b * d
    BY <1>3
  <2>2. (a + 1) * d \in Nat /\ b * d \in Nat
    BY <1>3
  <2>3. QED  BY <1>3, <2>1, <2>2
<1>4. \A q \in Nat : q * d <= i /\ i < (q + 1) * d => n = q
  <2> SUFFICES ASSUME NEW q \in Nat, q * d <= i, i < (q + 1) * d PROVE n = q
    OBVIOUS
  <2>1. ~(n < q) /\ ~(q < n)
    BY <1>1, <1>2, <1>3
  <2>2. QED  BY <1>1, <2>1
<1>5. QED  BY <1>1, <1>2, <1>4 DEF n

(* The product of the request's numbers, as long as it fits, is the offset         *)
(* (offset).                                                                      *)
LEMMA OffsetFits ==
  ASSUME NEW page \in Nat \ {0}, NEW per_page \in Nat, (page - 1) * per_page < Modulus
  PROVE  offset(page, per_page) = (page - 1) * per_page
<1>1. saturating_sub(page, 1) = page - 1
  BY DEF saturating_sub
<1>2. (page - 1) * per_page \in Nat
  OBVIOUS
<1>3. ((page - 1) * per_page) % Modulus = (page - 1) * per_page
  BY <1>2
<1>4. QED  BY <1>1, <1>3 DEF offset

(* A page whose offset fits the width shows the rows from its offset up to the     *)
(* next page's, as far as the list has them (offset, limit).                      *)
THEOREM PageIsItsRows ==
  ASSUME NEW page \in Nat \ {0}, NEW per_page \in Nat, NEW total \in Nat, NEW i \in Nat,
         (page - 1) * per_page < Modulus
  PROVE  i \in Shown(total, page, per_page) <=>
           i < total /\ (page - 1) * per_page <= i /\ i < page * per_page
<1>1. offset(page, per_page) = (page - 1) * per_page
  BY OffsetFits
<1>2. (page - 1) * per_page + per_page = page * per_page /\ (page - 1) * per_page \in Nat
  OBVIOUS
<1>3. i \in 0 .. saturating_sub(total, 1) /\ i < total <=> i < total
  BY DEF saturating_sub
<1>4. QED  BY <1>1, <1>2, <1>3 DEF Shown, limit

(* Row i is on page i \div per_page + 1, as far as the list has it, and on no      *)
(* other (offset, limit).                                                        *)
LEMMA RowsOfAPage ==
  ASSUME NEW page \in Nat \ {0}, NEW per_page \in Nat \ {0}, NEW total \in Nat,
         (page - 1) * per_page < Modulus
  PROVE  Shown(total, page, per_page) = {i \in {j \in 0 .. total : j < total} : PageOf(i, per_page) = page}
<1>1. Shown(total, page, per_page) \subseteq Nat
  BY DEF Shown, saturating_sub
<1>2. ASSUME NEW i \in Nat
      PROVE  i \in Shown(total, page, per_page) <=> i < total /\ PageOf(i, per_page) = page
  <2>1. page - 1 \in Nat /\ (page - 1) + 1 = page
    OBVIOUS
  <2>2. i \div per_page = page - 1 <=> (page - 1) * per_page <= i /\ i < page * per_page
    BY Quotient, <2>1
  <2>3. i \div per_page \in Nat
    BY Quotient
  <2>4. PageOf(i, per_page) = page <=> i \div per_page = page - 1
    BY <2>3 DEF PageOf
  <2>5. QED  BY <2>2, <2>4, PageIsItsRows
<1>3. QED  BY <1>1, <1>2

(* No row is on two pages whose offsets fit the width (offset).                     *)
THEOREM RowIsOnOnePage ==
  ASSUME NEW per_page \in Nat \ {0}, NEW total \in Nat,
         NEW p \in Nat \ {0}, NEW q \in Nat \ {0}, NEW i \in Nat,
         (p - 1) * per_page < Modulus, (q - 1) * per_page < Modulus,
         i \in Shown(total, p, per_page), i \in Shown(total, q, per_page)
  PROVE  p = q
  BY RowsOfAPage

(* Every row of a list that fits the width is on the page its number says: the     *)
(* r-th row after q full pages is on page q + 1 (offset, limit).                   *)
THEOREM RowIsOnSomePage ==
  ASSUME NEW per_page \in Nat \ {0}, NEW total \in Nat, total <= Modulus,
         NEW q \in Nat, NEW r \in 0 .. per_page - 1, q * per_page + r < total
  PROVE  q * per_page + r \in Shown(total, q + 1, per_page)
<1>1. q * per_page \in Nat /\ (q + 1) * per_page = q * per_page + per_page
  OBVIOUS
<1>2. (q + 1) - 1 = q /\ q + 1 \in Nat \ {0}
  OBVIOUS
<1>3. ((q + 1) - 1) * per_page < Modulus
  BY <1>1, <1>2
<1>4. q * per_page + r \in Nat
  BY <1>1
<1>5. QED  BY <1>1, <1>2, <1>3, <1>4, PageIsItsRows

(* The page count is the rounded-up quotient: the last page has a row and no row   *)
(* is beyond it (total_pages).                                                    *)
LEMMA TotalPagesRoundsUp ==
  ASSUME NEW total \in Nat, NEW per_page \in Nat \ {0}, total < Modulus
  PROVE  /\ total_pages(total, per_page) \in Nat
         /\ total <= total_pages(total, per_page) * per_page
         /\ total_pages(total, per_page) * per_page < total + per_page
<1> DEFINE n == (total + per_page - 1) \div per_page
<1>1. total + per_page - 1 \in Nat
  OBVIOUS
<1>2. n \in Nat /\ n * per_page <= total + per_page - 1 /\ total + per_page - 1 < (n + 1) * per_page
  BY <1>1, Quotient
<1> HIDE DEF n
<1>3. n * per_page \in Nat /\ (n + 1) * per_page = n * per_page + per_page
  BY <1>2
<1>4. n <= total
  <2> SUFFICES ASSUME n > total PROVE FALSE
    BY <1>2
  <2>1. (total + 1) * per_page <= n * per_page
    BY <1>2
  <2>2. (total + 1) * per_page = total * per_page + per_page /\ total * per_page >= total
    OBVIOUS
  <2>3. total * per_page \in Nat
    OBVIOUS
  <2>4. QED  BY <1>2, <1>3, <2>1, <2>2, <2>3
<1>5. total_pages(total, per_page) = n
  BY <1>2, <1>4 DEF total_pages, n
<1>6. QED  BY <1>2, <1>3, <1>5

(* has_next says whether a row is on a later page (CallListResponseDto::new).      *)
LEMMA HasNextIsALaterRow ==
  ASSUME NEW total \in Nat, NEW page \in Nat, NEW per_page \in Nat \ {0}, total < Modulus
  PROVE  has_next(total, page, per_page) <=>
           \E i \in {j \in 0 .. total : j < total} : PageOf(i, per_page) > page
<1> DEFINE n == total_pages(total, per_page)
<1>1. n \in Nat /\ total <= n * per_page /\ n * per_page < total + per_page
  BY TotalPagesRoundsUp
<1>0. has_next(total, page, per_page) <=> page < n
  BY DEF has_next
<1> HIDE DEF n
<1>2. page * per_page \in Nat /\ (page + 1) * per_page = page * per_page + per_page
  OBVIOUS
<1>3. ASSUME page < n
      PROVE  \E i \in {j \in 0 .. total : j < total} : PageOf(i, per_page) > page
  <2>1. (page + 1) * per_page <= n * per_page /\ n * per_page \in Nat
    BY <1>1, <1>3
  <2>2. page * per_page < total
    BY <1>1, <1>2, <2>1
  <2>3. (page * per_page) \div per_page = page
    BY <1>2, Quotient
  <2>4. PageOf(page * per_page, per_page) = page + 1
    BY <2>3 DEF PageOf
  <2>5. page * per_page \in {j \in 0 .. total : j < total}
    BY <1>2, <2>2
  <2>6. WITNESS page * per_page \in {j \in 0 .. total : j < total}
  <2>7. QED  BY <2>4
<1>4. ASSUME NEW i \in Nat, i < total, PageOf(i, per_page) > page
      PROVE  page < n
  <2> DEFINE q == i \div per_page
  <2>1. q \in Nat /\ q * per_page <= i
    BY Quotient
  <2>2. q >= page
    BY <1>4, <2>1 DEF PageOf
  <2> HIDE DEF q
  <2>3. page * per_page <= q * per_page /\ q * per_page \in Nat
    BY <2>1, <2>2
  <2>4. page * per_page < total
    BY <1>2, <1>4, <2>1, <2>3
  <2> SUFFICES ASSUME n <= page PROVE FALSE
    BY <1>1
  <2>5. n * per_page <= page * per_page /\ n * per_page \in Nat
    BY <1>1
  <2>6. QED  BY <1>1, <1>2, <2>4, <2>5
<1>5. ASSUME NEW i \in {j \in 0 .. total : j < total}, PageOf(i, per_page) > page
      PROVE  page < n
  <2>1. i \in Nat /\ i < total
    OBVIOUS
  <2>2. QED  BY <1>4, <1>5, <2>1
<1>6. QED  BY <1>0, <1>3, <1>5

--------------------------------------------------------------------------------
(* Every Field has the name a response gives it and no other (CallResponseDto).   *)
LEMMA OneResponseKey ==
  ASSUME NEW f \in Field, NEW key \in {ResponseKey(g) : g \in Field}
  PROVE  key[1] = f <=> key = ResponseKey(f)
<1>1. PICK g \in Field : key = ResponseKey(g)
  OBVIOUS
<1>2. key[1] = g /\ ResponseKey(f)[1] = f
  BY <1>1 DEF ResponseKey
<1>3. QED  BY <1>1, <1>2

(* What a client reads, edits and puts back is complete: the required fields are   *)
(* there and decode (CallResponseDto against UpdateCallDto).                       *)
LEMMA EditedIsComplete ==
  ASSUME NEW call \in Call, NEW body, IsBody(body)
  PROVE  /\ IsUpdateCallDto(Edited(call, body))
         /\ \A f \in Field : UpdateCallDto(Edited(call, body))[f] =
              IF <<f, "snake">> \in Understood(body) THEN body[<<f, "snake">>] ELSE call[f]
<1> DEFINE edited == Edited(call, body)
           Wanted(f) == IF <<f, "snake">> \in Understood(body) THEN body[<<f, "snake">>] ELSE call[f]
<1>1. /\ DOMAIN edited = {ResponseKey(f) : f \in Field}
      /\ \A key \in {ResponseKey(f) : f \in Field} : edited[key] = Wanted(key[1])
  BY DEF Edited, CallResponseDto
<1>2. \A f \in Field : Given(edited, f) = {ResponseKey(f)}
  BY <1>1, OneResponseKey DEF Given
<1>3. \A f \in Field : ResponseKey(f)[1] = f
  BY DEF ResponseKey
<1>4. \A f \in Field : edited[ResponseKey(f)] = Wanted(f)
  BY <1>1, <1>3
<1>5. \A f \in Field : from_value_ok(f, Wanted(f))
  <2> SUFFICES ASSUME NEW f \in Field PROVE from_value_ok(f, Wanted(f))
    OBVIOUS
  <2>1. CASE <<f, "snake">> \in Understood(body)
    <3>1. from_value_ok(<<f, "snake">>[1], body[<<f, "snake">>])
      BY <2>1 DEF Understood
    <3>2. QED  BY <2>1, <3>1
  <2>2. CASE <<f, "snake">> \notin Understood(body)
    <3>1. call[f] \in Value \cup {Null} /\ (f \in Required => call[f] # Null)
      BY DEF Call
    <3>2. QED  BY <2>2, <3>1 DEF from_value_ok, Field
  <2>3. QED  BY <2>1, <2>2
<1> HIDE DEF Wanted
<1>6. IsUpdateCallDto(edited)
  <2> SUFFICES ASSUME NEW f \in Field
               PROVE  /\ Cardinality(Given(edited, f)) <= 1
                      /\ \A key \in Given(edited, f) : from_value_ok(f, edited[key])
                      /\ f \in Required => Given(edited, f) # {}
    BY DEF IsUpdateCallDto
  <2>1. Cardinality({ResponseKey(f)}) = 1
    BY FS_Singleton
  <2>2. QED  BY <1>2, <1>4, <1>5, <2>1
<1>7. \A f \in Field : UpdateCallDto(edited)[f] = Wanted(f)
  BY <1>2, <1>4 DEF UpdateCallDto
<1>8. QED  BY <1>6, <1>7 DEF edited, Wanted

(* One turn of the loop does what its key asks for and nothing else, whatever the  *)
(* keys already seen have done (apply_patch).                                     *)
LEMMA PatchStep ==
  ASSUME NEW edit, PatchedSoFar(edit), NEW key \in edit.rest,
         NEW next, next.call = edit.call, next.body = edit.body, next.rest = edit.rest \ {key},
         next.patched = patch_field(edit.patched, key, edit.body[key]),
         next = [call |-> next.call, body |-> next.body, rest |-> next.rest, patched |-> next.patched]
  PROVE  PatchedSoFar(next)
<1> DEFINE Has(f, rest) == <<f, "snake">> \in Understood(edit.body) \ rest
           Field_(f, rest) == IF Has(f, rest) THEN edit.body[<<f, "snake">>] ELSE edit.call[f]
<1>1. /\ key \in Key /\ key \in DOMAIN edit.body
      /\ edit.patched = [f \in Field |-> Field_(f, edit.rest)]
  BY DEF PatchedSoFar, IsBody
<1>2. key[1] \in Field /\ (key[2] = "snake" => key = <<key[1], "snake">>)
  BY <1>1 DEF Key
<1>3. key \in Understood(edit.body) <=> key[2] = "snake" /\ from_value_ok(key[1], edit.body[key])
  BY <1>1 DEF Understood
<1>4. next.patched = [f \in Field |-> Field_(f, next.rest)]
  <2>1. CASE key \in Understood(edit.body)
    <3>1. key = <<key[1], "snake">>
      BY <1>2, <1>3, <2>1
    <3>2. next.patched = [edit.patched EXCEPT ![key[1]] = edit.body[key]]
      BY <1>3, <2>1 DEF patch_field
    <3>3. \A f \in Field : <<f, "snake">> = key <=> f = key[1]
      BY <3>1
    <3>4. \A f \in Field : Field_(f, next.rest) = IF f = key[1] THEN edit.body[key] ELSE Field_(f, edit.rest)
      BY <2>1, <3>1, <3>3
    <3>5. QED  BY <1>1, <3>2, <3>4
  <2>2. CASE key \notin Understood(edit.body)
    <3>1. next.patched = edit.patched
      BY <1>3, <2>2 DEF patch_field
    <3>2. \A f \in Field : Has(f, next.rest) <=> Has(f, edit.rest)
      BY <2>2
    <3>3. \A f \in Field : Field_(f, next.rest) = Field_(f, edit.rest)
      BY <3>2
    <3>4. QED  BY <1>1, <3>1, <3>3
  <2>3. QED  BY <2>1, <2>2
<1>5. QED  BY <1>1, <1>4 DEF PatchedSoFar

(* Once every key is seen the call holds what the body understands, and the rest    *)
(* of it as before (apply_patch).                                                 *)
LEMMA PatchDone ==
  ASSUME NEW edit, PatchedSoFar(edit), edit.rest = {}
  PROVE  edit.patched = [f \in Field |->
           IF <<f, "snake">> \in Understood(edit.body) THEN edit.body[<<f, "snake">>] ELSE edit.call[f]]
<1>1. edit.patched = [f \in Field |->
        IF <<f, "snake">> \in Understood(edit.body) \ edit.rest
        THEN edit.body[<<f, "snake">>] ELSE edit.call[f]]
  BY DEF PatchedSoFar
<1>2. Understood(edit.body) \ edit.rest = Understood(edit.body)
  OBVIOUS
<1>3. QED  BY <1>1, <1>2

--------------------------------------------------------------------------------
(* The inputs are well formed (Init).                                             *)
LEMMA InitData == Init => DataInv
<1> SUFFICES ASSUME Init PROVE DataInv
  OBVIOUS
<1>1. CASE input \in Kind("cdr", Cdr)
  BY <1>1, CdrAssumption DEF DataInv, Kind
<1>2. CASE input \in Kind("page", Listing)
  BY <1>2 DEF DataInv
<1>3. CASE input \in Kind("edit", Patching)
  <2>1. PICK e \in Edit : input = [kind |-> "edit",
              data |-> [call |-> e.call, body |-> e.body, patched |-> e.call, rest |-> DOMAIN e.body]]
    BY <1>3 DEF Kind, Patching
  <2>2. e.call \in Call /\ IsBody(e.body)
    BY EditAssumption
  <2>3. e.call = [f \in Field |-> e.call[f]]
    BY <2>2 DEF Call
  <2>4. \A f \in Field : <<f, "snake">> \notin Understood(e.body) \ DOMAIN e.body
    BY DEF Understood
  <2>5. PatchedSoFar(input.data)
    BY <2>1, <2>2, <2>3, <2>4 DEF PatchedSoFar
  <2>6. QED  BY <2>1, <2>5 DEF DataInv
<1>4. QED  BY <1>1, <1>2, <1>3 DEF Init

(* A CDR that is re-versioned and a key that is applied keep the invariant (Next). *)
LEMMA StepData == DataInv /\ [Next]_input => DataInv'
<1> SUFFICES ASSUME DataInv, [Next]_input PROVE DataInv'
  OBVIOUS
<1>1. CASE Reversion
  <2>1. PICK e \in Later : input' = [input EXCEPT !.data.ended_at = e]
    BY <1>1 DEF Reversion
  <2>2. input \in Kind("cdr", InboundCdr)
    BY <1>1 DEF Reversion, DataInv, Kind
  <2>3. input'.kind = "cdr" /\ input'.data = [input.data EXCEPT !.ended_at = e]
    BY <2>1, <2>2 DEF Kind
  <2>4. input'.data \in InboundCdr
    BY <2>2, <2>3, CdrAssumption DEF Kind, InboundCdr
  <2>5. input' = [kind |-> "cdr", data |-> input'.data]
    BY <2>1, <2>2, <2>3 DEF Kind
  <2>6. QED  BY <2>4, <2>5 DEF DataInv, Kind
<1>2. CASE apply_patch
  <2>1. PICK key \in input.data.rest :
          input' = [input EXCEPT !.data.patched = patch_field(@, key, input.data.body[key]),
                                 !.data.rest = @ \ {key}]
    BY <1>2 DEF apply_patch
  <2>2. input = [kind |-> "edit", data |-> input.data] /\ PatchedSoFar(input.data)
    BY <1>2 DEF apply_patch, DataInv, Kind
  <2> DEFINE next == input'.data
  <2>3. /\ input' = [kind |-> "edit", data |-> next]
        /\ next = [call |-> next.call, body |-> next.body, rest |-> next.rest, patched |-> next.patched]
        /\ next.call = input.data.call /\ next.body = input.data.body
        /\ next.rest = input.data.rest \ {key}
        /\ next.patched = patch_field(input.data.patched, key, input.data.body[key])
    <3>1. PICK c, b, p, r : input = [kind |-> "edit", data |-> [call |-> c, body |-> b, patched |-> p, rest |-> r]]
      BY <2>2 DEF PatchedSoFar
    <3>2. QED  BY <2>1, <2>2, <3>1
  <2> HIDE DEF next
  <2>4. PatchedSoFar(next)
    BY <2>2, <2>3, PatchStep
  <2>5. QED  BY <2>3, <2>4 DEF DataInv, next
<1>3. CASE UNCHANGED input
  BY <1>3 DEF DataInv
<1>4. QED  BY <1>1, <1>2, <1>3 DEF Next

(* Every input stays well formed, and a patch has done what the keys seen so far   *)
(* ask for (apply_patch).                                                         *)
THEOREM DataInvariance == Spec => []DataInv
  BY InitData, StepData, PTL DEF Spec

(* Talk time is a whole number of seconds that fits the column, whatever a         *)
(* provider reports and re-versions (talk_time).                                  *)
THEOREM TalkTime == Spec => []TalkTimeIsWholeSeconds
<1>1. ASSUME DataInv PROVE TalkTimeIsWholeSeconds
  <2> SUFFICES ASSUME input.kind = "cdr"
               PROVE  LET a == input.data.answered_at
                          e == input.data.ended_at
                          d == Duration(input.data)
                      IN  /\ d \in 0 .. I32Max
                          /\ IF a # None /\ e # None /\ e >= a
                             THEN /\ d * TicksPerSecond <= e - a
                                  /\ d < I32Max => (d + 1) * TicksPerSecond > e - a
                             ELSE d = 0
    BY DEF TalkTimeIsWholeSeconds
  <2> DEFINE a == input.data.answered_at
             e == input.data.ended_at
  <2>1. input.data \in InboundCdr
    BY <1>1 DEF DataInv, Kind
  <2>2. a \in Int \cup {None} /\ e \in Int \cup {None}
    BY <2>1 DEF InboundCdr
  <2>3. Duration(input.data) = talk_time(a, e)
    BY DEF Duration
  <2> HIDE DEF a, e
  <2>4. talk_time(a, e) \in 0 .. I32Max
    BY <2>2, TalkTimeRange
  <2>5. CASE a # None /\ e # None /\ e >= a
    BY <2>2, <2>3, <2>4, <2>5, TalkTimeExact DEF a, e
  <2>6. CASE ~(a # None /\ e # None /\ e >= a)
    BY <2>3, <2>4, <2>6 DEF talk_time, a, e
  <2>7. QED  BY <2>5, <2>6
<1>2. QED  BY <1>1, DataInvariance, PTL

(* A list is cut into pages without gap or overlap and the answer's counts agree   *)
(* with the cut, for every width of the request's numbers (offset, limit,          *)
(* CallListResponseDto::new).                                                     *)
THEOREM PagesPartition == Spec => []PagesPartitionTheList
<1>1. ASSUME DataInv PROVE PagesPartitionTheList
  <2> SUFFICES ASSUME input.kind = "page" PROVE PagesPartitionTheList
    BY DEF PagesPartitionTheList
  <2> DEFINE total == input.data.total
             page == page_or_default(input.data.page)
             per_page == per_page_or_default(input.data.per_page)
             rows == {i \in 0 .. total : i < total}
             shown == Shown(total, page, per_page)
  <2>1. total \in Nat /\ page \in Nat /\ per_page \in Nat
    <3>1. input.data \in [total : Nat, page : Numbers, per_page : Numbers]
      BY <1>1, ListingAssumption DEF DataInv, Kind
    <3>2. QED  BY <3>1 DEF Numbers, page_or_default, per_page_or_default
  <2> HIDE DEF total, page, per_page
  <2>2. ASSUME per_page = 0
        PROVE  shown = {} /\ ~has_next(total, page, per_page)
    <3>1. offset(page, per_page) \in Nat
      BY <2>1 DEF offset, saturating_sub
    <3>2. shown = {}
      BY <2>1, <2>2, <3>1 DEF Shown, limit, saturating_sub
    <3>3. QED  BY <2>1, <2>2, <3>2 DEF has_next, total_pages
  <2>3. ASSUME per_page # 0, page > 0, (page - 1) * per_page < Modulus
        PROVE  /\ shown = {i \in rows : PageOf(i, per_page) = page}
               /\ shown # {} => (has_prev(page) <=> 0 \notin shown)
    <3>1. shown = {i \in rows : PageOf(i, per_page) = page}
      BY <2>1, <2>3, RowsOfAPage
    <3>2. PageOf(0, per_page) = 1
      <4>1. 0 \div per_page = 0
        BY <2>1, <2>3, Quotient
      <4>2. QED  BY <4>1 DEF PageOf
    <3>3. shown # {} => 0 \in rows
      BY <2>1, <3>1
    <3>4. shown # {} => (0 \in shown <=> page = 1)
      BY <3>1, <3>2, <3>3
    <3>5. QED  BY <2>1, <2>3, <3>1, <3>4 DEF has_prev
  <2>4. ASSUME page = 0
        PROVE  shown = Shown(total, 1, per_page)
    BY <2>4 DEF Shown, offset, saturating_sub
  <2>5. ASSUME per_page # 0, total < Modulus
        PROVE  has_next(total, page, per_page) <=> \E i \in rows : PageOf(i, per_page) > page
    BY <2>1, <2>5, HasNextIsALaterRow
  <2>6. QED
    BY <2>2, <2>3, <2>4, <2>5 DEF PagesPartitionTheList, total, page, per_page
<1>2. QED  BY <1>1, DataInvariance, PTL

(* A partial update is a read, an edit and a full update, in whatever order the    *)
(* map yields its keys (apply_patch against apply_update).                        *)
THEOREM PatchIsPut == Spec => []PatchIsReadModifyPut
<1>1. ASSUME DataInv, Patched
      PROVE  LET edited == Edited(input.data.call, input.data.body)
             IN  IsUpdateCallDto(edited) /\ input.data.patched = apply_update(input.data.call, UpdateCallDto(edited))
  <2>1. PatchedSoFar(input.data) /\ input.data.rest = {}
    BY <1>1 DEF DataInv, Kind, Patched
  <2>2. input.data.call \in Call /\ IsBody(input.data.body)
    BY <2>1 DEF PatchedSoFar
  <2>3. input.data.patched = [f \in Field |->
          IF <<f, "snake">> \in Understood(input.data.body)
          THEN input.data.body[<<f, "snake">>] ELSE input.data.call[f]]
    BY <2>1, PatchDone
  <2>4. QED  BY <2>2, <2>3, EditedIsComplete DEF apply_update
<1>2. DataInv => PatchIsReadModifyPut
  BY <1>1 DEF PatchIsReadModifyPut
<1>3. QED  BY <1>2, DataInvariance, PTL

(* A patch that has_changes calls empty can clear optional fields and nothing      *)
(* else (has_changes against apply_patch).                                        *)
THEOREM EmptyPatchOnlyClears == Spec => []NoChangesOnlyClears
<1>1. ASSUME DataInv, Patched, ~has_changes(input.data.body),
             IsPatchCallDto(input.data.body),
             NEW f \in Field, input.data.patched[f] # input.data.call[f]
      PROVE  f \in Optional /\ input.data.patched[f] = Null
  <2> DEFINE key == <<f, "snake">>
  <2>1. PatchedSoFar(input.data) /\ input.data.rest = {}
    BY <1>1 DEF DataInv, Kind, Patched
  <2>2. key \in Understood(input.data.body) /\ input.data.patched[f] = input.data.body[key]
    BY <1>1, <2>1 DEF PatchedSoFar
  <2>3. key \in Given(input.data.body, f) /\ from_value_ok(f, input.data.body[key])
    BY <2>2 DEF Understood, Given
  <2>4. input.data.body[key] = Null
    BY <1>1, <2>3 DEF has_changes
  <2>5. QED  BY <2>2, <2>3, <2>4, JsonAssumption DEF from_value_ok
<1>2. DataInv => NoChangesOnlyClears
  BY <1>1 DEF NoChangesOnlyClears
<1>3. QED  BY <1>2, DataInvariance, PTL
================================================================================
