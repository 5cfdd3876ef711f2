-------------------------------- MODULE CallData --------------------------------
(* The data of the call log as it passes through the code: a CDR the provider      *)
(* delivers and may re-version, a page of the list somebody asks for, and a        *)
(* partial update on its way through the keys of its body.                        *)
EXTENDS CallRecord, Paging, CallEntity

CONSTANTS
    Cdr,        \* the CDRs delivered
    Later,      \* the ends a provider may report afterwards
    Listing,    \* the pages asked for, with the length of the list
    Edit        \* calls with the body of a PATCH sent to them

(* page and per_page are of the request's width or left out, a total is wider.    *)
Numbers == 0 .. Modulus - 1 \cup {Omit}

ASSUME CdrAssumption == Cdr \subseteq InboundCdr /\ Later \subseteq Int

ASSUME ListingAssumption == Listing \subseteq [total : Nat, page : Numbers, per_page : Numbers]

ASSUME EditAssumption == \A edit \in Edit : edit.call \in Call /\ IsBody(edit.body)

VARIABLE input

Kind(kind, data) == [kind : {kind}, data : data]

(* A patch before the first key: the call as it was, the body, the call so far,    *)
(* the keys the map has yet to yield.                                            *)
Patching == {[call |-> e.call, body |-> e.body, patched |-> e.call, rest |-> DOMAIN e.body] : e \in Edit}

Init == input \in Kind("cdr", Cdr) \cup Kind("page", Listing) \cup Kind("edit", Patching)

(* The provider re-versions the CDR: its end moves. *)
Reversion ==
    /\ input.kind = "cdr"
    /\ input.data.ended_at = None
    /\ \E e \in Later : input' = [input EXCEPT !.data.ended_at = e]

(* One turn of apply_patch's loop: any key the map has not yielded yet. *)
apply_patch ==
    /\ input.kind = "edit"
    /\ \E key \in input.data.rest :
         input' = [input EXCEPT !.data.patched = patch_field(@, key, input.data.body[key]),
                                !.data.rest = @ \ {key}]

Next == Reversion \/ apply_patch

Spec == Init /\ [][Next]_input

--------------------------------------------------------------------------------
(* Talk time is the largest whole number of seconds that fits both the column   *)
(* and the time from answer to end; zero for a call never answered, not ended   *)
(* or ending before its answer (talk_time).                                     *)
TalkTimeIsWholeSeconds ==
    input.kind = "cdr" =>
        LET a == input.data.answered_at
            e == input.data.ended_at
            d == Duration(input.data)
        IN  /\ d \in 0 .. I32Max
            /\ IF a # None /\ e # None /\ e >= a
               THEN /\ d * TicksPerSecond <= e - a
                    /\ d < I32Max => (d + 1) * TicksPerSecond > e - a
               ELSE d = 0

(* The page a row of the list is on. *)
PageOf(i, per_page) == i \div per_page + 1

(* A page shows the rows whose page it is, and has_prev tells whether it is the     *)
(* first; that holds beyond the end of the list as long as the offset fits the     *)
(* request's width.  has_next tells whether a row is on a later page, and a page   *)
(* of no rows ends the walk (offset, CallListResponseDto::new).                  *)
PagesPartitionTheList ==
    input.kind = "page" =>
        LET total    == input.data.total
            page     == page_or_default(input.data.page)
            per_page == per_page_or_default(input.data.per_page)
            rows     == {i \in 0 .. total : i < total}
            shown    == Shown(total, page, per_page)
        IN  IF per_page = 0
            THEN shown = {} /\ ~has_next(total, page, per_page)
            ELSE /\ page > 0 /\ (page - 1) * per_page < Modulus =>
                      /\ shown = {i \in rows : PageOf(i, per_page) = page}
                      /\ shown # {} => (has_prev(page) <=> 0 \notin shown)
                 /\ page = 0 => shown = Shown(total, 1, per_page)
                 /\ total < Modulus =>
                      (has_next(total, page, per_page) <=> \E i \in rows : PageOf(i, per_page) > page)

Patched == input.kind = "edit" /\ input.data.rest = {}

Understood(body) == {key \in DOMAIN body : key[2] = "snake" /\ from_value_ok(key[1], body[key])}

(* What a client sees of the call, edited as the body says. *)
Edited(call, body) ==
    [key \in DOMAIN CallResponseDto(call) |->
        IF <<key[1], "snake">> \in Understood(body) THEN body[<<key[1], "snake">>] ELSE call[key[1]]]

(* A partial update has the effect of reading the call, editing what the answer    *)
(* shows and putting it back, in whatever order the map yields its keys; what it   *)
(* does not understand it leaves (apply_patch against apply_update).             *)
PatchIsReadModifyPut ==
    Patched =>
        LET edited == Edited(input.data.call, input.data.body)
        IN  IsUpdateCallDto(edited) /\ input.data.patched = apply_update(input.data.call, UpdateCallDto(edited))

(* A patch that says it changes nothing can still clear optional fields, and does  *)
(* nothing else (has_changes against apply_patch).                               *)
NoChangesOnlyClears ==
    Patched /\ IsPatchCallDto(input.data.body) /\ ~has_changes(input.data.body) =>
        \A f \in Field : input.data.patched[f] # input.data.call[f] =>
            f \in Optional /\ input.data.patched[f] = Null

--------------------------------------------------------------------------------
(* The keys seen so far have had their effect on the call and the others none, so  *)
(* their order does not matter (apply_patch).                                    *)
PatchedSoFar(edit) ==
    /\ edit.call \in Call
    /\ IsBody(edit.body)
    /\ edit.rest \subseteq DOMAIN edit.body
    /\ edit = [call |-> edit.call, body |-> edit.body, rest |-> edit.rest,
               patched |-> [f \in Field |->
                 IF <<f, "snake">> \in Understood(edit.body) \ edit.rest
                 THEN edit.body[<<f, "snake">>] ELSE edit.call[f]]]

(* The inductive invariant of the data: CDRs stay deliverable, pages are of their   *)
(* width, and a patch has done what the keys seen so far ask for.                 *)
DataInv ==
    \/ input \in Kind("cdr", InboundCdr)
    \/ input \in Kind("page", Listing)
    \/ input = [kind |-> "edit", data |-> input.data] /\ PatchedSoFar(input.data)
================================================================================
