--------------------------------- MODULE Paging ---------------------------------
(* The page arithmetic of the list endpoints: which rows a page asks for, in the  *)
(* width of the request's numbers, and what the answer says of the pages around   *)
(* it.                                                                            *)
EXTENDS Naturals

CONSTANTS
    Modulus,    \* how many values page, per_page and total_pages have: 2 ^ 32
    Omit        \* a parameter the request leaves out

ASSUME WidthAssumption == Modulus \in Nat \ {0} /\ Omit \notin Nat

saturating_sub(a, b) == IF a >= b THEN a - b ELSE 0

(* Mutant: pages are counted from zero.                                          *)
offset_ZeroBased(page, per_page) == (page * per_page) % Modulus

(* The product is u32 and widened afterwards: a far page's offset wraps.          *)
offset(page, per_page) == (saturating_sub(page, 1) * per_page) % Modulus

limit(per_page) == per_page

(* A parameter left out of the query string. *)
page_or_default(page) == IF page = Omit THEN 1 ELSE page

per_page_or_default(per_page) == IF per_page = Omit THEN 20 ELSE per_page

(* The rounded quotient is a float and saturates when it is narrowed. *)
total_pages(total, per_page) ==
    LET pages == (total + per_page - 1) \div per_page
    IN  IF per_page = 0 THEN 0
        ELSE IF pages < Modulus THEN pages ELSE Modulus - 1

has_next(total, page, per_page) == page < total_pages(total, per_page)

has_prev(page) == page > 1

(* The positions in the ordered list a page shows. *)
Shown(total, page, per_page) ==
    {i \in 0 .. saturating_sub(total, 1) :
        /\ i < total
        /\ offset(page, per_page) <= i
        /\ i < offset(page, per_page) + limit(per_page)}

================================================================================
