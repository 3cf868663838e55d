------------------------------ MODULE Pagination ------------------------------
(***************************************************************************)
(* getPaginationPages: the links from one page of a list to the others,    *)
(* and which items the page says it shows.  Pages are numbered from 0,     *)
(* items from 1.  The links to numbers are in ascending order, so they are *)
(* a set here.                                                             *)
(***************************************************************************)
EXTENDS Integers

(* Only with more than one page of data; otherwise there are no links and  *)
(* all items are said to be shown.                                         *)
RequiresPagination(size, total) == total > size

(* Math.ceil(totalElements / pageSize). *)
TotalPages(size, total) == (total + size - 1) \div size

(* The first, those around the current one, and the last. *)
NumberedPages(current, around, pages) ==
    {0, pages - 1} \cup { i \in 1..(pages - 2) : current - around <= i /\ i <= current + around }

LeadingEllipsis(current, around) == current - around > 1
TrailingEllipsis(current, around, pages) == current + around < pages - 2

(* The links "Previous" and "Next", if any. *)
Beside(current, pages) ==
    (IF current > 0 THEN {current - 1} ELSE {})
    \cup (IF current < pages - 1 THEN {current + 1} ELSE {})

StartItem(current, size) == current * size + 1
EndItem(current, size, total) ==
    LET end == StartItem(current, size) + size - 1 IN
    IF end <= total THEN end ELSE total

ShownItems(current, size, total) == StartItem(current, size)..EndItem(current, size, total)
=============================================================================
