--------------------------- MODULE PaginationProofs ---------------------------
(* What the links of Pagination promise, for every length of a list.       *)
EXTENDS Pagination, TLAPS

LEMMA PagesHoldAll ==
    ASSUME NEW size \in Nat \ {0}, NEW total \in Nat
    PROVE  /\ TotalPages(size, total) \in Nat
           /\ TotalPages(size, total) * size >= total
           /\ TotalPages(size, total) * size < total + size
<1> DEFINE n == total + size - 1
           q == n \div size
           r == n % size
<1>1. n \in Nat
  OBVIOUS
<1>2. q \in Int /\ r \in 0..(size - 1) /\ n = (size * q) + r
  BY <1>1
<1>3. q * size = size * q
  BY <1>2
<1>4. q >= 0
  BY <1>1
<1> QED BY <1>2, <1>3, <1>4 DEF TotalPages

LEMMA Multiples ==
    ASSUME NEW size \in Nat \ {0}, NEW p \in Int, NEW q \in Int, p < q
    PROVE  p * size + size <= q * size
OBVIOUS

LEMMA TwoPages ==
    ASSUME NEW size \in Nat \ {0}, NEW total \in Nat, RequiresPagination(size, total)
    PROVE  TotalPages(size, total) >= 2
<1> DEFINE pages == TotalPages(size, total)
<1>1. pages \in Nat /\ pages * size > size
  BY PagesHoldAll DEF RequiresPagination
<1>2. CASE pages < 2
  <2>1. pages = 0 \/ pages = 1
    BY <1>1, <1>2
  <2>2. pages * size = 0 \/ pages * size = size
    BY <2>1
  <2> QED BY <1>1, <2>2
<1> QED BY <1>1, <1>2

-----------------------------------------------------------------------------
(* Whatever page a user asks for, one that was there before the list       *)
(* became shorter included, the numbered links lead to pages that there    *)
(* are, the first and the last among them; and from a page that there is   *)
(* so do Previous and Next.                                                *)
THEOREM LinksLeadToPages ==
    ASSUME NEW size \in Nat \ {0}, NEW total \in Nat, RequiresPagination(size, total),
           NEW around \in Nat, NEW current \in Nat
    PROVE  LET pages == TotalPages(size, total)
               numbered == NumberedPages(current, around, pages)
           IN
           /\ numbered \subseteq 0..(pages - 1)
           /\ {0, pages - 1} \subseteq numbered
           /\ current < pages => /\ current \in numbered
                                 /\ Beside(current, pages) \subseteq 0..(pages - 1)
<1> DEFINE pages == TotalPages(size, total)
<1>1. pages \in Nat /\ pages >= 2
  BY PagesHoldAll, TwoPages
<1> HIDE DEF pages
<1> QED BY <1>1 DEF NumberedPages, Beside, pages

(* An ellipsis stands where pages are left out, before the current one or  *)
(* behind it, and only there.                                              *)
THEOREM EllipsisWherePagesAreLeftOut ==
    ASSUME NEW size \in Nat \ {0}, NEW total \in Nat, RequiresPagination(size, total),
           NEW around \in Nat, NEW current \in 0..(TotalPages(size, total) - 1)
    PROVE  LET pages == TotalPages(size, total)
               leftOut == 0..(pages - 1) \ NumberedPages(current, around, pages)
           IN
           /\ LeadingEllipsis(current, around) <=> \E p \in leftOut : p < current
           /\ TrailingEllipsis(current, around, pages) <=> \E p \in leftOut : p > current
<1> DEFINE pages == TotalPages(size, total)
           leftOut == 0..(pages - 1) \ NumberedPages(current, around, pages)
<1>1. pages \in Nat /\ pages >= 2 /\ current \in 0..(pages - 1)
  BY PagesHoldAll, TwoPages
<1> HIDE DEF pages
<1>2. ASSUME LeadingEllipsis(current, around) PROVE 1 \in leftOut /\ 1 < current
  BY <1>1, <1>2 DEF LeadingEllipsis, NumberedPages
<1>3. ASSUME NEW p \in leftOut, p < current PROVE LeadingEllipsis(current, around)
  BY <1>1, <1>3 DEF LeadingEllipsis, NumberedPages
<1>4. ASSUME TrailingEllipsis(current, around, pages)
      PROVE  pages - 2 \in leftOut /\ pages - 2 > current
  BY <1>1, <1>4 DEF TrailingEllipsis, NumberedPages
<1>5. ASSUME NEW p \in leftOut, p > current PROVE TrailingEllipsis(current, around, pages)
  BY <1>1, <1>5 DEF TrailingEllipsis, NumberedPages
<1> QED BY <1>2, <1>3, <1>4, <1>5 DEF pages

(* As long as the list does not change every item is shown on one page,    *)
(* and on one only.                                                        *)
THEOREM ItemsShownOnce ==
    ASSUME NEW size \in Nat \ {0}, NEW total \in Nat, RequiresPagination(size, total),
           NEW item \in 1..total
    PROVE  \E p \in 0..(TotalPages(size, total) - 1) :
               \A q \in 0..(TotalPages(size, total) - 1) :
                   item \in ShownItems(q, size, total) <=> q = p
<1> DEFINE pages == TotalPages(size, total)
           p == (item - 1) \div size
<1>1. pages \in Nat /\ pages * size >= total
  BY PagesHoldAll
<1>2. p \in Nat /\ p * size < item /\ item <= p * size + size
  <2>1. /\ p \in Int /\ item - 1 = (size * p) + ((item - 1) % size)
        /\ (item - 1) % size \in 0..(size - 1)
    OBVIOUS
  <2>2. p * size = size * p
    BY <2>1
  <2> QED BY <2>1, <2>2
<1> HIDE DEF pages, p
<1>3. p < pages
  <2>1. ~(pages < p) /\ pages # p
    <3>1. ASSUME pages < p PROVE FALSE
      BY <1>1, <1>2, <3>1, Multiples
    <3>2. ASSUME pages = p PROVE FALSE
      BY <1>1, <1>2, <3>2
    <3> QED BY <3>1, <3>2
  <2> QED BY <1>1, <1>2, <2>1
<1>4. ASSUME NEW q \in 0..(pages - 1)
      PROVE  item \in ShownItems(q, size, total) <=> q * size < item /\ item <= q * size + size
  <2>1. q * size \in Int
    BY <1>1
  <2> QED BY <2>1 DEF ShownItems, StartItem, EndItem
<1>5. ASSUME NEW q \in 0..(pages - 1) PROVE item \in ShownItems(q, size, total) <=> q = p
  <2>1. CASE q < p
    BY <1>1, <1>2, <1>4, <2>1, Multiples
  <2>2. CASE p < q
    BY <1>1, <1>2, <1>4, <2>2, Multiples
  <2>3. CASE q = p
    BY <1>2, <1>4, <2>3
  <2> QED BY <1>1, <1>2, <2>1, <2>2, <2>3
<1>6. p \in 0..(pages - 1)
  BY <1>1, <1>2, <1>3
<1> QED BY <1>5, <1>6 DEF pages
=============================================================================
