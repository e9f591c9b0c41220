---------------------------- MODULE MCSectionCache ----------------------------
(* A small instance of SectionCache: lines of 64 bytes, two to a page, one *)
(* section of one or two lines, the longer one on two pages.               *)
EXTENDS SectionCache

OneTask == {1}
TwoPages == {1, 2}
OneOrTwoLines == {[dsva |-> 192, deva |-> 320], [dsva |-> 256, deva |-> 320]}
SectionAndOther == {200, 330}
=============================================================================
