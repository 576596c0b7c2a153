---------------------------- MODULE MCAlgorithms ----------------------------
(* An instance of Algorithms for TLC. *)
EXTENDS Algorithms

\* From the first day of a month.
Walk(from, last, year, month, weekday, ydayOfFirst) ==
    [from |-> from, last |-> last,
     date |-> [y |-> year, m |-> month, d |-> 1, wday |-> weekday, yday |-> ydayOfFirst]]

\* 1970 to 2370, a cycle of the calendar, in stretches of fifty years; the last
\* month that is shown, and the one after it; the month in which years come to
\* six digits.
SomeWalks ==
    {Walk(0, 18262, 1970, 1, 4, 0),
     Walk(18262, 36525, 2020, 1, 3, 0),
     Walk(36525, 54786, 2070, 1, 3, 0),
     Walk(54786, 73049, 2120, 1, 1, 0),
     Walk(73049, 91310, 2170, 1, 1, 0),
     Walk(91310, 109573, 2220, 1, 6, 0),
     Walk(109573, 127834, 2270, 1, 6, 0),
     Walk(127834, 146097, 2320, 1, 4, 0),
     Walk(3626827, 3626889, 11899, 12, 5, 334),
     Walk(35804691, 35804753, 99999, 12, 3, 334)}

SomeNodes ==
    {[index |-> 44, hardened |-> FALSE], [index |-> 919, hardened |-> TRUE],
     [index |-> 5, hardened |-> FALSE], [index |-> 5, hardened |-> TRUE]}
=============================================================================
