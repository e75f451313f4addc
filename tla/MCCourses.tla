---- MODULE MCCourses ----
(* Instances of Courses for TLC: the slots of requests are interchangeable, and so *)
(* are the problems.                                                               *)
EXTENDS Courses, TLC

Symmetry == Permutations(Problems) \cup Permutations(Requests)
====
