---- MODULE MCTutor ----
(* An instance of Tutor for TLC: call 1 was answered before the page was loaded, the     *)
(* others are of any kind; one poll is in flight at a time (TutorProofs has any number).   *)
EXTENDS Tutor
====
