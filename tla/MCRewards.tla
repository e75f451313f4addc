---- MODULE MCRewards ----
(* Instances of Rewards for TLC: two problems, one course without a list    *)
(* of its own, assignments of the second problem, an award worth two        *)
(* changes of nickname.                                                     *)
EXTENDS Rewards

CONSTANTS p, q, algo

MCListed == [c \in {algo} |-> {}]

MCAssignment == {{q}}

Judged(problem, mode, accepted) ==
    [by |-> "judge", problem |-> problem, mode |-> mode, accepted |-> accepted]

MCBody ==
    {Judged(p, "submit", TRUE), Judged(q, "submit", TRUE), Judged(p, "run", TRUE),
     Judged(p, "submit", FALSE),
     [by |-> "local", problem |-> p, mode |-> "submit", accepted |-> TRUE],
     [by |-> "checkpoint", problem |-> p], [by |-> "nickname"]}
====
