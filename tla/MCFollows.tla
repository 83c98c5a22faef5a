------------------------------- MODULE MCFollows -------------------------------
(***************************************************************************)
(* Follows at a meet of two heats, the phone's swimmer in the second; in a *)
(* re-export the swimmer is in both and the schedule has no times, in a    *)
(* shorter one the first heat is gone.                                     *)
(***************************************************************************)
EXTENDS Follows

Heat(id, mine, at, swim) == [id |-> id, mine |-> mine, at |-> at, swim |-> swim]

Exported == << <<Heat(1, FALSE, 1, 1), Heat(2, TRUE, 2, 1)>>,
               <<Heat(1, TRUE, 0, 1), Heat(2, TRUE, 0, 1)>> >>
Shorter == << <<Heat(1, FALSE, 1, 1), Heat(2, TRUE, 2, 1)>>, <<Heat(2, TRUE, 2, 1)>> >>

Asked == { [by |-> "heats", n |-> 1, selected |-> TRUE],
           [by |-> "minutes", n |-> 1, selected |-> FALSE] }
AskedMinutes == { [by |-> "minutes", n |-> 1, selected |-> TRUE] }
================================================================================
