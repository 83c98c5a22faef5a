---------------------------- MODULE RelayedBoard ----------------------------
(***************************************************************************)
(* What the link to the cloud promises of a meet: each part of its board   *)
(* at the cloud is one the Pi published, never of a test session, and only *)
(* ever replaced by a later one, until the meet is retired and starts from *)
(* nothing; its start list is its own, and only ever replaced by a later   *)
(* export of it.  RelayLink implements this.                               *)
(***************************************************************************)
EXTENDS Naturals

CONSTANTS Meets, Keys, MaxFrames

VARIABLES
    board,     \* the frame each part of the Pi's board was last changed by
    private,   \* the frames of test sessions
    shown,     \* each meet's board at the cloud, 0 for a part not known
    lists,     \* the export each meet's file was last read from
    schedules  \* each meet's start list at the cloud: whose, and which export

vars == <<board, private, shown, lists, schedules>>
startLists == <<lists, schedules>>

Nothing == [k \in Keys |-> 0]

Init ==
    /\ board = Nothing /\ private = {}
    /\ shown = [m \in Meets |-> Nothing]
    /\ lists = [m \in Meets |-> 1]
    /\ \A m \in Meets : schedules[m].export = 0

\* The Pi publishes a newer frame of some parts, which may be a test's.
Publish ==
    \E v \in 1..MaxFrames, ks \in SUBSET Keys :
        /\ \A k \in Keys : v > board[k]
        /\ board' = [k \in Keys |-> IF k \in ks THEN v ELSE board[k]]
        /\ private' \in {private, private \cup {v}}
        /\ UNCHANGED <<shown, startLists>>

\* The cloud learns of later frames of some parts.
Show(m) ==
    /\ \A n \in Meets \ {m} : shown'[n] = shown[n]
    /\ shown' \in [Meets -> [Keys -> 0..MaxFrames]]
    /\ \A k \in Keys :
          shown'[m][k] # shown[m][k] =>
              /\ shown[m][k] < shown'[m][k] /\ shown'[m][k] <= board[k]
              /\ shown'[m][k] \notin private
    /\ UNCHANGED <<board, private, startLists>>

Retire(m) ==
    /\ shown' = [shown EXCEPT ![m] = Nothing]
    /\ UNCHANGED <<board, private, startLists>>

\* The Pi reads a later export of a meet's file.
Export(m) ==
    /\ lists' = [lists EXCEPT ![m] = @ + 1]
    /\ UNCHANGED <<board, private, shown, schedules>>

\* The cloud learns of a later start list of a meet.
List(m) ==
    /\ \E export \in schedules[m].export + 1 .. lists[m] :
          schedules' = [schedules EXCEPT ![m] = [of |-> m, export |-> export]]
    /\ UNCHANGED <<board, private, shown, lists>>

Next ==
    \/ Publish
    \/ \E m \in Meets : Show(m) \/ Retire(m) \/ Export(m) \/ List(m)

Spec == Init /\ [][Next]_vars
=============================================================================
