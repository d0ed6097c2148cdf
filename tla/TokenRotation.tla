----------------------------- MODULE TokenRotation ----------------------------
(***************************************************************************)
(* What the puzzle manager promises, without queues and timers.  A puzzle  *)
(* is taken on by the players present when it starts.  As long as one of   *)
(* them is there, exactly one of them holds the control token; it changes  *)
(* hands within that group only, and the puzzle is over when the last of   *)
(* the group has left.                                                     *)
(***************************************************************************)
CONSTANTS Players, Puzzles, Nobody

VARIABLES
    present,   \* players in the room
    group,     \* for each puzzle, those who take part; empty when it is over
    holder     \* for each puzzle, who holds the token

rotationVars == <<present, group, holder>>

RotationInit ==
    /\ present = {}
    /\ group = [z \in Puzzles |-> {}]
    /\ holder = [z \in Puzzles |-> Nobody]

Arrive(p) ==
    /\ present' = present \cup {p}
    /\ UNCHANGED <<group, holder>>

Begin(z) ==
    /\ present # {}
    /\ group' = [group EXCEPT ![z] = present]
    /\ \E p \in present : holder' = [holder EXCEPT ![z] = p]
    /\ UNCHANGED present

\* The token goes to another participant if there is another one.
HandOver(z) ==
    /\ \E p \in group[z] \ {holder[z]} : holder' = [holder EXCEPT ![z] = p]
    /\ UNCHANGED <<present, group>>

\* Only the tokens the leaver held change hands.
Depart(p) ==
    /\ p \in present
    /\ present' = present \ {p}
    /\ group' = [z \in Puzzles |-> group[z] \ {p}]
    /\ holder' \in [Puzzles -> Players \cup {Nobody}]
    /\ \A z \in Puzzles :
          CASE holder[z] # p -> holder'[z] = holder[z]
            [] OTHER -> IF group'[z] = {} THEN holder'[z] = Nobody
                                          ELSE holder'[z] \in group'[z]

RotationNext ==
    \/ \E p \in Players : Arrive(p) \/ Depart(p)
    \/ \E z \in Puzzles : Begin(z) \/ HandOver(z)

Rotation == RotationInit /\ [][RotationNext]_rotationVars

===============================================================================
