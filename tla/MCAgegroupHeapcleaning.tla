----------------------- MODULE MCAgegroupHeapcleaning -----------------------
(* Small instances of AgegroupHeapcleaning.                                *)
EXTENDS AgegroupHeapcleaning, TLC

Symmetry == Permutations(Chunk) \cup Permutations(Register)

\* Every pair of kinds meets; three chunks of one kind never do.
MaxOfKind == [k \in {"ro", "rw", "weak", "code"} |-> IF k = "rw" THEN 2 ELSE 1]

TwoOfEachKind == [k \in {"ro", "rw", "weak", "code"} |-> 2]

CONSTANTS
    Refcell1, Refcell2, Record, OldCode, NewCode, \* chunks of the program below
    ra, rb, rc, rd                                \* its registers

\* A program that makes two refcells; when they are in agegroup 2, a record,
\* stored in the second one, and a code chunk; and when they are in the oldest
\* agegroup a new code chunk, stored in the first one until the older code
\* chunk takes its place.  Registers keep all but the record.
BornAt(c) == CASE c \in {Refcell1, Refcell2} -> 0
               [] c \in {Record, OldCode}    -> 2
               [] c = NewCode                -> ACTIVE_AGEGROUPS

ProgramKeepsItsShape ==
    /\ kind[Refcell1] \in {"free", "rw"} /\ kind[Refcell2] \in {"free", "rw"}
    /\ kind[Record] \in {"free", "ro"}
    /\ kind[OldCode] \in {"free", "code"} /\ kind[NewCode] \in {"free", "code"}
    /\ field[ra] \in {NIL, Refcell1} /\ field[rb] \in {NIL, Refcell2}
    /\ field[rc] \in {NIL, OldCode}  /\ field[rd] \in {NIL, Record, NewCode}
    /\ field[Refcell1] \in {NIL, NewCode, OldCode} /\ field[Refcell2] \in {NIL, Record}
    /\ field[Record] = NIL
    /\ \A s \in Slot : field[s] = Record => s \in {rd, Refcell2}

\* Does slot s hold what is to be made by now?
IsInPlace(s, c) == BornAt(c) <= age[Refcell1] => field[s] = c

ProgramStep ==
    /\ pc = "run" /\ pc' = "run" => \A s \in Slot : field[s] # NIL => field'[s] # NIL
    /\ field'[Refcell1] = OldCode => field[Refcell1] # NIL
    /\ \A c \in Chunk : kind[c] = "free" /\ kind'[c] # "free" => age[Refcell1] = BornAt(c)
    /\ pc = "run" /\ pc' = "roots0" =>
           /\ field[ra] = Refcell1 /\ field[rb] = Refcell2
           /\ IsInPlace(Refcell2, Record) /\ IsInPlace(rc, OldCode)
           /\ IsInPlace(rd, NewCode)

\* All agegroups are cleaned together until the new code chunk is stored.
AllAreCleaned == clean \in {0, ACTIVE_AGEGROUPS} \/ field[Refcell1] # NIL

ProgramSpec ==
    Init /\ [][Next /\ ProgramStep /\ ProgramKeepsItsShape' /\ AllAreCleaned']_vars
=============================================================================
