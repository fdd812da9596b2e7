-------------------------- MODULE MCTimeEntryStore --------------------------
(* Small instances of TimeEntryStore for TLC. *)
EXTENDS TimeEntryStore, TLC

CONSTANTS u1, u2, e1, e2, e3, r1, r2, r3

(* Requests are interchangeable, and so are entry ids: nothing compares    *)
(* them but for equality.                                                  *)
Interchangeable ==
  {p @@ q : p \in Permutations(Req), q \in Permutations(Id)}

(* The last answers are never read by a step, so states that differ only   *)
(* in them have the same futures.                                          *)
WithoutAnswers == <<entries, locks, clock, pc, call, row, todo>>

Nothing == {}

(* A closed entry of one instant. *)
OneManual == { [start |-> 1, end |-> 1, brk |-> 0, onbrk |-> 0] }

(* What the bodies of edits name: the breaks; the end or the breaks; both  *)
(* times, which moves the entry.                                           *)
BrkPatch == { [brk |-> 1] }
TwoPatches == { [end |-> 2], [brk |-> 1] }
MovePatch == { [start |-> 2, end |-> 2] }

(* A week that holds every entry, and one that an entry can be moved out   *)
(* of.                                                                     *)
OneRange == { <<1, 4>> }
FirstDay == { <<1, 2>> }
=============================================================================
