----------------------------- MODULE MCReports -----------------------------
EXTENDS Reports

CONSTANTS u1, u2

(* A second has 2 milliseconds, a minute 2 seconds, a day 12 minutes, and  *)
(* summer time is 2 of them.  Day 11 is a Monday, and its midnight is 528  *)
(* in UTC; the offset changes around that of this, the last or the next    *)
(* Monday, or of the Tuesday on which the clock ends.                      *)
MCZones ==
  {[at |-> MinutesPerDay * day + m, before |-> o[1], after |-> o[2], named |-> named] :
     day \in {4, 11, 12, 18}, m \in -4 .. 2,
     o \in {<<2, 4>>, <<4, 2>>, <<-2, 0>>, <<0, -2>>}, named \in BOOLEAN}

Entry(start, end, brk, onbrk) ==
  [user |-> u1, start |-> start, end |-> end, brk |-> brk, onbrk |-> onbrk,
   status |-> StatusOpen]

MCEntries ==
  {Entry(start, start + length, brk, 0) : start \in {515, 521, 528, 534},
                                          length \in {3, 9}, brk \in {0, 3}}
    \cup {Entry(523, 0, 1, 0), Entry(523, 0, 0, 530)}

MCRows ==
  [id \in {"r1", "r2", "r3", "r4"} |->
     CASE id = "r1" -> [entry |-> [Entry(507, 515, 1, 0) EXCEPT !.user = u2], project |-> "p"]
       [] id = "r2" -> [entry |-> [Entry(526, 539, 0, 0) EXCEPT !.status = StatusApproved],
                        project |-> NoProject]
       [] id = "r3" -> [entry |-> [Entry(531, 0, 0, 535) EXCEPT !.user = u2],
                        project |-> NoProject]
       [] id = "r4" -> [entry |-> Entry(556, 0, 0, 0), project |-> "p"]]

MCMoments == <<511, 522, 527, 528, 535, 540, 546, 577>>
=============================================================================
