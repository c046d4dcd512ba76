------------------------- MODULE InterruptGrouping -------------------------
(***************************************************************************)
(* What the driver promises about interrupt groups: one request at a time  *)
(* moves a set of interrupts to a group.  Interrupts outside the request   *)
(* never move, and when the request finishes every one of its interrupts   *)
(* is in the group asked for.  While it runs an interrupt may pass through *)
(* other groups, but not through any: on the way to Non-secure group 1 it  *)
(* is either still where it was or already there, and on the way to a      *)
(* secure group it is never moved to the Non-secure one.                   *)
(***************************************************************************)
CONSTANT Line     \* the interrupts, a private one counted once per core

VARIABLES
  group,          \* the group each interrupt is in
  request         \* the request being carried out

Secure == {"Group0", "Group1S"}
Group  == Secure \cup {"Group1NS"}

NoRequest == [lines |-> {}, to |-> "none"]

TypeOK ==
  /\ group \in [Line -> Group]
  /\ request \in {NoRequest} \cup [lines : SUBSET Line, to : Group]

Init ==
  /\ group \in [Line -> Group]
  /\ request = NoRequest

(* The groups an interrupt may be moved to on its way to group g.          *)
WayTo(g) == IF g = "Group1NS" THEN {"Group1NS"} ELSE Secure

Request(ls, g) ==
  /\ request = NoRequest
  /\ request' = [lines |-> ls, to |-> g]
  /\ UNCHANGED group

Progress ==
  /\ request # NoRequest
  /\ group' \in [Line -> Group]
  /\ \A l \in Line :
       \/ group'[l] = group[l]
       \/ l \in request.lines /\ group'[l] \in WayTo(request.to)
  /\ UNCHANGED request

Finish ==
  /\ request # NoRequest
  /\ group' = [l \in Line |-> IF l \in request.lines THEN request.to ELSE group[l]]
  /\ request' = NoRequest

Next ==
  \/ \E ls \in SUBSET Line, g \in Group : Request(ls, g)
  \/ Progress
  \/ Finish

Spec == Init /\ [][Next]_<<group, request>>
=============================================================================
