--------------------------- MODULE ArenaLifetime ---------------------------
(***************************************************************************)
(* What jupb.Arena promises its clients about native memory, with no       *)
(* reference queue, no reaper thread and no reference counts:              *)
(*                                                                         *)
(*   - the memory of an arena is there from its construction until every   *)
(*     arena it was fused with, directly or not, is garbage;               *)
(*   - once that is so the memory of all of them is given back, together.  *)
(*                                                                         *)
(* Arena.tla implements this specification.                                *)
(***************************************************************************)
CONSTANT Arenas

VARIABLES
  state,      \* state[a] : "unborn", "live" or "dead" (no longer reachable)
  mates,      \* mates[a] : the arenas whose memory lives and dies with a's
  reclaimed   \* the arenas whose memory was given back

vars == <<state, mates, reclaimed>>

Init ==
  /\ state = [a \in Arenas |-> "unborn"]
  /\ mates = [a \in Arenas |-> {a}]
  /\ reclaimed = {}

\* new Arena()
Create(a) ==
  /\ state[a] = "unborn"
  /\ state' = [state EXCEPT ![a] = "live"]
  /\ UNCHANGED <<mates, reclaimed>>

\* Arena.fuse(a, b): only the arenas of reachable objects can be fused.
Fuse(a, b) ==
  /\ state[a] = "live" /\ state[b] = "live"
  /\ LET joined == mates[a] \cup mates[b] IN
       mates' = [x \in Arenas |-> IF x \in joined THEN joined ELSE mates[x]]
  /\ UNCHANGED <<state, reclaimed>>

\* The program can no longer reach a.
Die(a) ==
  /\ state[a] = "live"
  /\ state' = [state EXCEPT ![a] = "dead"]
  /\ UNCHANGED <<mates, reclaimed>>

\* The memory of a whole group is given back, once, when all of it is dead.
Reclaim(a) ==
  /\ a \notin reclaimed
  /\ \A x \in mates[a] : state[x] = "dead"
  /\ reclaimed' = reclaimed \cup mates[a]
  /\ UNCHANGED <<state, mates>>

Next ==
  \/ \E a \in Arenas : Create(a) \/ Die(a) \/ Reclaim(a)
  \/ \E a, b \in Arenas : Fuse(a, b)

SafetySpec == Init /\ [][Next]_vars

Spec == SafetySpec /\ \A a \in Arenas : WF_vars(Reclaim(a))
=============================================================================
