------------------------------ MODULE InjaNesting ------------------------------
(* What the author of a template means by its tags: they nest, a closing tag   *)
(* closes the innermost open one, and each piece of text belongs to the        *)
(* branches that are open around it.  Tags are numbered as they come, so that  *)
(* of two open branches the one with the higher number is inside the other.    *)
EXTENDS Naturals

VARIABLES
  open,     \* the open branches: whose, which, and if an else-if made it
  leaves,   \* for every piece of text or expression so far, its branches
  count,    \* tags and leaves so far, to number them
  parsed    \* the template has ended

vars == <<open, leaves, count, parsed>>

Branch(id, branch, chained) == [id |-> id, branch |-> branch, chained |-> chained]
Innermost(e) == e \in open /\ \A d \in open : d.id <= e.id

\* The open branches when innermost e has been left for its else.
InElse(e) == (open \ {e}) \cup {[e EXCEPT !.branch = "false_statement"]}
IfBranches == {"true_statement", "false_statement"}

Init == open = {} /\ leaves = {} /\ count = 0 /\ parsed = FALSE

Leaf ==
  /\ leaves' = leaves \cup {[id |-> count + 1, within |-> open]}
  /\ count' = count + 1
  /\ UNCHANGED <<open, parsed>>

OpenTag(branch) ==
  /\ open' = open \cup {Branch(count + 1, branch, FALSE)}
  /\ count' = count + 1
  /\ UNCHANGED <<leaves, parsed>>

Else(e) ==
  /\ Innermost(e) /\ e.branch \in IfBranches
  /\ open' = InElse(e)
  /\ UNCHANGED <<leaves, count, parsed>>

(* An else-if is an if in the else branch that needs no endif of its own. *)
ElseIf(e) ==
  /\ Innermost(e) /\ e.branch \in IfBranches
  /\ open' = InElse(e) \cup {Branch(count + 1, "true_statement", TRUE)}
  /\ count' = count + 1
  /\ UNCHANGED <<leaves, parsed>>

(* An endif closes the innermost if that has its own, and its else-ifs.        *)
EndIf(e) ==
  /\ e.branch \in IfBranches /\ ~e.chained
  /\ \A d \in open : d.id > e.id => d.branch \in IfBranches /\ d.chained
  /\ open' = {d \in open : d.id < e.id}
  /\ UNCHANGED <<leaves, count, parsed>>

EndTag(e, branch) ==
  /\ Innermost(e) /\ e.branch = branch
  /\ open' = open \ {e}
  /\ UNCHANGED <<leaves, count, parsed>>

End == parsed' = TRUE /\ UNCHANGED <<open, leaves, count>>

Next ==
  /\ ~parsed
  /\ \/ Leaf \/ End
     \/ \E b \in {"true_statement", "body", "block"} : OpenTag(b)
     \/ \E e \in open : Else(e) \/ ElseIf(e) \/ EndIf(e) \/ EndTag(e, "body") \/ EndTag(e, "block")

Spec == Init /\ [][Next]_vars
=============================================================================
