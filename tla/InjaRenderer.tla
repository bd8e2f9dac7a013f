----------------------------- MODULE InjaRenderer -----------------------------
(* What a template's variables and loops read while inja renders it (inja.hpp, *)
(* class Renderer).  A renderer keeps the variables of loops and of set        *)
(* statements in additional_data, and there, under "loop", the data of the     *)
(* innermost loop with those of the outer loops under "parent".  An include    *)
(* renders with a copy of both, the generator's callback "subtemplate" with    *)
(* neither.                                                                    *)
EXTENDS Integers, Sequences

CONSTANTS
  Names,           \* names of variables, none of them "loop"
  DataNames,       \* the names that the template's data define
  Parameter,       \* the name under which subtemplate passes its argument
  Sizes,           \* bound: numbers of elements that arrays have
  MaxLoops,        \* bound: nested loops of one template
  MaxRenderers     \* bound: nested templates

ASSUME RendererAssumption ==
  /\ DataNames \subseteq Names /\ Parameter \in Names
  /\ Sizes \subseteq Nat /\ MaxLoops \in Nat /\ MaxRenderers \in Nat \ {0}

VARIABLE renderers   \* the renderers under way, innermost last

vars == renderers

-----------------------------------------------------------------------------
(* Values: an element of the array of the loop at some depth, what clear()     *)
(* leaves of one, or what a set statement gave.                                *)
Item(depth, index) == [kind |-> "item", depth |-> depth, index |-> index]
Plain(kind) == [kind |-> kind, depth |-> 0, index |-> 0]
Absent == Plain("absent")
Cleared == Plain("cleared")
Assigned == Plain("set")
Values == {Absent, Cleared, Assigned} \cup [kind : {"item"}, depth : 1..MaxLoops, index : Nat]

(* The data of a loop; of those of an enclosing one it has a copy.  A loop     *)
(* over an empty array sets no index.                                          *)
LoopData(index, size) ==
  [index |-> index, is_first |-> index = 0, is_last |-> index + 1 >= size]
EmptyLoopData == [index |-> -1, is_first |-> TRUE, is_last |-> TRUE]

Top == renderers[Len(renderers)]
Depth == Len(Top.running)

(* A loop under way.  hidden: in this iteration something else was stored      *)
(* under its variable's name (for the properties only).                        *)
Running(name, size) == [value |-> name, size |-> size, index |-> 0, hidden |-> FALSE]

Hide(running, name) ==
  [k \in DOMAIN running |-> [running[k] EXCEPT !.hidden = @ \/ running[k].value = name]]

Store(additional_data, name, v) == [additional_data EXCEPT ![name] = v]

Step(top) == renderers' = [renderers EXCEPT ![Len(renderers)] = top]

-----------------------------------------------------------------------------
\* FALSE: the data of the enclosing loop are overwritten, not kept as parent.
ForArray_NoParent(name, size) ==
  /\ Depth < MaxLoops
  /\ Step([Top EXCEPT
       !.additional_data = Store(@, name, IF size = 0 THEN Cleared ELSE Item(Depth + 1, 0)),
       !.loop = IF size = 0 /\ @ # <<>> THEN @
                ELSE IF @ # <<>> THEN Append(SubSeq(@, 1, Len(@) - 1), LoopData(0, size))
                ELSE <<IF size = 0 THEN EmptyLoopData ELSE LoopData(0, size)>>,
       !.running = IF size = 0 THEN Hide(@, name) ELSE Append(Hide(@, name), Running(name, size))])

(* The loop over an array begins: what "loop" held becomes its parent.  Over   *)
(* an empty array it is over at once, and clears a variable it never set.      *)
ForArray(name, size) ==
  /\ Depth < MaxLoops
  /\ Step([Top EXCEPT
       !.additional_data = Store(@, name, IF size = 0 THEN Cleared ELSE Item(Depth + 1, 0)),
       !.loop = IF size > 0 THEN Append(@, LoopData(0, size))
                ELSE IF @ = <<>> THEN <<EmptyLoopData>> ELSE @,
       !.running = IF size = 0 THEN Hide(@, name) ELSE Append(Hide(@, name), Running(name, size))])

(* The next element: is_first ends with the second, is_last begins with the    *)
(* last one.                                                                   *)
NextElement ==
  /\ Depth > 0
  /\ LET r == Top.running[Depth]
         d == Top.loop[Len(Top.loop)]
     IN  /\ r.index + 1 < r.size
         /\ Step([Top EXCEPT
              !.additional_data = Store(@, r.value, Item(Depth, r.index + 1)),
              !.loop[Len(Top.loop)] =
                 [index |-> r.index + 1,
                  is_first |-> d.is_first /\ r.index + 1 # 1,
                  is_last |-> d.is_last \/ r.index + 2 = r.size],
              !.running = [Hide(@, r.value) EXCEPT ![Depth] = [r EXCEPT !.index = @ + 1, !.hidden = FALSE]]])

(* The end of a loop: its variable is cleared, not removed, and "loop" is the  *)
(* parent's again; with no parent it keeps the data of the loop that has ended.*)
EndFor ==
  /\ Depth > 0
  /\ LET r == Top.running[Depth]
     IN  /\ r.index + 1 = r.size
         /\ Step([Top EXCEPT
              !.additional_data = Store(@, r.value, Cleared),
              !.loop = IF Len(@) > 1 THEN SubSeq(@, 1, Len(@) - 1) ELSE @,
              !.running = Hide(SubSeq(@, 1, Depth - 1), r.value)])

SetStatement(name) ==
  Step([Top EXCEPT !.additional_data = Store(@, name, Assigned), !.running = Hide(@, name)])

Renderer(included, data_input, additional_data, loop) ==
  [included |-> included, data_input |-> data_input,
   additional_data |-> additional_data, loop |-> loop, running |-> <<>>]

\* FALSE: the included template starts without the variables of its includer.
Include_Fresh ==
  /\ Len(renderers) < MaxRenderers
  /\ renderers' = Append(renderers, Renderer(TRUE, Top.data_input, [n \in Names |-> Absent], <<>>))

(* An include: a renderer of its own with a copy of additional_data. *)
Include ==
  /\ Len(renderers) < MaxRenderers
  /\ renderers' = Append(renderers, Renderer(TRUE, Top.data_input, Top.additional_data, Top.loop))

(* The generator's callback: a new rendering, of one argument. *)
Subtemplate ==
  /\ Len(renderers) < MaxRenderers
  /\ renderers' = Append(renderers, Renderer(FALSE, {Parameter}, [n \in Names |-> Absent], <<>>))

EndRender ==
  /\ Len(renderers) > 1 /\ Depth = 0
  /\ renderers' = SubSeq(renderers, 1, Len(renderers) - 1)

Init == renderers = <<Renderer(FALSE, DataNames, [n \in Names |-> Absent], <<>>)>>

Next ==
  \/ \E name \in Names, size \in Sizes : ForArray(name, size)
  \/ \E name \in Names : SetStatement(name)
  \/ NextElement \/ EndFor \/ Include \/ Subtemplate \/ EndRender

Spec == Init /\ [][Next]_vars

-----------------------------------------------------------------------------
\* FALSE: the template's data come first.
Lookup_DataFirst(renderer, name) ==
  IF name \in renderer.data_input THEN Plain("data")
  ELSE IF renderer.additional_data[name] # Absent THEN renderer.additional_data[name]
  ELSE Plain("not found")

(* visit(DataNode): additional_data come before the template's data.  Here:    *)
(* what a name reads in the given renderer.                                    *)
Lookup(renderer, name) ==
  IF renderer.additional_data[name] # Absent THEN renderer.additional_data[name]
  ELSE Plain(IF name \in renderer.data_input THEN "data" ELSE "not found")

(* Properties. *)

Loops == {r \in [value : Names, size : Sizes, index : Nat, hidden : BOOLEAN] : r.index < r.size}
Data == [index : {-1} \cup Nat, is_first : BOOLEAN, is_last : BOOLEAN]

(* Types of the state. *)
TypeOK ==
  /\ renderers \in Seq([included : BOOLEAN, data_input : SUBSET Names, additional_data : [Names -> Values],
                        loop : Seq(Data), running : Seq(Loops)])
  /\ Len(renderers) \in 1..MaxRenderers
  /\ \A i \in DOMAIN renderers : Len(renderers[i].running) <= MaxLoops

(* In the body of loops within loops, "loop" and its parents are the data of    *)
(* these loops, whatever loops were rendered in between: index, is_first and   *)
(* is_last speak of the current element of each.                               *)
LoopDataCurrent ==
  \A i \in DOMAIN renderers :
    LET r == renderers[i]
        outer == Len(r.loop) - Len(r.running)
    IN  /\ outer >= 0
        /\ \A k \in DOMAIN r.running :
             r.loop[outer + k] = LoopData(r.running[k].index, r.running[k].size)

(* A loop's variable reads the current element until the body stores something *)
(* else under its name: an inner loop of the same variable, or a set.          *)
ElementVisible ==
  \A i \in DOMAIN renderers : \A k \in DOMAIN renderers[i].running :
    LET r == renderers[i]
    IN  ~r.running[k].hidden => Lookup(r, r.running[k].value) = Item(k, r.running[k].index)

(* An included template that is in no loop of its own reads "loop" as its      *)
(* includer does, and in a loop of its own finds it among the parents.         *)
IncludeSeesLoops ==
  \A i \in 2..Len(renderers) :
    LET r == renderers[i]
        s == renderers[i - 1]
    IN  r.included /\ s.loop # <<>> =>
          r.loop # <<>> /\ SubSeq(r.loop, 1, Len(r.loop) - Len(r.running)) = s.loop
=============================================================================
