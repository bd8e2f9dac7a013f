--------------------------- MODULE InjaRendererProofs ---------------------------
(* Proofs about InjaRenderer, for any names and data, and loops and includes    *)
(* nested to any depth, and about InjaEval, for any expressions and data.        *)
(* Every renderer keeps to itself: its loop data are those it began with,        *)
(* followed by one for each loop under way; of the two, a step changes the       *)
(* second only, and only in the innermost renderer.  An evaluation has on        *)
(* data_eval_stack the meanings of the arguments that its calls have visited and *)
(* not taken, call after call, and a name on not_found_stack for each of them    *)
(* that is missing.                                                              *)
EXTENDS InjaRenderer, InjaEval,
        FiniteSetTheorems, SequenceTheorems, WellFoundedInduction, TLAPS

RendererType ==
  [included : BOOLEAN, data_input : SUBSET Names, additional_data : [Names -> Values],
   loop : Seq(Data), running : Seq(Loops)]

(* The loop data that a renderer did not make itself, or has left over.         *)
Outer(r) == Len(r.loop) - Len(r.running)

LoopsCurrent(r) ==
  /\ Outer(r) >= 0
  /\ \A k \in DOMAIN r.running :
       r.loop[Outer(r) + k] = LoopData(r.running[k].index, r.running[k].size)

Visible(r) ==
  \A k \in DOMAIN r.running :
    ~r.running[k].hidden => r.additional_data[r.running[k].value] = Item(k, r.running[k].index)

RendererOK(r) ==
  r \in RendererType /\ Len(r.running) <= MaxLoops /\ LoopsCurrent(r) /\ Visible(r)

(* What r began with is what s, which includes it, has.                          *)
BeganWith(r, s) ==
  r.included /\ s.loop # <<>> =>
    Outer(r) = Len(s.loop) /\ \A j \in 1..Len(s.loop) : r.loop[j] = s.loop[j]

IInv ==
  /\ renderers \in Seq(RendererType) /\ Len(renderers) \in 1..MaxRenderers
  /\ \A i \in 1..Len(renderers) : RendererOK(renderers[i])
  /\ \A i \in 2..Len(renderers) : BeganWith(renderers[i], renderers[i - 1])

LEMMA TopFacts ==
  ASSUME IInv
  PROVE  /\ Top = renderers[Len(renderers)] /\ RendererOK(Top)
         /\ Len(renderers) \in Nat /\ Len(renderers) >= 1
         /\ Top.loop \in Seq(Data) /\ Top.running \in Seq(Loops)
         /\ Top.additional_data \in [Names -> Values]
         /\ Depth \in Nat /\ Depth <= Len(Top.loop) /\ Len(Top.loop) \in Nat
BY RendererAssumption DEF IInv, Top, RendererOK, RendererType, Depth, LoopsCurrent, Outer

\* A step of the innermost renderer leaves alone what it began with.
LEMMA TopStep ==
  ASSUME IInv, NEW r, RendererOK(r), r.included = Top.included, Step(r),
         Outer(Top) > 0 =>
           Outer(r) = Outer(Top) /\ \A j \in 1..Outer(Top) : r.loop[j] = Top.loop[j]
  PROVE  IInv'
<1>1. /\ renderers' \in Seq(RendererType) /\ Len(renderers') = Len(renderers)
      /\ renderers'[Len(renderers)] = r
      /\ \A i \in 1..(Len(renderers) - 1) : renderers'[i] = renderers[i]
  BY TopFacts DEF Step, IInv, RendererOK
<1>2. ASSUME NEW i \in 2..Len(renderers)
      PROVE  BeganWith(renderers'[i], renderers'[i - 1])
  <2>1. BeganWith(renderers[i], renderers[i - 1])
    BY DEF IInv
  <2>2. renderers'[i - 1] = renderers[i - 1]
    BY <1>1, TopFacts
  <2>3. CASE i < Len(renderers)
    BY <1>1, <2>1, <2>2, <2>3, TopFacts
  <2>4. CASE i = Len(renderers)
    <3> DEFINE s == renderers[i - 1]
    <3>1. BeganWith(Top, s) /\ renderers'[i] = r
      BY <1>1, <2>1, <2>4, TopFacts
    <3>2. s.loop \in Seq(Data)
      <4>1. i - 1 \in 1..Len(renderers)
        BY TopFacts
      <4> QED
        BY <4>1 DEF IInv, RendererOK, RendererType
    <3>3. s.loop # <<>> => Len(s.loop) > 0
      BY <3>2
    <3> QED
      BY <2>2, <3>1, <3>2, <3>3 DEF BeganWith
  <2> QED
    BY <2>3, <2>4, TopFacts
<1>3. ASSUME NEW i \in 1..Len(renderers)
      PROVE  RendererOK(renderers'[i])
  <2>1. CASE i = Len(renderers)
    BY <1>1, <2>1
  <2>2. CASE i # Len(renderers)
    <3>1. i \in 1..(Len(renderers) - 1)
      BY <2>2, TopFacts
    <3>2. RendererOK(renderers[i])
      BY DEF IInv
    <3> QED
      BY <1>1, <3>1, <3>2
  <2> QED
    BY <2>1, <2>2
<1>4. Len(renderers') \in 1..MaxRenderers
  BY <1>1 DEF IInv
<1> QED
  BY <1>1, <1>2, <1>3, <1>4 DEF IInv

\* What Hide does to the loops under way.
LEMMA HideFacts ==
  ASSUME NEW running \in Seq(Loops), NEW name
  PROVE  LET h == Hide(running, name)
         IN  /\ h \in Seq(Loops) /\ Len(h) = Len(running)
             /\ \A k \in 1..Len(running) :
                  /\ h[k].value = running[k].value /\ h[k].size = running[k].size
                  /\ h[k].index = running[k].index
                  /\ ~h[k].hidden => ~running[k].hidden /\ running[k].value # name
<1> DEFINE h == Hide(running, name)
<1>1. Len(running) \in Nat /\ DOMAIN running = 1..Len(running)
  OBVIOUS
<1>2. ASSUME NEW k \in 1..Len(running)
      PROVE  /\ h[k] = [running[k] EXCEPT !.hidden = @ \/ running[k].value = name]
             /\ running[k] \in Loops
  BY <1>1 DEF Hide
<1>3. ASSUME NEW k \in 1..Len(running)
      PROVE  /\ h[k] \in Loops
             /\ h[k].value = running[k].value /\ h[k].size = running[k].size
             /\ h[k].index = running[k].index
             /\ ~h[k].hidden => ~running[k].hidden /\ running[k].value # name
  BY <1>2 DEF Loops
<1>4. h = [k \in 1..Len(running) |-> h[k]]
  BY <1>1 DEF Hide
<1>5. h \in Seq(Loops) /\ Len(h) = Len(running)
  BY <1>1, <1>3, <1>4
<1> QED
  BY <1>3, <1>5

-----------------------------------------------------------------------------
(* The actions.                                                                *)

LEMMA ValueFacts ==
  /\ Absent \in Values /\ Cleared \in Values /\ Assigned \in Values
  /\ \A d \in 1..MaxLoops : \A i \in Nat : Item(d, i) \in Values /\ Item(d, i) # Absent
  /\ EmptyLoopData \in Data
  /\ \A i, n \in Nat : LoopData(i, n) \in Data
  /\ \A name \in Names, size \in Sizes : size > 0 => Running(name, size) \in Loops
BY RendererAssumption
DEF Values, Absent, Cleared, Assigned, Plain, Item, EmptyLoopData, LoopData, Data, Running, Loops

With(data, loop, running) ==
  [Top EXCEPT !.additional_data = data, !.loop = loop, !.running = running]

LEMMA WithFacts ==
  ASSUME IInv, NEW data \in [Names -> Values], NEW loop \in Seq(Data), NEW running \in Seq(Loops)
  PROVE  LET r == With(data, loop, running)
         IN  /\ r \in RendererType /\ r.included = Top.included
             /\ r.additional_data = data /\ r.loop = loop /\ r.running = running
<1>1. Top \in RendererType
  BY TopFacts DEF RendererOK
<1> QED
  BY <1>1 DEF RendererType, With

LEMMA HidingKeepsVisible ==
  ASSUME IInv, NEW name \in Names, NEW data,
         \A n \in Names \ {name} : data[n] = Top.additional_data[n],
         NEW k \in 1..Depth, ~Hide(Top.running, name)[k].hidden
  PROVE  data[Top.running[k].value] = Item(k, Top.running[k].index)
<1>1. /\ ~Top.running[k].hidden /\ Top.running[k].value # name
      /\ Top.running[k].value \in Names
  <2>1. Top.running \in Seq(Loops) /\ k \in 1..Len(Top.running)
    BY TopFacts DEF Depth
  <2>2. Top.running[k].value \in Names
    BY <2>1 DEF Loops
  <2> QED
    BY <2>1, <2>2, HideFacts
<1>2. Top.additional_data[Top.running[k].value] = Item(k, Top.running[k].index)
  BY <1>1, TopFacts DEF RendererOK, Visible, Depth
<1> QED
  BY <1>1, <1>2

LEMMA ForArrayStep ==
  ASSUME IInv, NEW name \in Names, NEW size \in Sizes, ForArray(name, size)
  PROVE  IInv'
<1> DEFINE hid == Hide(Top.running, name)
           data == Store(Top.additional_data, name, IF size = 0 THEN Cleared ELSE Item(Depth + 1, 0))
           loop == IF size > 0 THEN Append(Top.loop, LoopData(0, size))
                   ELSE IF Top.loop = <<>> THEN <<EmptyLoopData>> ELSE Top.loop
           running == IF size = 0 THEN hid ELSE Append(hid, Running(name, size))
           r == With(data, loop, running)
<1>1. size \in Nat /\ Depth + 1 \in 1..MaxLoops
  BY TopFacts, RendererAssumption DEF ForArray
<1>2. /\ hid \in Seq(Loops) /\ Len(hid) = Depth
      /\ \A k \in 1..Depth :
           /\ hid[k].value = Top.running[k].value /\ hid[k].size = Top.running[k].size
           /\ hid[k].index = Top.running[k].index
           /\ ~hid[k].hidden => ~Top.running[k].hidden /\ Top.running[k].value # name
  BY TopFacts, HideFacts DEF Depth
<1> HIDE DEF hid
<1>3. /\ data \in [Names -> Values]
      /\ data[name] = IF size = 0 THEN Cleared ELSE Item(Depth + 1, 0)
      /\ \A n \in Names \ {name} : data[n] = Top.additional_data[n]
  BY <1>1, TopFacts, ValueFacts DEF Store
<1>4. Step(r)
  BY DEF ForArray, hid, With
<1>5. running \in Seq(Loops) /\ loop \in Seq(Data)
  BY <1>1, <1>2, TopFacts, ValueFacts
<1> HIDE DEF loop, running, data
<1>8. /\ r \in RendererType /\ r.included = Top.included /\ r.additional_data = data
      /\ r.loop = loop /\ r.running = running
  BY <1>3, <1>5, WithFacts
<1> HIDE DEF r
<1>6. CASE size = 0
  <2>1. running = hid /\ loop = IF Top.loop = <<>> THEN <<EmptyLoopData>> ELSE Top.loop
    BY <1>6 DEF running, loop
  <2>2. CASE Top.loop = <<>>
    <3>1. loop = <<EmptyLoopData>> /\ loop \in Seq(Data) /\ Len(loop) = 1 /\ Depth = 0
      BY <2>1, <2>2, TopFacts, ValueFacts
    <3>2. running \in Seq(Loops) /\ Len(running) = 0 /\ DOMAIN running = {}
      BY <1>2, <2>1, <3>1
    <3>4. RendererOK(r)
      BY <1>8, <3>1, <3>2, RendererAssumption
      DEF RendererOK, LoopsCurrent, Visible, Outer
    <3>5. Outer(Top) = 0
      BY <2>2, <3>1 DEF Outer, Depth
    <3> QED
      BY <1>4, <1>8, <3>4, <3>5, TopStep
  <2>3. CASE Top.loop # <<>>
    <3>1. loop = Top.loop /\ running \in Seq(Loops) /\ Len(running) = Depth /\ Outer(r) = Outer(Top)
      BY <1>2, <1>8, <2>1, <2>3 DEF Outer, Depth
    <3>3. LoopsCurrent(r)
      BY <1>2, <1>8, <2>1, <3>1, TopFacts DEF LoopsCurrent, RendererOK, Depth
    <3>4. Visible(r)
      <4>1. DOMAIN r.running = 1..Depth
        BY <1>8, <3>1
      <4>2. ASSUME NEW k \in 1..Depth, ~r.running[k].hidden
            PROVE  data[Top.running[k].value] = Item(k, Top.running[k].index)
        BY <1>3, <1>8, <2>1, <4>2, HidingKeepsVisible DEF hid
      <4> QED
        BY <1>2, <1>8, <2>1, <4>1, <4>2 DEF Visible
    <3>5. RendererOK(r)
      BY <1>8, <3>1, <3>3, <3>4, TopFacts DEF RendererOK, Depth
    <3> QED
      BY <1>4, <1>8, <3>1, <3>5, TopStep
  <2> QED
    BY <2>2, <2>3
<1>7. CASE size # 0
  <2> DEFINE new == Running(name, size)
  <2>1. /\ running = Append(hid, new) /\ loop = Append(Top.loop, LoopData(0, size))
        /\ new \in Loops /\ LoopData(0, size) \in Data
    BY <1>1, <1>7, ValueFacts DEF running, loop
  <2>2. /\ running \in Seq(Loops) /\ Len(running) = Depth + 1
        /\ running[Depth + 1] = new /\ \A k \in 1..Depth : running[k] = hid[k]
    BY <1>2, <2>1, TopFacts
  <2>3. /\ loop \in Seq(Data) /\ Len(loop) = Len(Top.loop) + 1
        /\ loop[Len(Top.loop) + 1] = LoopData(0, size)
        /\ \A k \in 1..Len(Top.loop) : loop[k] = Top.loop[k]
    BY <2>1, TopFacts
  <2>4. new.value = name /\ new.size = size /\ new.index = 0
    BY DEF Running
  <2> HIDE DEF new
  <2>6. Outer(r) = Outer(Top) /\ Outer(Top) \in Nat /\ Outer(Top) + Depth = Len(Top.loop)
    BY <1>8, <2>2, <2>3, TopFacts DEF Outer, Depth
  <2>7. LoopsCurrent(r)
    <3>1. ASSUME NEW k \in 1..Depth
          PROVE  r.loop[Outer(r) + k] = LoopData(r.running[k].index, r.running[k].size)
      <4>1. Top.loop[Outer(Top) + k] = LoopData(Top.running[k].index, Top.running[k].size)
        BY TopFacts DEF RendererOK, LoopsCurrent, Depth
      <4>2. Outer(Top) + k \in 1..Len(Top.loop)
        BY <2>6, TopFacts
      <4> QED
        BY <1>2, <1>8, <2>2, <2>3, <2>6, <4>1, <4>2
    <3>2. r.loop[Outer(r) + (Depth + 1)] = LoopData(r.running[Depth + 1].index, r.running[Depth + 1].size)
      <4>1. Outer(r) + (Depth + 1) = Len(Top.loop) + 1
        BY <2>6, TopFacts
      <4> QED
        BY <1>8, <2>2, <2>3, <2>4, <4>1
    <3>3. DOMAIN r.running = 1..(Depth + 1) /\ \A k \in 1..(Depth + 1) : k \in 1..Depth \/ k = Depth + 1
      BY <1>8, <2>2, TopFacts
    <3> QED
      BY <2>6, <3>1, <3>2, <3>3 DEF LoopsCurrent
  <2>8. Visible(r)
    <3>1. ASSUME NEW k \in 1..Depth, ~r.running[k].hidden
          PROVE  r.additional_data[r.running[k].value] = Item(k, r.running[k].index)
      <4>1. data[Top.running[k].value] = Item(k, Top.running[k].index)
        BY <1>3, <1>8, <2>2, <3>1, HidingKeepsVisible DEF hid
      <4> QED
        BY <1>2, <1>8, <2>2, <4>1
    <3>2. r.additional_data[r.running[Depth + 1].value] = Item(Depth + 1, r.running[Depth + 1].index)
      BY <1>3, <1>8, <1>7, <2>2, <2>4
    <3>3. DOMAIN r.running = 1..(Depth + 1) /\ \A k \in 1..(Depth + 1) : k \in 1..Depth \/ k = Depth + 1
      BY <1>8, <2>2, TopFacts
    <3> QED
      BY <3>1, <3>2, <3>3 DEF Visible
  <2>9. RendererOK(r)
    BY <1>1, <1>8, <2>2, <2>7, <2>8 DEF RendererOK
  <2>10. \A j \in 1..Outer(Top) : r.loop[j] = Top.loop[j]
    BY <1>8, <2>3, <2>6, TopFacts
  <2> QED
    BY <1>4, <1>8, <2>6, <2>9, <2>10, TopStep
<1> QED
  BY <1>6, <1>7

LEMMA SetStatementStep ==
  ASSUME IInv, NEW name \in Names, SetStatement(name)
  PROVE  IInv'
<1> DEFINE hid == Hide(Top.running, name)
           data == Store(Top.additional_data, name, Assigned)
           r == With(data, Top.loop, hid)
<1>1. /\ hid \in Seq(Loops) /\ Len(hid) = Depth
      /\ \A k \in 1..Depth :
           /\ hid[k].value = Top.running[k].value /\ hid[k].size = Top.running[k].size
           /\ hid[k].index = Top.running[k].index
           /\ ~hid[k].hidden => ~Top.running[k].hidden /\ Top.running[k].value # name
  BY TopFacts, HideFacts DEF Depth
<1> HIDE DEF hid
<1>2. /\ data \in [Names -> Values]
      /\ \A n \in Names \ {name} : data[n] = Top.additional_data[n]
  BY TopFacts, ValueFacts DEF Store
<1>3. Step(r)
  <2>1. Top \in RendererType
    BY TopFacts DEF RendererOK
  <2>2. [Top EXCEPT !.additional_data = data, !.running = hid] = r
    BY <2>1 DEF With, RendererType
  <2> QED
    BY <2>2 DEF SetStatement, hid
<1> HIDE DEF data
<1>4. /\ r \in RendererType /\ r.included = Top.included /\ r.additional_data = data
      /\ r.loop = Top.loop /\ r.running = hid
  BY <1>1, <1>2, TopFacts, WithFacts
<1> HIDE DEF r
<1>5. Outer(r) = Outer(Top)
  BY <1>1, <1>4 DEF Outer, Depth
<1>6. LoopsCurrent(r)
  BY <1>1, <1>4, <1>5, TopFacts DEF LoopsCurrent, RendererOK, Depth
<1>7. Visible(r)
  <2>1. DOMAIN r.running = 1..Depth
    BY <1>1, <1>4
  <2>2. ASSUME NEW k \in 1..Depth, ~r.running[k].hidden
        PROVE  data[Top.running[k].value] = Item(k, Top.running[k].index)
    BY <1>2, <1>4, <2>2, HidingKeepsVisible DEF hid
  <2> QED
    BY <1>1, <1>4, <2>1, <2>2 DEF Visible
<1>8. RendererOK(r)
  BY <1>1, <1>4, <1>5, <1>6, <1>7, TopFacts DEF RendererOK, Depth
<1> QED
  BY <1>3, <1>4, <1>5, <1>8, TopStep

LEMMA OuterFacts ==
  ASSUME IInv
  PROVE  Outer(Top) \in Nat /\ Outer(Top) + Depth = Len(Top.loop) /\ Outer(Top) = Len(Top.loop) - Depth
BY TopFacts DEF Outer, Depth

\* What NextElement makes of the loop object d of the i-th of n elements.
NextData(d, i, n) ==
  [index |-> i + 1,
   is_first |-> d.is_first /\ i + 1 # 1,
   is_last |-> d.is_last \/ i + 2 = n]

\* The loop object is kept up to date from its last state.
LEMMA NextLoopData ==
  ASSUME NEW i \in Nat, NEW n \in Nat, i + 1 < n
  PROVE  NextData(LoopData(i, n), i, n) = LoopData(i + 1, n)
<1>1. LoopData(i, n).is_first <=> i = 0
  BY DEF LoopData
<1>2. LoopData(i, n).is_last <=> i + 1 >= n
  BY DEF LoopData
<1>3. (LoopData(i, n).is_first /\ i + 1 # 1) <=> (i + 1 = 0)
  <2> HIDE DEF LoopData
  <2> QED
    BY <1>1
<1>4. (LoopData(i, n).is_last \/ i + 2 = n) <=> (i + 1 + 1 >= n)
  BY <1>2
<1>5. NextData(LoopData(i, n), i, n)
        = [index |-> i + 1, is_first |-> i + 1 = 0, is_last |-> i + 1 + 1 >= n]
  BY <1>3, <1>4 DEF NextData
<1> QED
  BY <1>5 DEF LoopData

LEMMA NewRunning ==
  ASSUME NEW c \in [value : Names, size : Sizes, index : Nat, hidden : BOOLEAN], NEW n \in Nat
  PROVE  LET c2 == [c EXCEPT !.index = n, !.hidden = FALSE]
         IN  /\ c2 \in [value : Names, size : Sizes, index : Nat, hidden : BOOLEAN]
             /\ c2.index = n /\ c2.value = c.value /\ c2.size = c.size
OBVIOUS

LEMMA NextRunning ==
  ASSUME NEW c \in Loops, c.index + 1 < c.size
  PROVE  LET c2 == [c EXCEPT !.index = @ + 1, !.hidden = FALSE]
         IN  c2 \in Loops /\ c2.index = c.index + 1 /\ c2.value = c.value /\ c2.size = c.size
<1>1. c \in [value : Names, size : Sizes, index : Nat, hidden : BOOLEAN] /\ c.index + 1 \in Nat
  BY DEF Loops
<1>2. LET c2 == [c EXCEPT !.index = c.index + 1, !.hidden = FALSE]
      IN  /\ c2 \in [value : Names, size : Sizes, index : Nat, hidden : BOOLEAN]
          /\ c2.index = c.index + 1 /\ c2.value = c.value /\ c2.size = c.size
  BY <1>1, NewRunning
<1> QED
  BY <1>2 DEF Loops

LEMMA NextElementStep ==
  ASSUME IInv, NextElement
  PROVE  IInv'
<1> DEFINE c == Top.running[Depth]
           d == Top.loop[Len(Top.loop)]
           hid == Hide(Top.running, c.value)
           data == Store(Top.additional_data, c.value, Item(Depth, c.index + 1))
           d2 == NextData(d, c.index, c.size)
           c2 == [c EXCEPT !.index = @ + 1, !.hidden = FALSE]
           loop == [Top.loop EXCEPT ![Len(Top.loop)] = d2]
           running == [hid EXCEPT ![Depth] = c2]
           r == With(data, loop, running)
<1>1. /\ Depth > 0 /\ c.index + 1 < c.size /\ c \in Loops /\ d \in Data /\ Depth \in 1..MaxLoops
      /\ c.size \in Nat /\ c.index \in Nat /\ c.value \in Names
  <2>1. Depth > 0 /\ c.index + 1 < c.size
    BY DEF NextElement
  <2>2. Depth \in 1..Len(Top.running) /\ Len(Top.loop) \in 1..Len(Top.loop)
    BY <2>1, TopFacts DEF Depth
  <2>3. c \in Loops /\ d \in Data
    BY <2>2, TopFacts
  <2>4. Depth \in 1..MaxLoops
    BY <2>1, TopFacts, RendererAssumption DEF RendererOK, Depth
  <2> QED
    BY <2>1, <2>3, <2>4, RendererAssumption DEF Loops
<1>2. /\ hid \in Seq(Loops) /\ Len(hid) = Depth
      /\ \A k \in 1..Depth :
           /\ hid[k].value = Top.running[k].value /\ hid[k].size = Top.running[k].size
           /\ hid[k].index = Top.running[k].index
  BY TopFacts, HideFacts DEF Depth
<1>3. d = LoopData(c.index, c.size)
  BY <1>1, TopFacts DEF RendererOK, LoopsCurrent, Outer, Depth
<1>4. d2 = LoopData(c.index + 1, c.size) /\ d2 \in Data
  BY <1>1, <1>3, ValueFacts, NextLoopData
<1>5. c2 \in Loops /\ c2.index = c.index + 1 /\ c2.value = c.value /\ c2.size = c.size
  BY <1>1, NextRunning
<1>6. /\ data \in [Names -> Values] /\ data[c.value] = Item(Depth, c.index + 1)
      /\ \A n \in Names \ {c.value} : data[n] = Top.additional_data[n]
  BY <1>1, TopFacts, ValueFacts DEF Store
<1>7. Step(r)
  BY DEF NextElement, With, NextData
<1> HIDE DEF hid, data, d2, c2
<1>8. /\ loop \in Seq(Data) /\ Len(loop) = Len(Top.loop) /\ loop[Len(Top.loop)] = d2
      /\ \A j \in 1..(Len(Top.loop) - 1) : loop[j] = Top.loop[j]
  BY <1>1, <1>4, TopFacts
<1>9. /\ running \in Seq(Loops) /\ Len(running) = Depth /\ running[Depth] = c2
      /\ \A k \in 1..(Depth - 1) : running[k] = hid[k]
  BY <1>1, <1>2, <1>5, TopFacts
<1> HIDE DEF loop, running
<1>10. /\ r \in RendererType /\ r.included = Top.included /\ r.additional_data = data
       /\ r.loop = loop /\ r.running = running
  BY <1>6, <1>8, <1>9, WithFacts
<1> HIDE DEF r
<1>11. /\ Outer(r) = Outer(Top) /\ Outer(Top) \in Nat /\ Outer(Top) + Depth = Len(Top.loop)
       /\ DOMAIN r.running = 1..Depth /\ \A k \in 1..Depth : k \in 1..(Depth - 1) \/ k = Depth
  <2>1. Outer(r) = Len(Top.loop) - Depth /\ DOMAIN r.running = 1..Depth
    BY <1>8, <1>9, <1>10 DEF Outer
  <2> QED
    BY <2>1, OuterFacts, TopFacts
<1>12. LoopsCurrent(r)
  <2>1. ASSUME NEW k \in 1..(Depth - 1)
        PROVE  r.loop[Outer(r) + k] = LoopData(r.running[k].index, r.running[k].size)
    <3>1. Top.loop[Outer(Top) + k] = LoopData(Top.running[k].index, Top.running[k].size)
      BY TopFacts DEF RendererOK, LoopsCurrent, Depth
    <3>2. Outer(Top) + k \in 1..(Len(Top.loop) - 1) /\ k \in 1..Depth
      BY <1>11, TopFacts
    <3> QED
      BY <1>2, <1>8, <1>9, <1>10, <1>11, <3>1, <3>2
  <2>2. r.loop[Outer(r) + Depth] = LoopData(r.running[Depth].index, r.running[Depth].size)
    BY <1>4, <1>5, <1>8, <1>9, <1>10, <1>11
  <2> QED
    BY <1>11, <2>1, <2>2 DEF LoopsCurrent
<1>13. Visible(r)
  <2>1. ASSUME NEW k \in 1..(Depth - 1), ~r.running[k].hidden
        PROVE  r.additional_data[r.running[k].value] = Item(k, r.running[k].index)
    <3>1. k \in 1..Depth /\ ~hid[k].hidden
      BY <1>9, <1>10, <1>11, <2>1, TopFacts
    <3>2. data[Top.running[k].value] = Item(k, Top.running[k].index)
      BY <1>1, <1>6, <3>1, HidingKeepsVisible DEF hid
    <3> QED
      BY <1>2, <1>9, <1>10, <3>1, <3>2
  <2>2. r.additional_data[r.running[Depth].value] = Item(Depth, r.running[Depth].index)
    BY <1>5, <1>6, <1>9, <1>10
  <2> QED
    BY <1>11, <2>1, <2>2 DEF Visible
<1>14. RendererOK(r)
  BY <1>9, <1>10, <1>12, <1>13, TopFacts DEF RendererOK, Depth
<1>15. Outer(Top) > 0 => \A j \in 1..Outer(Top) : r.loop[j] = Top.loop[j]
  BY <1>1, <1>8, <1>10, <1>11, TopFacts
<1> QED
  BY <1>7, <1>10, <1>11, <1>14, <1>15, TopStep

LEMMA EndForStep ==
  ASSUME IInv, EndFor
  PROVE  IInv'
<1> DEFINE c == Top.running[Depth]
           short == SubSeq(Top.running, 1, Depth - 1)
           hid == Hide(short, c.value)
           data == Store(Top.additional_data, c.value, Cleared)
           loop == IF Len(Top.loop) > 1 THEN SubSeq(Top.loop, 1, Len(Top.loop) - 1) ELSE Top.loop
           r == With(data, loop, hid)
<1>1. Depth > 0 /\ Depth \in 1..Len(Top.running) /\ Len(Top.loop) >= 1 /\ c.value \in Names
  <2>1. Depth > 0 /\ Depth \in 1..Len(Top.running)
    BY TopFacts DEF EndFor, Depth
  <2>2. c \in Loops
    BY <2>1, TopFacts
  <2> QED
    BY <2>1, <2>2, TopFacts DEF Loops
<1>2. short \in Seq(Loops) /\ Len(short) = Depth - 1 /\ \A k \in 1..(Depth - 1) : short[k] = Top.running[k]
  BY <1>1, TopFacts DEF Depth
<1> HIDE DEF short
<1>3. /\ hid \in Seq(Loops) /\ Len(hid) = Depth - 1
      /\ \A k \in 1..(Depth - 1) :
           /\ hid[k].value = Top.running[k].value /\ hid[k].size = Top.running[k].size
           /\ hid[k].index = Top.running[k].index
           /\ ~hid[k].hidden => ~Top.running[k].hidden /\ Top.running[k].value # c.value
  BY <1>2, HideFacts
<1>4. /\ data \in [Names -> Values]
      /\ \A n \in Names \ {c.value} : data[n] = Top.additional_data[n]
  BY <1>1, TopFacts, ValueFacts DEF Store
<1>5. Step(r)
  BY DEF EndFor, With, short
<1> HIDE DEF hid, data
<1>6. /\ loop \in Seq(Data)
      /\ Len(loop) = IF Len(Top.loop) > 1 THEN Len(Top.loop) - 1 ELSE Len(Top.loop)
      /\ \A j \in 1..Len(loop) : loop[j] = Top.loop[j]
  BY TopFacts
<1> HIDE DEF loop
<1>7. /\ r \in RendererType /\ r.included = Top.included /\ r.additional_data = data
      /\ r.loop = loop /\ r.running = hid
  BY <1>3, <1>4, <1>6, WithFacts
<1> HIDE DEF r
<1>8. /\ Outer(Top) \in Nat /\ Outer(Top) + Depth = Len(Top.loop)
      /\ DOMAIN r.running = 1..(Depth - 1)
      /\ Outer(r) = Outer(Top) \/ (Outer(Top) = 0 /\ Depth = 1 /\ Outer(r) = 1)
  <2>1. Outer(r) = Len(loop) - (Depth - 1) /\ DOMAIN r.running = 1..(Depth - 1)
    BY <1>3, <1>7 DEF Outer
  <2> QED
    BY <1>1, <1>6, <2>1, OuterFacts, TopFacts
<1>9. LoopsCurrent(r)
  <2>1. ASSUME NEW k \in 1..(Depth - 1)
        PROVE  r.loop[Outer(r) + k] = LoopData(r.running[k].index, r.running[k].size)
    <3>1. Top.loop[Outer(Top) + k] = LoopData(Top.running[k].index, Top.running[k].size)
      BY TopFacts DEF RendererOK, LoopsCurrent, Depth
    <3>2. Outer(r) = Outer(Top) /\ Outer(Top) + k \in 1..Len(loop)
      BY <1>1, <1>6, <1>8, TopFacts
    <3> QED
      BY <1>3, <1>6, <1>7, <3>1, <3>2
  <2> QED
    BY <1>8, <2>1 DEF LoopsCurrent
<1>10. Visible(r)
  <2>1. ASSUME NEW k \in 1..(Depth - 1), ~r.running[k].hidden
        PROVE  r.additional_data[r.running[k].value] = Item(k, r.running[k].index)
    <3>1. k \in 1..Depth /\ ~Top.running[k].hidden /\ Top.running[k].value # c.value
      BY <1>3, <1>7, <2>1, TopFacts
    <3>2. Top.running[k].value \in Names
      BY <3>1, TopFacts DEF Depth, Loops
    <3>3. Top.additional_data[Top.running[k].value] = Item(k, Top.running[k].index)
      BY <3>1, TopFacts DEF RendererOK, Visible, Depth
    <3> QED
      BY <1>3, <1>4, <1>7, <3>1, <3>2, <3>3
  <2> QED
    BY <1>8, <2>1 DEF Visible
<1>11. RendererOK(r)
  BY <1>1, <1>3, <1>7, <1>9, <1>10, TopFacts, RendererAssumption DEF RendererOK, Depth
<1>12. Outer(Top) > 0 => /\ Outer(r) = Outer(Top)
                        /\ \A j \in 1..Outer(Top) : r.loop[j] = Top.loop[j]
  BY <1>1, <1>6, <1>7, <1>8, TopFacts
<1> QED
  BY <1>5, <1>7, <1>11, <1>12, TopStep

\* An included template begins with what its includer has.
LEMMA IncludeStep ==
  ASSUME IInv, Include \/ Subtemplate
  PROVE  IInv'
<1>1. PICK r : /\ renderers' = Append(renderers, r) /\ Len(renderers) < MaxRenderers
               /\ r \in RendererType /\ r.running = <<>> /\ (r.included => r.loop = Top.loop)
  <2>1. CASE Include
    <3> DEFINE r == Renderer(TRUE, Top.data_input, Top.additional_data, Top.loop)
    <3>1. r \in RendererType /\ r.running = <<>> /\ r.loop = Top.loop
      BY TopFacts DEF RendererOK, RendererType, Renderer
    <3> HIDE DEF r
    <3> QED
      BY <2>1, <3>1 DEF Include, r
  <2>2. CASE Subtemplate
    <3> DEFINE r == Renderer(FALSE, {Parameter}, [n \in Names |-> Absent], <<>>)
    <3>1. r \in RendererType /\ r.running = <<>> /\ ~r.included
      BY RendererAssumption, ValueFacts DEF RendererType, Renderer
    <3> HIDE DEF r
    <3> QED
      BY <2>2, <3>1 DEF Subtemplate, r
  <2> QED
    BY <2>1, <2>2
<1>2. /\ renderers' \in Seq(RendererType) /\ Len(renderers') = Len(renderers) + 1
      /\ renderers'[Len(renderers) + 1] = r
      /\ \A i \in 1..Len(renderers) : renderers'[i] = renderers[i]
  BY <1>1, TopFacts DEF IInv
<1>3. RendererOK(r)
  BY <1>1, RendererAssumption DEF RendererOK, RendererType, LoopsCurrent, Visible, Outer
<1>4. BeganWith(r, Top)
  BY <1>1, TopFacts DEF BeganWith, Outer
<1>5. ASSUME NEW i \in 2..(Len(renderers) + 1)
      PROVE  BeganWith(renderers'[i], renderers'[i - 1])
  <2>1. CASE i = Len(renderers) + 1
    BY <1>2, <1>4, <2>1, TopFacts
  <2>2. CASE i <= Len(renderers)
    <3>1. i \in 2..Len(renderers) /\ i - 1 \in 1..Len(renderers) /\ i \in 1..Len(renderers)
      BY <2>2, TopFacts
    <3> QED
      BY <1>2, <3>1 DEF IInv
  <2> QED
    BY <2>1, <2>2, TopFacts
<1>6. ASSUME NEW i \in 1..(Len(renderers) + 1)
      PROVE  RendererOK(renderers'[i])
  BY <1>2, <1>3, TopFacts DEF IInv
<1>7. Len(renderers') \in 1..MaxRenderers /\ Len(renderers') = Len(renderers) + 1
  <2>1. \A i, j \in Nat : i < j => i + 1 \in 1..j
    OBVIOUS
  <2> QED BY <1>1, <1>2, <2>1, TopFacts, RendererAssumption
<1> QED
  BY <1>2, <1>5, <1>6, <1>7 DEF IInv

LEMMA EndRenderStep ==
  ASSUME IInv, EndRender
  PROVE  IInv'
<1>1. /\ renderers' \in Seq(RendererType) /\ Len(renderers') = Len(renderers) - 1
      /\ Len(renderers) > 1
      /\ \A i \in 1..(Len(renderers) - 1) : renderers'[i] = renderers[i]
  BY TopFacts DEF IInv, EndRender
<1>2. ASSUME NEW i \in 2..(Len(renderers) - 1)
      PROVE  BeganWith(renderers'[i], renderers'[i - 1])
  <2>1. i \in 2..Len(renderers) /\ i - 1 \in 1..(Len(renderers) - 1) /\ i \in 1..(Len(renderers) - 1)
    BY TopFacts
  <2> QED
    BY <1>1, <2>1 DEF IInv
<1>3. ASSUME NEW i \in 1..(Len(renderers) - 1)
      PROVE  RendererOK(renderers'[i])
  BY <1>1, TopFacts DEF IInv
<1>4. Len(renderers') \in 1..MaxRenderers
  BY <1>1, TopFacts, RendererAssumption DEF IInv
<1> QED
  BY <1>1, <1>2, <1>3, <1>4 DEF IInv

LEMMA Invariance == Spec => []IInv
<1>1. Init => IInv
  <2> DEFINE r == Renderer(FALSE, DataNames, [n \in Names |-> Absent], <<>>)
  <2>1. r \in RendererType /\ r.running = <<>> /\ r.loop = <<>>
    BY RendererAssumption, ValueFacts DEF RendererType, Renderer
  <2> HIDE DEF r
  <2>2. RendererOK(r)
    BY <2>1, RendererAssumption DEF RendererOK, LoopsCurrent, Visible, Outer
  <2>3. ASSUME renderers = <<r>>
        PROVE  IInv
    <3>1. Len(renderers) = 1 /\ renderers[1] = r /\ renderers \in Seq(RendererType)
      BY <2>1, <2>3
    <3> QED
      BY <2>2, <3>1, RendererAssumption DEF IInv
  <2> QED
    BY <2>3 DEF Init, r
<1>2. IInv /\ [Next]_vars => IInv'
  <2>1. CASE UNCHANGED vars
    BY <2>1 DEF vars, IInv
  <2>2. CASE Next
    BY <2>2, ForArrayStep, SetStatementStep, NextElementStep, EndForStep, IncludeStep, EndRenderStep
    DEF Next
  <2> QED
    BY <2>1, <2>2
<1> QED
  BY <1>1, <1>2, PTL DEF Spec

-----------------------------------------------------------------------------
(* What follows from it.                                                       *)

\* Renderers, variables and loop data have the values that InjaRenderer says.
THEOREM TypeCorrect == Spec => []TypeOK
<1>1. ASSUME IInv PROVE TypeOK
  <2>1. \A i \in DOMAIN renderers : Len(renderers[i].running) <= MaxLoops
    BY <1>1 DEF IInv, RendererOK
  <2> QED
    BY <1>1, <2>1 DEF IInv, TypeOK, RendererType
<1> QED
  BY <1>1, Invariance, PTL

\* In loops nested to any depth, index, is_first and is_last of "loop" and of its
\* parents are about the current element of each.
THEOREM LoopDataAreCurrent == Spec => []LoopDataCurrent
<1>1. ASSUME IInv PROVE LoopDataCurrent
  <2>1. \A i \in DOMAIN renderers : LoopsCurrent(renderers[i])
    BY <1>1 DEF IInv, RendererOK
  <2> QED
    BY <2>1 DEF LoopDataCurrent, LoopsCurrent, Outer
<1> QED
  BY <1>1, Invariance, PTL

\* A loop's variable reads the current element, until the body itself hides it.
THEOREM ElementsAreVisible == Spec => []ElementVisible
<1>1. ASSUME IInv PROVE ElementVisible
  <2>1. SUFFICES ASSUME NEW i \in 1..Len(renderers), NEW k \in DOMAIN renderers[i].running,
                        ~renderers[i].running[k].hidden
                 PROVE  Lookup(renderers[i], renderers[i].running[k].value)
                          = Item(k, renderers[i].running[k].index)
    BY <1>1 DEF ElementVisible, IInv
  <2>2. renderers[i].additional_data[renderers[i].running[k].value] = Item(k, renderers[i].running[k].index)
    BY <1>1, <2>1 DEF IInv, RendererOK, Visible
  <2>3. Item(k, renderers[i].running[k].index) # Absent
    BY DEF Item, Absent, Plain
  <2> QED
    BY <2>2, <2>3 DEF Lookup
<1> QED
  BY <1>1, Invariance, PTL

\* Loops of an include keep its includer's loop data below their own.
THEOREM IncludesSeeLoops == Spec => []IncludeSeesLoops
<1>1. ASSUME IInv PROVE IncludeSeesLoops
  <2>1. SUFFICES ASSUME NEW i \in 2..Len(renderers), renderers[i].included,
                        renderers[i - 1].loop # <<>>
                 PROVE  /\ renderers[i].loop # <<>>
                        /\ SubSeq(renderers[i].loop, 1, Outer(renderers[i])) = renderers[i - 1].loop
    BY DEF IncludeSeesLoops, Outer
  <2> DEFINE r == renderers[i]
             s == renderers[i - 1]
  <2>2. i \in 1..Len(renderers) /\ i - 1 \in 1..Len(renderers)
    BY <1>1 DEF IInv
  <2>3. /\ r.loop \in Seq(Data) /\ s.loop \in Seq(Data) /\ r.running \in Seq(Loops)
        /\ Outer(r) = Len(s.loop) /\ \A j \in 1..Len(s.loop) : r.loop[j] = s.loop[j]
    BY <1>1, <2>1, <2>2 DEF IInv, RendererOK, RendererType, BeganWith
  <2>4. Len(s.loop) > 0 /\ Len(s.loop) <= Len(r.loop)
    <3>1. Len(r.loop) \in Nat /\ Len(r.running) \in Nat /\ Len(s.loop) \in Nat
      BY <2>3
    <3>2. s.loop # <<>>
      BY <2>1
    <3>3. Len(s.loop) # 0
      BY <2>3, <3>2, EmptySeq
    <3>4. Len(s.loop) = Len(r.loop) - Len(r.running)
      BY <2>3 DEF Outer
    <3> DEFINE outer == Len(s.loop)
               all == Len(r.loop)
               own == Len(r.running)
    <3>5. outer \in Nat /\ all \in Nat /\ own \in Nat /\ outer # 0 /\ outer = all - own
      BY <3>1, <3>3, <3>4
    <3> HIDE DEF outer, all, own
    <3>6. outer > 0 /\ outer <= all
      BY <3>5
    <3> QED
      BY <3>6 DEF outer, all
  <2> HIDE DEF r, s
  <2>5. SubSeq(r.loop, 1, Len(s.loop)) = s.loop
    BY <2>3, <2>4
  <2> QED
    BY <2>3, <2>4, <2>5 DEF r, s
<1> QED
  BY <1>1, Invariance, PTL

-----------------------------------------------------------------------------
(* Expressions.  First, numbers are counted up to, and everything below a node  *)
(* of a tree is counted before it: what its meaning is.                         *)
LEMMA LeastElement ==
  ASSUME NEW S \in SUBSET Nat, S # {}
  PROVE  \E x \in S : \A y \in S : x <= y
<1>1. IsWellFoundedOn(OpToRel(<, Nat), Nat)
  BY NatLessThanWellFounded
<1>2. PICK x \in S : \A y \in S : ~ (<<y, x>> \in OpToRel(<, Nat))
  BY <1>1, WFMin
<1>3. \A y \in S : ~ (y < x)
  BY <1>2 DEF OpToRel
<1> QED
  BY <1>3

LEMMA CountingUp ==
  ASSUME NEW S \in SUBSET Nat, 0 \in S, \A n \in S : n + 1 \in S
  PROVE  S = Nat
<1>1. SUFFICES ASSUME Nat \ S # {} PROVE FALSE
  OBVIOUS
<1>2. PICK x \in Nat \ S : \A y \in Nat \ S : x <= y
  BY <1>1, LeastElement
<1>3. x - 1 \in S /\ (x - 1) + 1 = x
  BY <1>2
<1> QED
  BY <1>2, <1>3

LEMMA TreeFacts ==
  ASSUME NEW tree \in Trees
  PROVE  /\ Len(tree) \in Nat /\ Len(tree) >= 1 /\ DOMAIN tree = 1..Len(tree)
         /\ \A n \in 1..Len(tree) :
              /\ tree[n].op \in DOMAIN Arity /\ tree[n].name \in STRING /\ tree[n].value \in BOOLEAN
              /\ tree[n].op = "list" <=> n = Len(tree)
              /\ Len(tree[n].arguments) = Arity[tree[n].op]
              /\ Arity[tree[n].op] >= 1 => tree[n].arguments[1] \in 1..(n - 1)
              /\ Arity[tree[n].op] >= 2 => tree[n].arguments[2] \in 1..(n - 1)
              /\ tree[n].op = "." => tree[tree[n].arguments[2]].op = "data"
<1> DEFINE NodeType == [op : DOMAIN Arity, name : STRING, value : BOOLEAN, arguments : Seq(Nat)]
<1>1. tree \in Seq(NodeType) /\ tree # <<>>
  BY TreesAssumption DEF IsTree
<1>2. Len(tree) \in Nat /\ Len(tree) >= 1 /\ DOMAIN tree = 1..Len(tree)
  <2> HIDE DEF NodeType
  <2> QED BY <1>1
<1>3. ASSUME NEW n \in 1..Len(tree)
      PROVE  /\ tree[n].op \in DOMAIN Arity /\ tree[n].name \in STRING /\ tree[n].value \in BOOLEAN
             /\ tree[n].arguments \in Seq(Nat)
  <2>1. tree[n] \in NodeType
    <3> HIDE DEF NodeType
    <3> QED BY <1>1, <1>2, <1>3
  <2> QED BY <2>1
<1>4. ASSUME NEW n \in 1..Len(tree)
      PROVE  /\ tree[n].op = "list" <=> n = Len(tree)
             /\ Len(tree[n].arguments) = Arity[tree[n].op]
             /\ \A i \in 1..Len(tree[n].arguments) : tree[n].arguments[i] \in 1..(n - 1)
  <2>1. n \in DOMAIN tree
    BY <1>2, <1>4
  <2>2. DOMAIN tree[n].arguments = 1..Len(tree[n].arguments)
    BY <1>3, <1>4
  <2> QED BY <2>1, <2>2, TreesAssumption DEF IsTree
<1>5. ASSUME NEW n \in 1..Len(tree), tree[n].op = "."
      PROVE  tree[tree[n].arguments[2]].op = "data"
  BY <1>2, <1>5, TreesAssumption DEF Dots, Id
<1>6. ASSUME NEW n \in 1..Len(tree)
      PROVE  /\ Len(tree[n].arguments) \in Nat
             /\ Arity[tree[n].op] >= 1 => tree[n].arguments[1] \in 1..(n - 1)
             /\ Arity[tree[n].op] >= 2 => tree[n].arguments[2] \in 1..(n - 1)
  <2>1. Len(tree[n].arguments) \in Nat
    BY <1>3, <1>6
  <2> QED BY <1>4, <2>1
<1> HIDE DEF NodeType
<1> QED
  BY <1>2, <1>3, <1>4, <1>5, <1>6, Zenon

LEMMA SameArguments ==
  ASSUME NEW tree \in Trees, NEW data, NEW n \in 1..Len(tree), NEW f, NEW g,
         \A i \in 1..(n - 1) : f[i] = g[i]
  PROVE  ValueOf(tree, data, n, f) = ValueOf(tree, data, n, g)
<1> DEFINE op == tree[n].op  x == tree[n].arguments[1]  y == tree[n].arguments[2]
<1>1. op \in DOMAIN Arity
  BY TreeFacts
<1>2. Arity[op] >= 1 => f[x] = g[x]
  BY TreeFacts
<1>3. Arity[op] >= 2 => f[y] = g[y]
  BY TreeFacts
<1>4. CASE op \in {"data", "literal"}
  BY <1>4 DEF ValueOf
<1>5. CASE op \in {"not", "list"}
  <2>1. f[x] = g[x]
    BY <1>2, <1>5 DEF Arity, Leaves
  <2> QED BY <1>5, <2>1 DEF ValueOf
<1>6. CASE op \in {"and", "or", "==", "default", "."}
  <2>1. f[x] = g[x] /\ f[y] = g[y]
    BY <1>2, <1>3, <1>6 DEF Arity, Leaves
  <2> QED BY <2>1 DEF ValueOf
<1> QED
  BY <1>1, <1>4, <1>5, <1>6 DEF Arity

\* The meanings of the first N nodes.
IsMeaning(tree, data, N, f) == f = [n \in 1..N |-> ValueOf(tree, data, n, f)]

LEMMA MeaningsExist ==
  ASSUME NEW tree \in Trees, NEW data
  PROVE  IsMeaning(tree, data, Len(tree), Meanings(tree, data))
<1> DEFINE S == {N \in Nat : N <= Len(tree) => \E f : IsMeaning(tree, data, N, f)}
<1>1. 0 \in S
  <2>1. IsMeaning(tree, data, 0, [n \in 1..0 |-> 0])
    BY DEF IsMeaning
  <2> QED BY <2>1
<1>2. ASSUME NEW N \in S PROVE N + 1 \in S
  <2>1. SUFFICES ASSUME N + 1 <= Len(tree) PROVE \E g : IsMeaning(tree, data, N + 1, g)
    BY <1>2
  <2>2. PICK f : IsMeaning(tree, data, N, f)
    BY <1>2, <2>1, TreeFacts
  <2> DEFINE g == [n \in 1..(N + 1) |-> IF n = N + 1 THEN ValueOf(tree, data, N + 1, f) ELSE f[n]]
  <2>3. ASSUME NEW n \in 1..(N + 1)
        PROVE  g[n] = ValueOf(tree, data, n, g)
    <3>1. n \in 1..Len(tree) /\ \A i \in 1..(n - 1) : f[i] = g[i]
      BY <1>2, <2>1, <2>3, TreeFacts
    <3>2. ValueOf(tree, data, n, f) = ValueOf(tree, data, n, g)
      <4> HIDE DEF g
      <4> QED BY <3>1, SameArguments
    <3>3. g[n] = ValueOf(tree, data, n, f)
      BY <1>2, <2>2, <2>3 DEF IsMeaning
    <3> QED BY <3>2, <3>3
  <2>4. g = [n \in 1..(N + 1) |-> g[n]]
    OBVIOUS
  <2>5. IsMeaning(tree, data, N + 1, g)
    <3> HIDE DEF g
    <3> QED BY <2>3, <2>4 DEF IsMeaning
  <2> QED BY <2>5
<1>3. Len(tree) \in S
  <2> HIDE DEF S
  <2>1. S \in SUBSET Nat
    BY DEF S
  <2>2. S = Nat
    BY <1>1, <1>2, <2>1, CountingUp
  <2> QED BY <2>2, TreeFacts
<1>4. DOMAIN tree = 1..Len(tree) /\ \E f : IsMeaning(tree, data, Len(tree), f)
  BY <1>3, TreeFacts
<1> QED
  BY <1>4 DEF Meanings, IsMeaning

(* What each operator means. *)
Means(tree, data, n, m, v) ==
  LET op == tree[n].op
      a == m[tree[n].arguments[1]]
      b == m[tree[n].arguments[2]]
  IN  /\ op = "data" => v = IF tree[n].name \in DOMAIN data THEN data[tree[n].name] ELSE NullPointer
      /\ op = "literal" => v = Bool(tree[n].value)
      /\ op = "not" => v = Needs(a, Bool(~truthy(a)))
      /\ op = "and" => v = Needs(a, IF truthy(a) THEN Needs(b, Bool(truthy(b))) ELSE Bool(FALSE))
      /\ op = "or" => v = Needs(a, IF truthy(a) THEN Bool(TRUE) ELSE Needs(b, Bool(truthy(b))))
      /\ op = "==" => v = Both(a, b)
      /\ op = "default" => v = IF a = NullPointer THEN Needs(b, b) ELSE a
      /\ op = "." => v = IF a = NullPointer THEN NoContainer
                         ELSE Needs(a, IF Id(tree, n).name \in a.members THEN Bool(TRUE) ELSE Error)
      /\ op = "list" => v = Needs(a, a)

LEMMA MeaningFacts ==
  ASSUME NEW tree \in Trees, NEW data, NEW n \in 1..Len(tree)
  PROVE  Means(tree, data, n, Meanings(tree, data), Meanings(tree, data)[n])
<1> DEFINE m == Meanings(tree, data)
<1>1. m[n] = ValueOf(tree, data, n, m)
  <2>1. IsMeaning(tree, data, Len(tree), m)
    BY MeaningsExist
  <2> HIDE DEF m
  <2>2. m = [k \in 1..Len(tree) |-> ValueOf(tree, data, k, m)]
    BY <2>1 DEF IsMeaning
  <2> QED BY <2>2
<1> HIDE DEF m
<1>2. ASSUME NEW v, v = ValueOf(tree, data, n, m)
      PROVE  Means(tree, data, n, m, v)
  BY <1>2, Zenon DEF ValueOf, Means
<1> QED
  BY <1>1, <1>2 DEF m

-----------------------------------------------------------------------------
Stored == Jsons \cup {NullPointer}

LEMMA ValueTypes ==
  /\ \A v \in Jsons : v # NullPointer /\ v \notin Failures /\ truthy(v) \in BOOLEAN
  /\ \A b \in BOOLEAN : Bool(b) \in Jsons /\ truthy(Bool(b)) = b
  /\ NullPointer \notin Failures
<1> DEFINE Json == [type : {"boolean", "object"}, value : BOOLEAN, members : SUBSET STRING]
<1>1. \A b \in BOOLEAN : Bool(b) \in Json /\ truthy(Bool(b)) = b
  BY DEF Bool, truthy
<1>2. ASSUME NEW data \in Inputs, NEW name \in DOMAIN data PROVE data[name] \in Json
  BY InputsAssumption
<1>3. Jsons \subseteq Json
  <2> HIDE DEF Json
  <2> QED BY <1>1, <1>2 DEF Jsons
<1>4. \A v \in Json : v.type \in {"boolean", "object"} /\ truthy(v) \in BOOLEAN
  BY DEF truthy
<1>5. /\ NullPointer.type = "none" /\ Error.type = "error" /\ NoContainer.type = "null_container"
  BY DEF NullPointer, Error, NoContainer, Failure
<1>6. \A b \in BOOLEAN : Bool(b) \in Jsons
  BY DEF Jsons
<1> HIDE DEF Json
<1> QED
  BY <1>1, <1>3, <1>4, <1>5, <1>6 DEF Failures

LEMMA InputValues ==
  ASSUME NEW data \in Inputs, NEW name \in DOMAIN data
  PROVE  data[name] \in Jsons
BY DEF Jsons

LEMMA NeedsFacts ==
  /\ \A f \in Failures : \A v : Needs(f, v) = f
  /\ \A v : Needs(NullPointer, v) = Error
  /\ \A a \in Jsons : \A v : Needs(a, v) = v
BY ValueTypes DEF Needs

LEMMA BothFacts ==
  /\ \A f \in Failures : \A b : Both(f, b) = f
  /\ \A f \in Failures : \A a \in Stored : Both(a, f) = f
  /\ \A a, b \in Stored : a = NullPointer \/ b = NullPointer => Both(a, b) = Error
  /\ \A a, b \in Jsons : Both(a, b) = Bool(a = b)
<1>1. \A f \in Failures : \A b : Both(f, b) = f
  BY NeedsFacts, ValueTypes DEF Both
<1>2. ASSUME NEW f \in Failures, NEW a \in Stored PROVE Both(a, f) = f
  BY NeedsFacts, ValueTypes DEF Both, Stored
<1>3. ASSUME NEW a \in Stored, NEW b \in Stored, a = NullPointer \/ b = NullPointer
      PROVE  Both(a, b) = Error
  <2>1. b \notin Failures
    BY ValueTypes DEF Stored
  <2> QED BY <1>3, <2>1, NeedsFacts DEF Both, Stored
<1>4. ASSUME NEW a \in Jsons, NEW b \in Jsons PROVE Both(a, b) = Bool(a = b)
  BY NeedsFacts, ValueTypes DEF Both
<1> QED
  BY <1>1, <1>2, <1>3, <1>4

-----------------------------------------------------------------------------
(* What is known of a call; busy is 1 while its last argument is evaluated.    *)
CallType == [node : Nat, visited : Nat, taken : Seq(Stored)]

Arg(tree, c, i) == tree[c.node].arguments[i]

CallOK(tree, m, c, busy) ==
  LET op == tree[c.node].op
      a == m[Arg(tree, c, 1)]
      b == m[Arg(tree, c, 2)]
  IN  /\ c \in CallType /\ c.node \in 1..Len(tree) /\ op \in DOMAIN Arity \ Leaves
      /\ c.visited <= Arity[op] /\ Len(c.taken) + busy <= c.visited
      /\ c.visited - busy >= 1 => a \in Stored
      /\ c.visited - busy >= 2 => b \in Stored
      /\ op # "==" =>
           /\ Len(c.taken) >= c.visited - 1
           /\ Len(c.taken) >= 1 => c.taken[1] = a
           /\ Len(c.taken) = 2 => c.taken[2] = b
      /\ op = "==" =>
           /\ Len(c.taken) >= 1 => c.visited = 2 /\ busy = 0
           /\ Len(c.taken) = 1 => c.taken[1] = b
           /\ Len(c.taken) = 2 => c.taken[1] = a /\ c.taken[2] = b
      /\ Len(c.taken) >= 1 => op # "list" /\ (op \in {"default", "."} \/ c.taken[1] \in Jsons)
      /\ Len(c.taken) = 2 => op # "." /\ c.taken[2] \in Jsons
      /\ c.visited = 2 =>
           /\ op = "and" => truthy(c.taken[1])
           /\ op = "or" => ~truthy(c.taken[1])
           /\ op = "default" => c.taken[1] = NullPointer

(* Its values on data_eval_stack, above the first base. *)
Held(c, busy) == c.visited - Len(c.taken) - busy

Slice(tree, m, c, busy, evals_, base) ==
  \A i \in 1..Held(c, busy) :
    evals_[base + i] = m[Arg(tree, c, IF tree[c.node].op = "==" THEN i ELSE c.visited)]

(* The k-th of the calls cs, and those below it, which wait for the next.      *)
BusyOK(tree, m, cs, evals_, h, k) ==
  /\ CallOK(tree, m, cs[k], 1)
  /\ cs[k + 1].node = Arg(tree, cs[k], cs[k].visited)
  /\ h[k + 1] = h[k] + Held(cs[k], 1)
  /\ Slice(tree, m, cs[k], 1, evals_, h[k])

Under(tree, m, cs, evals_, h, k) ==
  /\ h \in [1..k -> Nat] /\ h[1] = 0
  /\ \A i, j \in 1..k : i <= j => h[i] <= h[j]
  /\ cs[1].node = Len(tree)
  /\ \A j \in 1..(k - 1) : BusyOK(tree, m, cs, evals_, h, j)

LEMMA CallTypes ==
  ASSUME NEW tree, NEW m, NEW c, NEW busy \in {0, 1}, CallOK(tree, m, c, busy)
  PROVE  /\ c.visited \in Nat /\ c.taken \in Seq(Stored) /\ Len(c.taken) \in Nat
         /\ c.visited \in {0, 1, 2} /\ Len(c.taken) \in {0, 1, 2} /\ Held(c, busy) \in Nat
<1>1. c.visited \in Nat /\ c.taken \in Seq(Stored)
  BY DEF CallOK, CallType
<1>2. Len(c.taken) \in Nat
  BY <1>1
<1>3. c.visited <= 2
  BY <1>1 DEF CallOK, Arity, Leaves
<1>4. Len(c.taken) + busy <= c.visited
  BY DEF CallOK
<1>5. c.visited \in {0, 1, 2}
  BY <1>1, <1>3
<1>7. Len(c.taken) \in {0, 1, 2}
  <2>1. \A l \in Nat, v \in {0, 1, 2} : l + busy <= v => l \in {0, 1, 2}
    OBVIOUS
  <2> QED BY <1>2, <1>4, <1>5, <2>1
<1>6. c.visited - Len(c.taken) - busy \in Nat
  BY <1>4, <1>5, <1>7
<1> QED
  BY <1>1, <1>2, <1>5, <1>6, <1>7 DEF Held

LEMMA UnderStays ==
  ASSUME NEW tree, NEW m, NEW cs, NEW es, NEW h, NEW k \in Nat, k >= 1, Under(tree, m, cs, es, h, k),
         NEW cs2, \A j \in 1..(k - 1) : cs2[j] = cs[j], cs2[k].node = cs[k].node,
         NEW es2, \A p \in 1..h[k] : es2[p] = es[p]
  PROVE  Under(tree, m, cs2, es2, h, k)
<1>1. ASSUME NEW j \in 1..(k - 1) PROVE BusyOK(tree, m, cs2, es2, h, j)
  <2>1. BusyOK(tree, m, cs, es, h, j) /\ CallOK(tree, m, cs[j], 1)
    BY DEF Under, BusyOK
  <2>2. j \in 1..k /\ j + 1 \in 1..k /\ k \in 1..k /\ j \in Nat
    OBVIOUS
  <2>3. h[j] \in Nat /\ h[j + 1] \in Nat /\ h[k] \in Nat /\ h[j + 1] <= h[k]
    BY <2>2 DEF Under
  <2>4. Held(cs[j], 1) \in Nat /\ h[j + 1] = h[j] + Held(cs[j], 1)
    BY <2>1, CallTypes DEF BusyOK
  <2>5. \A i \in 1..Held(cs[j], 1) : es2[h[j] + i] = es[h[j] + i]
    <3>1. \A i \in 1..Held(cs[j], 1) : h[j] + i \in 1..h[k]
      BY <2>3, <2>4
    <3> QED BY <3>1
  <2>6. cs2[j] = cs[j] /\ cs2[j + 1].node = cs[j + 1].node
    <3>1. j + 1 = k \/ j + 1 \in 1..(k - 1)
      BY <2>2
    <3> QED BY <3>1
  <2>7. Slice(tree, m, cs2[j], 1, es2, h[j])
    BY <2>1, <2>5, <2>6 DEF BusyOK, Slice
  <2> QED BY <2>1, <2>6, <2>7 DEF BusyOK
<1>2. cs2[1].node = Len(tree)
  <2>1. 1 = k \/ 1 \in 1..(k - 1)
    OBVIOUS
  <2> QED BY <2>1 DEF Under
<1> QED
  BY <1>1, <1>2 DEF Under

LEMMA UnderPush ==
  ASSUME NEW tree, NEW m, NEW cs, NEW es, NEW h, NEW k \in Nat, k >= 1, Under(tree, m, cs, es, h, k),
         CallOK(tree, m, cs[k], 1), Slice(tree, m, cs[k], 1, es, h[k]),
         NEW cs2, \A j \in 1..k : cs2[j] = cs[j], cs2[k + 1].node = Arg(tree, cs[k], cs[k].visited)
  PROVE  Under(tree, m, cs2, es, [j \in 1..(k + 1) |-> IF j = k + 1 THEN h[k] + Held(cs[k], 1) ELSE h[j]], k + 1)
<1> DEFINE g == [j \in 1..(k + 1) |-> IF j = k + 1 THEN h[k] + Held(cs[k], 1) ELSE h[j]]
<1>1. Held(cs[k], 1) \in Nat
  BY CallTypes
<1>2. \A j \in 1..k : h[j] \in Nat /\ h[j] <= h[k]
  BY DEF Under
<1>3. h[k] \in Nat
  BY <1>2
<1>4. /\ g[k + 1] = h[k] + Held(cs[k], 1) /\ \A j \in 1..k : g[j] = h[j]
  OBVIOUS
<1>5. \A j \in 1..(k + 1) : g[j] \in Nat
  BY <1>1, <1>2, <1>3
<1>6. g = [j \in 1..(k + 1) |-> g[j]]
  OBVIOUS
<1> HIDE DEF g
<1>7. g \in [1..(k + 1) -> Nat]
  BY <1>5, <1>6
<1>8. ASSUME NEW i \in 1..(k + 1), NEW j \in 1..(k + 1), i <= j PROVE g[i] <= g[j]
  <2>1. CASE j = k + 1 /\ i = k + 1
    BY <2>1, <1>5
  <2>2. CASE j = k + 1 /\ i # k + 1
    <3>1. i \in 1..k
      BY <2>2
    <3>2. g[i] <= h[k] /\ g[i] \in Nat
      BY <3>1, <1>2, <1>4
    <3> QED BY <2>2, <3>2, <1>1, <1>3, <1>4
  <2>3. CASE j # k + 1
    <3>1. i \in 1..k /\ j \in 1..k
      BY <1>8, <2>3
    <3> QED BY <1>8, <3>1, <1>4 DEF Under
  <2> QED BY <2>1, <2>2, <2>3
<1>9. ASSUME NEW j \in 1..((k + 1) - 1) PROVE BusyOK(tree, m, cs2, es, g, j)
  <2>1. CASE j = k
    BY <2>1, <1>4 DEF BusyOK
  <2>2. CASE j # k
    <3>1. j \in 1..(k - 1) /\ j \in 1..k /\ j + 1 \in 1..k
      BY <1>9, <2>2
    <3>2. cs2[j] = cs[j] /\ cs2[j + 1] = cs[j + 1] /\ g[j] = h[j] /\ g[j + 1] = h[j + 1]
      BY <3>1, <1>4
    <3> QED BY <3>1, <3>2 DEF Under, BusyOK
  <2> QED BY <2>1, <2>2
<1>10. cs2[1].node = Len(tree) /\ g[1] = 0
  BY <1>4 DEF Under
<1>11. Under(tree, m, cs2, es, g, k + 1)
  BY <1>7, <1>8, <1>9, <1>10 DEF Under
<1> QED
  BY <1>11 DEF g

LEMMA UnderPop ==
  ASSUME NEW tree, NEW m, NEW cs, NEW es, NEW h, NEW k \in Nat, k >= 2, Under(tree, m, cs, es, h, k),
         NEW cs2, \A j \in 1..(k - 1) : cs2[j] = cs[j]
  PROVE  /\ Under(tree, m, cs2, es, [j \in 1..(k - 1) |-> h[j]], k - 1)
         /\ BusyOK(tree, m, cs, es, h, k - 1)
<1> DEFINE g == [j \in 1..(k - 1) |-> h[j]]
<1>1. k - 1 \in 1..(k - 1) /\ 1 \in 1..(k - 1)
  OBVIOUS
<1>2. ASSUME NEW j \in 1..((k - 1) - 1) PROVE BusyOK(tree, m, cs2, es, g, j)
  <2>1. j \in 1..(k - 1) /\ j + 1 \in 1..(k - 1)
    OBVIOUS
  <2>2. cs2[j] = cs[j] /\ cs2[j + 1] = cs[j + 1] /\ g[j] = h[j] /\ g[j + 1] = h[j + 1]
    BY <2>1
  <2>3. BusyOK(tree, m, cs, es, h, j)
    BY <2>1 DEF Under
  <2> HIDE DEF g
  <2> QED BY <2>2, <2>3 DEF BusyOK
<1>3. \A j \in 1..(k - 1) : j \in 1..k /\ h[j] \in Nat /\ g[j] = h[j]
  BY DEF Under
<1>4. g \in [1..(k - 1) -> Nat]
  BY <1>3
<1>5. BusyOK(tree, m, cs, es, h, k - 1)
  BY <1>1 DEF Under
<1>6. g[1] = 0 /\ cs2[1].node = Len(tree)
  BY <1>1, <1>3 DEF Under
<1>7. \A i, j \in 1..(k - 1) : i <= j => g[i] <= g[j]
  <2> HIDE DEF g
  <2> QED BY <1>3 DEF Under
<1> HIDE DEF g
<1>8. Under(tree, m, cs2, es, g, k - 1)
  BY <1>2, <1>4, <1>6, <1>7 DEF Under
<1> QED
  BY <1>5, <1>8 DEF g

\* A failure of an argument is one of the function.
LEMMA BusyFails ==
  ASSUME NEW tree \in Trees, NEW data, NEW c, CallOK(tree, Meanings(tree, data), c, 1),
         NEW f \in Failures, Meanings(tree, data)[Arg(tree, c, c.visited)] = f,
         tree[Arg(tree, c, c.visited)].op \notin Leaves
  PROVE  Meanings(tree, data)[c.node] = f
<1> DEFINE m == Meanings(tree, data)
           op == tree[c.node].op
           a == m[tree[c.node].arguments[1]]
           b == m[tree[c.node].arguments[2]]
<1>1. c.node \in 1..Len(tree) /\ op \in {"not", "and", "or", "==", "default", ".", "list"}
  BY DEF CallOK, Arity, Leaves
<1>2. c.visited \in {1, 2} /\ Len(c.taken) \in {0, 1, 2} /\ c.visited <= Arity[op]
  <2>1. c.visited \in {0, 1, 2} /\ Len(c.taken) \in {0, 1, 2}
    BY CallTypes
  <2>2. Len(c.taken) + 1 <= c.visited /\ c.visited <= Arity[op]
    BY DEF CallOK
  <2> QED BY <2>1, <2>2
<1>3. f # NullPointer /\ f \notin Jsons
  BY ValueTypes
<1> HIDE DEF m
<1>6. Means(tree, data, c.node, m, m[c.node])
  BY <1>1, MeaningFacts DEF m
<1>4. CASE c.visited = 1
  <2>1. a = f
    BY <1>4 DEF Arg, m
  <2>2. (\E v : m[c.node] = Needs(a, v)) \/ m[c.node] = Both(a, b) \/ m[c.node] = a
    BY <1>1, <1>3, <1>6, <2>1 DEF Means
  <2> HIDE DEF a, b
  <2> QED BY <2>1, <2>2, NeedsFacts, BothFacts DEF m
<1>5. CASE c.visited = 2
  <2>1. b = f /\ a \in Stored
    BY <1>2, <1>5 DEF Arg, CallOK, m
  <2>2. op \in {"and", "or", "==", "default", "."}
    BY <1>1, <1>2, <1>5 DEF Arity, Leaves
  <2>3. op # "."
    BY <1>1, <1>5, TreeFacts DEF Arg, Leaves
  <2>4. Len(c.taken) + 1 <= 2 /\ (op # "==" => Len(c.taken) >= 1 /\ c.taken[1] = a)
    BY <1>2, <1>5 DEF CallOK, Arg, m
  <2>5. /\ op = "and" => a \in Jsons /\ truthy(a)
        /\ op = "or" => a \in Jsons /\ ~truthy(a)
        /\ op = "default" => a = NullPointer
    BY <1>5, <2>2, <2>4 DEF CallOK, m
  <2>6. CASE op = "and"
    <3>1. m[c.node] = Needs(a, Needs(b, Bool(truthy(b))))
      BY <1>6, <2>5, <2>6 DEF Means
    <3> QED BY <2>1, <2>5, <2>6, <3>1, NeedsFacts DEF m
  <2>7. CASE op = "or"
    <3>1. m[c.node] = Needs(a, Needs(b, Bool(truthy(b))))
      BY <1>6, <2>5, <2>7 DEF Means
    <3> QED BY <2>1, <2>5, <2>7, <3>1, NeedsFacts DEF m
  <2>8. CASE op = "=="
    <3>1. m[c.node] = Both(a, b)
      BY <1>6, <2>8 DEF Means
    <3> QED BY <2>1, <3>1, BothFacts DEF m
  <2>9. CASE op = "default"
    <3>1. m[c.node] = Needs(b, b)
      BY <1>6, <2>5, <2>9 DEF Means
    <3> QED BY <2>1, <3>1, NeedsFacts DEF m
  <2> QED BY <2>2, <2>3, <2>6, <2>7, <2>8, <2>9
<1> QED
  BY <1>2, <1>4, <1>5

LEMMA FailureClimbs ==
  ASSUME NEW tree \in Trees, NEW data, NEW cs, NEW es, NEW h, NEW k \in Nat, k >= 1,
         Under(tree, Meanings(tree, data), cs, es, h, k),
         NEW f \in Failures, Meanings(tree, data)[cs[k].node] = f,
         tree[cs[k].node].op \notin Leaves
  PROVE  Meaning(tree, data) = f
<1> DEFINE m == Meanings(tree, data)
           S == {n \in Nat : n < k => m[cs[k - n].node] = f}
<1>1. 0 \in S
  OBVIOUS
<1>2. ASSUME NEW n \in S PROVE n + 1 \in S
  <2>1. SUFFICES ASSUME n + 1 < k PROVE m[cs[k - (n + 1)].node] = f
    BY <1>2
  <2> DEFINE j == k - (n + 1)
  <2>2. j \in 1..(k - 1) /\ j + 1 = k - n /\ n < k
    BY <1>2, <2>1
  <2>3. BusyOK(tree, m, cs, es, h, j)
    BY <2>2 DEF Under
  <2>4. m[cs[j + 1].node] = f
    BY <1>2, <2>2
  <2>5. tree[cs[j + 1].node].op \notin Leaves
    <3>1. j + 1 = k \/ j + 1 \in 1..(k - 1)
      BY <2>2
    <3>2. ASSUME j + 1 \in 1..(k - 1) PROVE CallOK(tree, m, cs[j + 1], 1)
      BY <3>2 DEF Under, BusyOK
    <3> QED BY <3>1, <3>2 DEF CallOK
  <2> HIDE DEF j, m
  <2>6. cs[j + 1].node = Arg(tree, cs[j], cs[j].visited) /\ CallOK(tree, m, cs[j], 1)
    BY <2>3 DEF BusyOK
  <2>7. m[cs[j].node] = f
    BY <2>4, <2>5, <2>6, BusyFails DEF m
  <2> QED BY <2>7 DEF j
<1>3. k - 1 \in S
  <2> HIDE DEF S
  <2>1. S \in SUBSET Nat
    BY DEF S
  <2>2. S = Nat
    BY <1>1, <1>2, <2>1, CountingUp
  <2> QED BY <2>2
<1>4. m[cs[1].node] = f
  <2>1. k - 1 < k /\ k - (k - 1) = 1
    OBVIOUS
  <2> QED BY <1>3, <2>1
<1> QED
  BY <1>4 DEF Under, Meaning

-----------------------------------------------------------------------------
(* not_found_stack has a name for each null pointer on data_eval_stack.        *)
Nulls(es) == {p \in 1..Len(es) : es[p] = NullPointer}
Noted(es, names) == Len(names) = Cardinality(Nulls(es))

LEMMA NullsFinite ==
  ASSUME NEW es \in Seq(Stored)
  PROVE  IsFiniteSet(Nulls(es)) /\ Cardinality(Nulls(es)) \in Nat
<1>1. IsFiniteSet(1..Len(es))
  BY FS_Interval
<1>2. IsFiniteSet(Nulls(es))
  BY <1>1, FS_Subset DEF Nulls
<1> QED
  BY <1>2, FS_CardinalityType

LEMMA PushNoted ==
  ASSUME NEW es \in Seq(Stored), NEW names \in Seq(STRING), Noted(es, names)
  PROVE  /\ \A v \in Jsons : Noted(Append(es, v), names)
         /\ \A name : Noted(Append(es, NullPointer), Append(names, name))
<1>1. ASSUME NEW v \in Jsons PROVE Nulls(Append(es, v)) = Nulls(es)
  BY ValueTypes DEF Nulls, Stored
<1>2. /\ Nulls(Append(es, NullPointer)) = Nulls(es) \cup {Len(es) + 1}
      /\ Len(es) + 1 \notin Nulls(es)
  BY DEF Nulls, Stored
<1>3. Cardinality(Nulls(Append(es, NullPointer))) = Cardinality(Nulls(es)) + 1
  BY <1>2, NullsFinite, FS_AddElement
<1>4. \A name : Len(Append(names, name)) = Len(names) + 1
  OBVIOUS
<1> QED
  BY <1>1, <1>3, <1>4 DEF Noted

LEMMA PopFacts ==
  ASSUME NEW S, NEW s \in Seq(S), s # <<>>
  PROVE  /\ Len(s) \in Nat /\ Len(s) >= 1 /\ Pop(s) \in Seq(S) /\ Len(Pop(s)) = Len(s) - 1
         /\ \A p \in 1..(Len(s) - 1) : Pop(s)[p] = s[p]
<1>1. Len(s) \in Nat /\ Len(s) >= 1
  OBVIOUS
<1> DEFINE n == Len(s) - 1
<1>2. n \in Nat /\ \A i \in 1..n : s[i] \in S
  BY <1>1
<1> HIDE DEF n
<1>3. /\ SubSeq(s, 1, n) \in Seq(S)
      /\ Len(SubSeq(s, 1, n)) = IF 1 <= n THEN n - 1 + 1 ELSE 0
      /\ \A i \in 1..(n - 1 + 1) : SubSeq(s, 1, n)[i] = s[1 + i - 1]
  BY <1>2, SubSeqProperties
<1>4. /\ n - 1 + 1 = n /\ (IF 1 <= n THEN n - 1 + 1 ELSE 0) = n
      /\ \A i \in 1..n : 1 + i - 1 = i
  BY <1>2
<1>5. Len(SubSeq(s, 1, n)) = n /\ \A i \in 1..n : SubSeq(s, 1, n)[i] = s[i]
  BY <1>3, <1>4
<1> QED
  BY <1>1, <1>3, <1>5 DEF Pop, n

LEMMA PopNoted ==
  ASSUME NEW es \in Seq(Stored), es # <<>>, NEW names \in Seq(STRING), Noted(es, names)
  PROVE  /\ Last(es) # NullPointer => Noted(Pop(es), names)
         /\ Last(es) = NullPointer => names # <<>> /\ Noted(Pop(es), Pop(names))
         /\ Pop(es) \in Seq(Stored)
         /\ names # <<>> => Pop(names) \in Seq(STRING)
<1>1. /\ Len(es) \in Nat /\ Len(es) >= 1 /\ Pop(es) \in Seq(Stored) /\ Len(Pop(es)) = Len(es) - 1
      /\ \A p \in 1..(Len(es) - 1) : Pop(es)[p] = es[p]
  BY PopFacts
<1>2. names # <<>> => Pop(names) \in Seq(STRING) /\ Len(Pop(names)) = Len(names) - 1
  BY PopFacts
<1>3. CASE Last(es) # NullPointer
  <2>1. Nulls(Pop(es)) = Nulls(es)
    BY <1>1, <1>3 DEF Nulls, Last
  <2> QED BY <1>1, <1>2, <1>3, <2>1 DEF Noted
<1>4. CASE Last(es) = NullPointer
  <2>1. /\ Nulls(Pop(es)) = Nulls(es) \ {Len(es)}
        /\ Len(es) \in Nulls(es)
    BY <1>1, <1>4 DEF Nulls, Last
  <2>2. Cardinality(Nulls(Pop(es))) = Cardinality(Nulls(es)) - 1
    BY <2>1, NullsFinite, FS_RemoveElement
  <2>3. Cardinality(Nulls(Pop(es))) \in Nat
    BY <1>1, NullsFinite
  <2>4. Len(names) >= 1
    BY <2>2, <2>3, NullsFinite DEF Noted
  <2>5. names # <<>>
    BY <2>4
  <2> QED BY <1>1, <1>2, <1>4, <2>2, <2>5 DEF Noted
<1> QED
  BY <1>3, <1>4

-----------------------------------------------------------------------------
(* The three stacks together.                                                  *)
KnowsId(tree, c, names) ==
  tree[c.node].op = "." /\ c.visited = 2 => names # <<>> /\ Last(names) = Id(tree, c.node).name

Fitted(tree, m, cs, es, names, h) ==
  LET k == Len(cs) IN
  /\ cs \in Seq(CallType) /\ k >= 1 /\ es \in Seq(Stored) /\ names \in Seq(STRING)
  /\ Under(tree, m, cs, es, h, k)
  /\ CallOK(tree, m, cs[k], 0)
  /\ Len(es) = h[k] + Held(cs[k], 0)
  /\ Slice(tree, m, cs[k], 0, es, h[k])
  /\ Noted(es, names)
  /\ KnowsId(tree, cs[k], names)

\* The innermost call goes on.
LEMMA TopChanges ==
  ASSUME NEW tree, NEW m, NEW cs, NEW es, NEW names, NEW h, Fitted(tree, m, cs, es, names, h),
         NEW c, c.node = cs[Len(cs)].node, CallOK(tree, m, c, 0),
         NEW es2 \in Seq(Stored), \A p \in 1..h[Len(cs)] : es2[p] = es[p],
         Len(es2) = h[Len(cs)] + Held(c, 0), Slice(tree, m, c, 0, es2, h[Len(cs)]),
         NEW names2 \in Seq(STRING), Noted(es2, names2), KnowsId(tree, c, names2)
  PROVE  Fitted(tree, m, [cs EXCEPT ![Len(cs)] = c], es2, names2, h)
<1> DEFINE cs2 == [cs EXCEPT ![Len(cs)] = c]  k == Len(cs)
<1>1. k \in Nat /\ k >= 1 /\ c \in CallType /\ cs \in Seq(CallType)
  BY DEF Fitted, CallOK
<1>2. /\ cs2 \in Seq(CallType) /\ Len(cs2) = k /\ cs2[k] = c
      /\ \A j \in 1..(k - 1) : cs2[j] = cs[j]
  BY <1>1
<1> HIDE DEF cs2
<1>3. Under(tree, m, cs2, es2, h, k)
  BY <1>1, <1>2, UnderStays DEF Fitted
<1>4. Fitted(tree, m, cs2, es2, names2, h)
  BY <1>1, <1>2, <1>3 DEF Fitted
<1> QED
  BY <1>4 DEF cs2

\* It calls another.
LEMMA TopCalls ==
  ASSUME NEW tree, NEW m, NEW cs, NEW es, NEW names, NEW h, Fitted(tree, m, cs, es, names, h),
         NEW c, c.node = cs[Len(cs)].node, CallOK(tree, m, c, 1), Held(c, 1) = Held(cs[Len(cs)], 0),
         Slice(tree, m, c, 1, es, h[Len(cs)]),
         NEW n \in 1..Len(tree), n = Arg(tree, c, c.visited), tree[n].op \in DOMAIN Arity \ Leaves
  PROVE  \E h2 : Fitted(tree, m, Append([cs EXCEPT ![Len(cs)] = c], Call(n)), es, names, h2)
<1> DEFINE k == Len(cs)  cs1 == [cs EXCEPT ![k] = c]  cs2 == Append(cs1, Call(n))
           g == [j \in 1..(k + 1) |-> IF j = k + 1 THEN h[k] + Held(c, 1) ELSE h[j]]
<1>1. k \in Nat /\ k >= 1 /\ c \in CallType /\ cs \in Seq(CallType)
  BY DEF Fitted, CallOK
<1>2. Call(n).taken \in Seq(Stored) /\ Len(Call(n).taken) = 0 /\ Call(n).visited = 0 /\ Call(n).node = n
  BY DEF Call
<1>3. Call(n) \in CallType
  <2>1. <<>> \in Seq(Stored)
    OBVIOUS
  <2> QED BY <2>1 DEF Call, CallType
<1>4. /\ cs1 \in Seq(CallType) /\ Len(cs1) = k /\ cs1[k] = c
      /\ \A j \in 1..(k - 1) : cs1[j] = cs[j]
  BY <1>1
<1> HIDE DEF cs1
<1>5. /\ cs2 \in Seq(CallType) /\ Len(cs2) = k + 1 /\ cs2[k + 1] = Call(n)
      /\ \A j \in 1..k : cs2[j] = cs1[j]
  BY <1>1, <1>3, <1>4
<1> HIDE DEF cs2
<1>6. Under(tree, m, cs1, es, h, k)
  BY <1>1, <1>4, UnderStays DEF Fitted
<1>7. Under(tree, m, cs2, es, g, k + 1)
  <2>1. CallOK(tree, m, cs1[k], 1) /\ Slice(tree, m, cs1[k], 1, es, h[k])
    BY <1>4
  <2>2. cs2[k + 1].node = Arg(tree, cs1[k], cs1[k].visited)
    BY <1>2, <1>4, <1>5
  <2>3. Under(tree, m, cs2, es,
              [j \in 1..(k + 1) |-> IF j = k + 1 THEN h[k] + Held(cs1[k], 1) ELSE h[j]], k + 1)
    BY <1>1, <1>5, <1>6, <2>1, <2>2, UnderPush, SMTT(20)
  <2> QED BY <1>4, <2>3
<1>8. g[k + 1] = Len(es)
  BY <1>1 DEF Fitted
<1> HIDE DEF g
<1>9. CallOK(tree, m, Call(n), 0) /\ Held(Call(n), 0) = 0
  <2>1. Arity[tree[n].op] >= 0
    BY DEF Arity
  <2> QED BY <1>2, <1>3, <2>1 DEF CallOK, Held
<1>10. Slice(tree, m, Call(n), 0, es, g[k + 1]) /\ KnowsId(tree, Call(n), names)
  BY <1>2, <1>9 DEF Slice, KnowsId
<1>11. Len(es) = g[k + 1] + 0
  <2>1. Len(es) \in Nat
    BY DEF Fitted
  <2> QED BY <1>8, <2>1
<1>12. es \in Seq(Stored) /\ names \in Seq(STRING) /\ Noted(es, names) /\ k + 1 >= 1
  BY <1>1 DEF Fitted
<1>13. Fitted(tree, m, cs2, es, names, g)
  BY <1>5, <1>7, <1>9, <1>10, <1>11, <1>12 DEF Fitted
<1> QED
  BY <1>13 DEF cs2, cs1

\* The argument that was being evaluated has a value, or is missing.
LEMMA ArgumentDone ==
  ASSUME NEW tree, NEW m, NEW c, CallOK(tree, m, c, 1), m[Arg(tree, c, c.visited)] \in Stored
  PROVE  CallOK(tree, m, c, 0) /\ Held(c, 0) = Held(c, 1) + 1
<1>1. c.visited \in {0, 1, 2} /\ Len(c.taken) \in {0, 1, 2} /\ Len(c.taken) + 1 <= c.visited
  BY CallTypes DEF CallOK
<1>2. CASE c.visited = 1
  BY <1>1, <1>2 DEF CallOK, Held
<1>3. CASE c.visited = 2
  BY <1>1, <1>3 DEF CallOK, Held
<1> QED
  BY <1>1, <1>2, <1>3

\* It returns.
LEMMA TopReturns ==
  ASSUME NEW tree \in Trees, NEW m, NEW cs, NEW es, NEW names, NEW h, Fitted(tree, m, cs, es, names, h),
         tree[cs[Len(cs)].node].op # "list", m[cs[Len(cs)].node] \in Jsons,
         NEW es2 \in Seq(Stored), \A p \in 1..h[Len(cs)] : es2[p] = es[p],
         Len(es2) = h[Len(cs)] + 1, es2[Len(es2)] = m[cs[Len(cs)].node],
         NEW names2 \in Seq(STRING), Noted(es2, names2)
  PROVE  \E h2 : Fitted(tree, m, Pop(cs), es2, names2, h2)
<1> DEFINE k == Len(cs)  cs2 == Pop(cs)  c == cs[k - 1]  g == [j \in 1..(k - 1) |-> h[j]]
<1>1. k \in Nat /\ k >= 1 /\ cs \in Seq(CallType) /\ Under(tree, m, cs, es, h, k)
  BY DEF Fitted
<1>2. k >= 2
  <2>1. k = 1 => cs[k].node = Len(tree)
    BY <1>1 DEF Under
  <2>2. cs[k].node \in 1..Len(tree)
    BY DEF Fitted, CallOK
  <2>3. Len(tree) \in 1..Len(tree) /\ tree[Len(tree)].op = "list"
    BY TreeFacts
  <2>4. k # 1
    BY <2>1, <2>3
  <2>5. \A i \in Nat : i >= 1 /\ i # 1 => i >= 2
    OBVIOUS
  <2> QED BY <1>1, <2>4, <2>5
<1>3. /\ cs2 \in Seq(CallType) /\ Len(cs2) = k - 1
      /\ \A j \in 1..(k - 1) : cs2[j] = cs[j]
  BY <1>1, <1>2 DEF Pop
<1>4. h[k] \in Nat
  BY <1>1, <1>2 DEF Under
<1>5. Under(tree, m, cs, es2, h, k)
  BY <1>1, UnderStays
<1>6. Under(tree, m, cs2, es2, g, k - 1) /\ BusyOK(tree, m, cs, es2, h, k - 1)
  <2> HIDE DEF cs2
  <2> QED BY <1>1, <1>2, <1>3, <1>5, UnderPop
<1>7. g[k - 1] = h[k - 1] /\ cs2[k - 1] = c
  BY <1>1, <1>2, <1>3
<1> HIDE DEF g, cs2
<1>8. (k - 1) + 1 = k
  BY <1>1
<1>9. /\ CallOK(tree, m, c, 1) /\ cs[k].node = Arg(tree, c, c.visited)
      /\ h[k] = h[k - 1] + Held(c, 1) /\ Slice(tree, m, c, 1, es2, h[k - 1])
  BY <1>6, <1>8 DEF BusyOK
<1> HIDE DEF c
<1>10. CallOK(tree, m, c, 0) /\ Held(c, 0) = Held(c, 1) + 1
  BY <1>9, ArgumentDone DEF Stored
<1>11. Held(c, 1) \in Nat /\ c.visited \in Nat /\ Len(c.taken) \in Nat
  BY <1>9, CallTypes
<1>12. h[k - 1] \in Nat
  <2>1. k - 1 \in 1..k
    BY <1>1, <1>2
  <2> QED BY <1>1, <2>1 DEF Under
<1>13. Len(es2) = h[k - 1] + Held(c, 0)
  <2>1. \A base, held \in Nat : base + held + 1 = base + (held + 1)
    OBVIOUS
  <2>2. Len(es2) = h[k - 1] + Held(c, 1) + 1
    BY <1>9
  <2> QED BY <1>10, <1>11, <1>12, <2>1, <2>2
<1>14. Slice(tree, m, c, 0, es2, h[k - 1])
  <2>1. SUFFICES ASSUME NEW i \in 1..Held(c, 0)
        PROVE  es2[h[k - 1] + i] = m[Arg(tree, c, IF tree[c.node].op = "==" THEN i ELSE c.visited)]
    BY DEF Slice
  <2>2. CASE i \in 1..Held(c, 1)
    BY <1>9, <2>2 DEF Slice
  <2>3. CASE i = Held(c, 0)
    <3>1. es2[h[k - 1] + i] = m[Arg(tree, c, c.visited)]
      BY <1>9, <1>13, <2>3
    <3>2. tree[c.node].op = "==" => i = c.visited
      <4>1. tree[c.node].op = "==" => ~(Len(c.taken) >= 1)
        BY <1>9 DEF CallOK
      <4> QED BY <1>11, <2>3, <4>1 DEF Held
    <3> QED BY <3>1, <3>2
  <2> QED BY <1>10, <1>11, <2>2, <2>3
<1>15. KnowsId(tree, c, names2)
  <2>1. tree[cs[k].node].op \notin Leaves /\ c.node \in 1..Len(tree)
    BY <1>9 DEF Fitted, CallOK
  <2> QED BY <1>9, <2>1, TreeFacts DEF KnowsId, Arg, Leaves
<1>16. Fitted(tree, m, cs2, es2, names2, g)
  BY <1>1, <1>2, <1>3, <1>6, <1>7, <1>10, <1>13, <1>14, <1>15 DEF Fitted
<1> QED
  BY <1>16 DEF cs2

\* The innermost call returns v, the value of its node, on what was there before it.
LEMMA TopReturnsValue ==
  ASSUME NEW tree \in Trees, NEW m, NEW cs, NEW es, NEW names, NEW h, Fitted(tree, m, cs, es, names, h),
         NEW v \in Jsons, tree[cs[Len(cs)].node].op # "list", v = m[cs[Len(cs)].node], h[Len(cs)] \in Nat,
         NEW below \in Seq(Stored), Len(below) = h[Len(cs)],
         \A p \in 1..h[Len(cs)] : below[p] = es[p],
         NEW names2 \in Seq(STRING), Noted(below, names2)
  PROVE  \E h2 : Fitted(tree, m, Pop(cs), Append(below, v), names2, h2)
<1> DEFINE k == h[Len(cs)]  es2 == Append(below, v)
<1>1. v \in Stored
  BY DEF Stored
<1> HIDE DEF k
<1>2. k \in Nat /\ Len(below) = k
  BY DEF k
<1>3. /\ es2 \in Seq(Stored) /\ Len(es2) = k + 1 /\ es2[Len(es2)] = v
      /\ \A p \in 1..k : es2[p] = below[p]
  BY <1>1, <1>2
<1>4. Noted(es2, names2)
  BY PushNoted
<1> HIDE DEF es2
<1>5. \A p \in 1..h[Len(cs)] : es2[p] = es[p]
  BY <1>3 DEF k
<1>6. Len(es2) = h[Len(cs)] + 1 /\ es2[Len(es2)] = m[cs[Len(cs)].node] /\ m[cs[Len(cs)].node] \in Jsons
  BY <1>3 DEF k
<1>7. \E h2 : Fitted(tree, m, Pop(cs), es2, names2, h2)
  BY <1>3, <1>4, <1>5, <1>6, TopReturns
<1> QED
  BY <1>7 DEF es2

-----------------------------------------------------------------------------
(* What an action finds and does, of the innermost call c alone.               *)

LEMMA VisitingCall ==
  ASSUME NEW tree \in Trees, NEW m, NEW c, CallOK(tree, m, c, 0), NEW es, NEW base,
         c.visited < Arity[tree[c.node].op], ~Decided(tree[c.node].op, c.taken),
         tree[c.node].op = "==" \/ c.visited = Len(c.taken),
         NEW c2, c2 = [c EXCEPT !.visited = @ + 1], Slice(tree, m, c, 0, es, base)
  PROVE  /\ c2.node = c.node /\ c2.visited = c.visited + 1 /\ c2.taken = c.taken
         /\ CallOK(tree, m, c2, 1) /\ Held(c2, 1) = Held(c, 0) /\ Held(c, 0) \in Nat
         /\ Slice(tree, m, c2, 1, es, base)
         /\ Arg(tree, c, c2.visited) \in 1..(c.node - 1)
<1> DEFINE op == tree[c.node].op
<1>1. /\ c \in CallType /\ c.visited \in {0, 1, 2} /\ Len(c.taken) \in {0, 1, 2} /\ Held(c, 0) \in Nat
      /\ Len(c.taken) <= c.visited /\ c.node \in 1..Len(tree)
  <2>1. Len(c.taken) + 0 <= c.visited /\ c \in CallType /\ c.node \in 1..Len(tree)
    BY DEF CallOK
  <2> QED BY <2>1, CallTypes
<1>2. c2 \in CallType /\ c2.node = c.node /\ c2.visited = c.visited + 1 /\ c2.taken = c.taken
  BY <1>1 DEF CallType
<1>3. Arity[op] \in {1, 2} /\ op \in DOMAIN Arity
  BY DEF CallOK, Arity, Leaves
<1>4. Held(c2, 1) = Held(c, 0)
  BY <1>1, <1>2 DEF Held
<1>5. IF op = "==" THEN Len(c.taken) = 0 ELSE Len(c.taken) = c.visited
  <2>1. CASE op = "=="
    <3>1. ~(Len(c.taken) >= 1)
      <4>1. Len(c.taken) >= 1 => c.visited = 2
        BY <2>1 DEF CallOK
      <4> QED BY <1>1, <1>3, <4>1
    <3> QED BY <1>1, <2>1, <3>1
  <2> QED BY <2>1
<1>6. CallOK(tree, m, c2, 1)
  <2> DEFINE a == m[Arg(tree, c, 1)]  b == m[Arg(tree, c, 2)]
  <2>1. c2.visited <= Arity[op] /\ Len(c2.taken) + 1 <= c2.visited
    BY <1>1, <1>2, <1>3, <1>5
  <2>2. c2.visited - 1 >= 1 => a \in Stored
    BY <1>1, <1>2 DEF CallOK
  <2>3. ~(c2.visited - 1 >= 2)
    BY <1>1, <1>2, <1>3
  <2>4. op # "==" =>
           /\ Len(c2.taken) >= c2.visited - 1
           /\ Len(c2.taken) >= 1 => c2.taken[1] = a
           /\ ~(Len(c2.taken) = 2)
    BY <1>1, <1>2, <1>3, <1>5 DEF CallOK
  <2>5. op = "==" => Len(c2.taken) = 0
    BY <1>2, <1>5
  <2>6. Len(c2.taken) >= 1 => op # "list" /\ (op \in {"default", "."} \/ c2.taken[1] \in Jsons)
    BY <1>2 DEF CallOK
  <2>7. ~(Len(c2.taken) = 2)
    BY <2>4, <2>5
  <2>8. c2.visited = 2 /\ op \in {"and", "or", "default"} => Len(c.taken) = 1
    <3>1. op \in {"and", "or", "default"} => Len(c.taken) = c.visited
      BY <1>5
    <3>2. c2.visited = 2 => c.visited = 1
      BY <1>1, <1>2
    <3> QED BY <3>1, <3>2
  <2>9. c2.visited = 2 =>
           /\ op = "and" => truthy(c2.taken[1])
           /\ op = "or" => ~truthy(c2.taken[1])
           /\ op = "default" => c2.taken[1] = NullPointer
    BY <1>2, <2>8 DEF Decided
  <2>10. op \in DOMAIN Arity \ Leaves
    BY DEF CallOK
  <2> QED BY <1>1, <1>2, <2>1, <2>2, <2>3, <2>4, <2>5, <2>6, <2>7, <2>9, <2>10 DEF CallOK, Arg
<1>7. Slice(tree, m, c2, 1, es, base)
  <2>1. CASE op = "=="
    BY <1>2, <1>4, <2>1 DEF Slice, Arg
  <2>2. CASE op # "=="
    <3>1. Held(c2, 1) = 0
      BY <1>1, <1>4, <1>5, <2>2 DEF Held
    <3> QED BY <3>1 DEF Slice
  <2> QED BY <2>1, <2>2
<1>8. Arg(tree, c, c2.visited) \in 1..(c.node - 1)
  <2>1. c2.visited \in {1, 2} /\ c2.visited <= Arity[op]
    BY <1>1, <1>2, <1>3
  <2> QED BY <1>1, <1>3, <2>1, TreeFacts DEF Arg
<1> QED
  BY <1>1, <1>2, <1>4, <1>6, <1>7, <1>8

\* A function that has what it needs.
LEMMA DecidedCall ==
  ASSUME NEW tree \in Trees, NEW data, NEW c, CallOK(tree, Meanings(tree, data), c, 0),
         tree[c.node].op \notin {".", "list"}, Decided(tree[c.node].op, c.taken)
  PROVE  /\ Held(c, 0) = 0
         /\ Result(tree[c.node].op, c.taken) = Meanings(tree, data)[c.node]
         /\ Result(tree[c.node].op, c.taken) \in Jsons
<1> DEFINE m == Meanings(tree, data)
           op == tree[c.node].op
           a == m[tree[c.node].arguments[1]]
           b == m[tree[c.node].arguments[2]]
<1>1. c.node \in 1..Len(tree) /\ op \in {"not", "and", "or", "==", "default"}
  BY DEF CallOK, Arity, Leaves
<1>2. /\ c.visited \in {0, 1, 2} /\ Len(c.taken) \in {0, 1, 2}
      /\ Len(c.taken) <= c.visited /\ c.visited <= Arity[op]
  <2>1. Len(c.taken) + 0 <= c.visited /\ c.visited <= Arity[op]
    BY DEF CallOK
  <2> QED BY <2>1, CallTypes
<1> HIDE DEF m
<1>3. Means(tree, data, c.node, m, m[c.node])
  BY <1>1, MeaningFacts DEF m
<1>4. CallOK(tree, m, c, 0)
  BY DEF m
<1>5. op # "==" =>
        /\ Len(c.taken) >= 1 => c.taken[1] = a
        /\ Len(c.taken) = 2 => c.taken[2] = b
  BY <1>4 DEF CallOK, Arg
<1>6. /\ Len(c.taken) >= 1 /\ op # "default" => c.taken[1] \in Jsons
      /\ Len(c.taken) = 2 => c.taken[2] \in Jsons
  BY <1>1, <1>4 DEF CallOK
<1>7. c.visited = 2 =>
        /\ op = "and" => truthy(c.taken[1])
        /\ op = "or" => ~truthy(c.taken[1])
        /\ op = "default" => c.taken[1] = NullPointer
  BY <1>4 DEF CallOK
<1>8. Arity[op] = IF op = "not" THEN 1 ELSE 2
  BY <1>1 DEF Arity, Leaves
<1>9. \/ Len(c.taken) = Arity[op]
      \/ Len(c.taken) = 1 /\ op = "and" /\ ~truthy(c.taken[1])
      \/ Len(c.taken) = 1 /\ op = "or" /\ truthy(c.taken[1])
      \/ Len(c.taken) = 1 /\ op = "default" /\ c.taken[1] # NullPointer
  BY DEF Decided
<1>10. Len(c.taken) = c.visited /\ Len(c.taken) \in {1, 2}
  BY <1>2, <1>7, <1>8, <1>9
<1>11. Held(c, 0) = 0
  BY <1>2, <1>10 DEF Held
<1> DEFINE v == Result(op, c.taken)
<1>12. CASE op = "not"
  <2>1. Len(c.taken) = 1 /\ c.taken[1] = a /\ a \in Jsons
    BY <1>2, <1>5, <1>6, <1>8, <1>10, <1>12
  <2>2. v = Bool(~truthy(a)) /\ m[c.node] = Needs(a, Bool(~truthy(a)))
    BY <1>3, <1>12, <2>1 DEF Result, Means
  <2> QED BY <1>11, <2>1, <2>2, NeedsFacts, ValueTypes DEF m
<1>13. CASE op = "and"
  <2>1. c.taken[1] = a /\ a \in Jsons /\ v = Bool(truthy(c.taken[Len(c.taken)]))
    BY <1>5, <1>6, <1>10, <1>13 DEF Result, Last
  <2>2. m[c.node] = Needs(a, IF truthy(a) THEN Needs(b, Bool(truthy(b))) ELSE Bool(FALSE))
    BY <1>3, <1>13 DEF Means
  <2>3. m[c.node] = IF truthy(a) THEN Needs(b, Bool(truthy(b))) ELSE Bool(FALSE)
    BY <2>1, <2>2, NeedsFacts
  <2>4. CASE Len(c.taken) = 2
    <3>1. b = c.taken[2] /\ b \in Jsons /\ truthy(a)
      BY <1>5, <1>6, <1>7, <1>10, <1>13, <2>1, <2>4
    <3> QED BY <1>11, <2>1, <2>3, <2>4, <3>1, NeedsFacts, ValueTypes DEF m
  <2>5. CASE Len(c.taken) = 1
    <3>1. ~truthy(a)
      BY <1>8, <1>9, <1>13, <2>1, <2>5
    <3>2. truthy(a) = FALSE
      BY <2>1, <3>1, ValueTypes
    <3> QED BY <1>11, <2>1, <2>3, <2>5, <3>2, ValueTypes DEF m
  <2> QED BY <1>10, <2>4, <2>5
<1>14. CASE op = "or"
  <2>1. c.taken[1] = a /\ a \in Jsons /\ v = Bool(truthy(c.taken[Len(c.taken)]))
    BY <1>5, <1>6, <1>10, <1>14 DEF Result, Last
  <2>2. m[c.node] = Needs(a, IF truthy(a) THEN Bool(TRUE) ELSE Needs(b, Bool(truthy(b))))
    BY <1>3, <1>14 DEF Means
  <2>3. m[c.node] = IF truthy(a) THEN Bool(TRUE) ELSE Needs(b, Bool(truthy(b)))
    BY <2>1, <2>2, NeedsFacts
  <2>4. CASE Len(c.taken) = 2
    <3>1. b = c.taken[2] /\ b \in Jsons /\ ~truthy(a)
      BY <1>5, <1>6, <1>7, <1>10, <1>14, <2>1, <2>4
    <3> QED BY <1>11, <2>1, <2>3, <2>4, <3>1, NeedsFacts, ValueTypes DEF m
  <2>5. CASE Len(c.taken) = 1
    <3>1. truthy(a)
      BY <1>8, <1>9, <1>14, <2>1, <2>5
    <3>2. truthy(a) = TRUE
      BY <2>1, <3>1, ValueTypes
    <3> QED BY <1>11, <2>1, <2>3, <2>5, <3>2, ValueTypes DEF m
  <2> QED BY <1>10, <2>4, <2>5
<1>15. CASE op = "=="
  <2>1. Len(c.taken) = 2
    BY <1>8, <1>9, <1>15
  <2>2. c.taken[1] = a /\ c.taken[2] = b
    BY <1>4, <1>15, <2>1 DEF CallOK, Arg
  <2>3. a \in Jsons /\ b \in Jsons
    BY <1>6, <1>15, <2>1, <2>2
  <2>4. v = Bool(a = b) /\ m[c.node] = Both(a, b)
    BY <1>3, <1>15, <2>2 DEF Result, Means
  <2>5. m[c.node] = Bool(a = b) /\ (a = b) \in BOOLEAN
    BY <2>3, <2>4, BothFacts
  <2> QED BY <1>11, <2>4, <2>5, ValueTypes DEF m
<1>16. CASE op = "default"
  <2>1. c.taken[1] = a /\ v = c.taken[Len(c.taken)]
    BY <1>5, <1>10, <1>16 DEF Result, Last
  <2>2. m[c.node] = IF a = NullPointer THEN Needs(b, b) ELSE a
    BY <1>3, <1>16 DEF Means
  <2>3. CASE Len(c.taken) = 2
    <3>1. b = c.taken[2] /\ b \in Jsons /\ a = NullPointer
      BY <1>5, <1>6, <1>7, <1>10, <1>16, <2>1, <2>3
    <3> QED BY <1>11, <2>1, <2>2, <2>3, <3>1, NeedsFacts DEF m
  <2>4. CASE Len(c.taken) = 1
    <3>1. a # NullPointer /\ c.visited = 1
      BY <1>8, <1>9, <1>10, <1>16, <2>1, <2>4
    <3>2. a \in Stored
      BY <1>4, <3>1 DEF CallOK, Arg
    <3> QED BY <1>11, <2>1, <2>2, <2>4, <3>1, <3>2 DEF m, Stored
  <2> QED BY <1>10, <2>3, <2>4
<1> QED
  BY <1>1, <1>12, <1>13, <1>14, <1>15, <1>16

(* The value v that c takes off data_eval_stack, as c2 then has it. *)
AsTaken(op, c, v) == [c EXCEPT !.taken = IF op = "==" THEN <<v>> \o @ ELSE Append(@, v)]

MayMiss(op, c) == op \in {"default", "."} /\ c.visited = 1

Takes(tree, m, c, c2, v, es, base) ==
  LET op == tree[c.node].op IN
  /\ Held(c, 0) \in Nat /\ Held(c, 0) >= 1 /\ Len(es) >= 1 /\ v \in Stored
  /\ c2.node = c.node
  /\ v # NullPointer \/ MayMiss(op, c) =>
       /\ CallOK(tree, m, c2, 0) /\ Held(c2, 0) = Held(c, 0) - 1
       /\ Slice(tree, m, c2, 0, es, base)
       /\ ~(op = "." /\ c2.visited = 2)
  /\ v = NullPointer /\ ~MayMiss(op, c) => m[c.node] = Error

LEMMA TakingCall ==
  ASSUME NEW tree \in Trees, NEW data, NEW c, CallOK(tree, Meanings(tree, data), c, 0),
         NEW es \in Seq(Stored), NEW base \in Nat, Len(es) = base + Held(c, 0),
         Slice(tree, Meanings(tree, data), c, 0, es, base),
         tree[c.node].op # "list", c.visited > Len(c.taken),
         tree[c.node].op = "==" => c.visited = 2, ~(tree[c.node].op = "." /\ c.visited = 2)
  PROVE  Takes(tree, Meanings(tree, data), c, AsTaken(tree[c.node].op, c, Last(es)), Last(es), es, base)
<1> DEFINE v == Last(es)  c2 == AsTaken(tree[c.node].op, c, Last(es))
           m == Meanings(tree, data)
           op == tree[c.node].op
           a == m[tree[c.node].arguments[1]]
           b == m[tree[c.node].arguments[2]]
<1>1. /\ c.visited \in {1, 2} /\ Len(c.taken) \in {0, 1} /\ Len(c.taken) < c.visited
      /\ c.taken \in Seq(Stored) /\ c \in CallType /\ c.visited <= Arity[op]
  <2>1. c.visited \in {0, 1, 2} /\ Len(c.taken) \in {0, 1, 2} /\ c.taken \in Seq(Stored)
    BY CallTypes
  <2>2. c \in CallType /\ c.visited <= Arity[op]
    BY DEF CallOK
  <2>3. \A k \in {0, 1, 2}, l \in {0, 1, 2} : k > l => k \in {1, 2} /\ l \in {0, 1} /\ l < k
    OBVIOUS
  <2> QED BY <2>1, <2>2, <2>3
<1>2. op \in {"not", "and", "or", "==", "default", "."} /\ c.node \in 1..Len(tree)
  BY DEF CallOK, Arity, Leaves
<1>3. Held(c, 0) \in Nat /\ Held(c, 0) = c.visited - Len(c.taken) /\ Held(c, 0) >= 1 /\ Len(es) >= 1
  BY <1>1 DEF Held
<1>4. v \in Stored
  BY <1>3 DEF Last
<1> HIDE DEF m
<1>5. CallOK(tree, m, c, 0)
  BY DEF m
<1>6. v = m[Arg(tree, c, IF op = "==" THEN Held(c, 0) ELSE c.visited)]
  <2>1. Held(c, 0) \in 1..Held(c, 0)
    BY <1>3
  <2> QED BY <2>1 DEF Slice, Last, m
<1>7. op # "==" => Len(c.taken) = c.visited - 1
  <2>1. op # "==" => Len(c.taken) >= c.visited - 1
    BY <1>5 DEF CallOK
  <2> QED BY <1>1, <2>1
<1>8. /\ c2 \in CallType /\ c2.node = c.node /\ c2.visited = c.visited
      /\ c2.taken = IF op = "==" THEN <<v>> \o c.taken ELSE Append(c.taken, v)
  <2>1. (IF op = "==" THEN <<v>> \o c.taken ELSE Append(c.taken, v)) \in Seq(Stored)
    BY <1>1, <1>4
  <2> QED BY <1>1, <2>1 DEF CallType, AsTaken
<1> HIDE DEF v, c2
<1>9. Len(c2.taken) = Len(c.taken) + 1 /\ Held(c2, 0) = Held(c, 0) - 1
  <2>1. Len(c2.taken) = Len(c.taken) + 1
    BY <1>1, <1>4, <1>8
  <2> QED BY <1>1, <1>8, <2>1 DEF Held
<1>10. Slice(tree, m, c2, 0, es, base)
  <2>1. \A i \in 1..Held(c2, 0) : i \in 1..Held(c, 0)
    BY <1>3, <1>9
  <2>2. Slice(tree, m, c, 0, es, base)
    BY DEF m
  <2> QED BY <1>8, <2>1, <2>2 DEF Slice, Arg
<1>11. op # "==" => v = IF c.visited = 1 THEN a ELSE b
  BY <1>1, <1>6 DEF Arg
<1>12. op = "==" => v = IF Len(c.taken) = 0 THEN b ELSE a
  <2>1. op = "==" => c.visited = 2 /\ Held(c, 0) = 2 - Len(c.taken)
    BY <1>3
  <2> QED BY <1>1, <1>6, <2>1 DEF Arg
<1>13. /\ Len(c.taken) = 0 => c2.taken[1] = v
       /\ Len(c.taken) = 1 => c2.taken[1] = (IF op = "==" THEN v ELSE c.taken[1])
                              /\ c2.taken[2] = (IF op = "==" THEN c.taken[1] ELSE v)
  BY <1>1, <1>4, <1>8
<1>14. CASE v # NullPointer \/ MayMiss(op, c)
  <2>1. v \in Jsons \/ (v = NullPointer /\ op \in {"default", "."} /\ c.visited = 1)
    BY <1>4, <1>14 DEF Stored, MayMiss
  <2>2. /\ c2.visited - 0 >= 1 => a \in Stored
        /\ c2.visited - 0 >= 2 => b \in Stored
    BY <1>5, <1>8 DEF CallOK, Arg
  <2>3. op # "==" =>
           /\ Len(c2.taken) >= c2.visited - 1
           /\ Len(c2.taken) >= 1 => c2.taken[1] = a
           /\ Len(c2.taken) = 2 => c2.taken[2] = b
    <3>1. op # "==" /\ Len(c.taken) = 1 => c.taken[1] = a
      BY <1>5 DEF CallOK, Arg
    <3> QED BY <1>1, <1>7, <1>8, <1>9, <1>11, <1>13, <3>1
  <2>4. op = "==" =>
           /\ Len(c2.taken) >= 1 => c2.visited = 2 /\ 0 = 0
           /\ Len(c2.taken) = 1 => c2.taken[1] = b
           /\ Len(c2.taken) = 2 => c2.taken[1] = a /\ c2.taken[2] = b
    <3>1. op = "==" /\ Len(c.taken) = 1 => c.taken[1] = b
      BY <1>5 DEF CallOK, Arg
    <3> QED BY <1>1, <1>8, <1>9, <1>12, <1>13, <3>1
  <2>5. op \in {"default", "."} \/ c2.taken[1] \in Jsons
    <3>1. op \notin {"default", "."} /\ Len(c.taken) >= 1 => c.taken[1] \in Jsons
      BY <1>5 DEF CallOK
    <3> QED BY <1>1, <1>13, <2>1, <3>1
  <2>6. Len(c2.taken) = 2 => op # "." /\ c2.taken[2] \in Jsons
    <3>1. CASE op = "=="
      <4>1. Len(c.taken) = 1 => c.taken[1] \in Jsons
        BY <1>5, <3>1 DEF CallOK
      <4> QED BY <1>1, <1>9, <1>13, <3>1, <4>1
    <3>2. CASE op # "=="
      BY <1>1, <1>7, <1>9, <1>13, <2>1, <3>2
    <3> QED BY <3>1, <3>2
  <2>7. c2.visited = 2 =>
           /\ op = "and" => truthy(c2.taken[1])
           /\ op = "or" => ~truthy(c2.taken[1])
           /\ op = "default" => c2.taken[1] = NullPointer
    <3>1. c.visited = 2 =>
           /\ op = "and" => truthy(c.taken[1])
           /\ op = "or" => ~truthy(c.taken[1])
           /\ op = "default" => c.taken[1] = NullPointer
      BY <1>5 DEF CallOK
    <3> QED BY <1>1, <1>7, <1>8, <1>13, <3>1
  <2>8. op \in DOMAIN Arity \ Leaves /\ c2.visited <= Arity[op] /\ Len(c2.taken) + 0 <= c2.visited
    BY <1>1, <1>5, <1>8, <1>9 DEF CallOK
  <2>9. op # "list" /\ c.node \in 1..Len(tree)
    BY <1>2
  <2>10. CallOK(tree, m, c2, 0)
    BY <1>8, <2>2, <2>3, <2>4, <2>5, <2>6, <2>7, <2>8, <2>9 DEF CallOK, Arg
  <2>11. ~(op = "." /\ c2.visited = 2)
    BY <1>8
  <2> QED BY <1>3, <1>4, <1>8, <1>9, <1>10, <1>14, <2>10, <2>11 DEF m, v, c2, Takes
<1>15. CASE v = NullPointer /\ ~MayMiss(op, c)
  <2>1. Means(tree, data, c.node, m, m[c.node])
    BY <1>2, MeaningFacts DEF m
  <2>2. c.visited = 2 => a \in Stored /\ b \in Stored
    BY <1>5 DEF CallOK, Arg
  <2>3. c.visited = 2 /\ op # "==" => Len(c.taken) = 1 /\ c.taken[1] = a /\ b = NullPointer
    BY <1>5, <1>7, <1>11, <1>15 DEF CallOK, Arg
  <2>4. c.visited = 2 =>
           /\ op = "and" => a \in Jsons /\ truthy(a)
           /\ op = "or" => a \in Jsons /\ ~truthy(a)
           /\ op = "default" => a = NullPointer
    BY <1>5, <2>3 DEF CallOK
  <2>5. c.visited = 1 /\ op # "==" => a = NullPointer
    BY <1>11, <1>15
  <2>6. ASSUME op = "not" PROVE m[c.node] = Error
    <3>1. c.visited = 1
      BY <1>1, <2>6 DEF Arity, Leaves
    <3> QED BY <2>1, <2>5, <2>6, <3>1, NeedsFacts DEF Means
  <2>7. ASSUME op = "and" PROVE m[c.node] = Error
    <3>1. m[c.node] = Error
      <4>1. m[c.node] = Needs(a, IF truthy(a) THEN Needs(b, Bool(truthy(b))) ELSE Bool(FALSE))
        BY <2>1, <2>7 DEF Means
      <4>2. CASE c.visited = 1
        BY <2>5, <2>7, <4>1, <4>2, NeedsFacts
      <4>3. CASE c.visited = 2
        <5>1. m[c.node] = Needs(b, Bool(truthy(b)))
          BY <2>4, <2>7, <4>1, <4>3, NeedsFacts
        <5> QED BY <2>3, <2>7, <4>3, <5>1, NeedsFacts
      <4> QED BY <1>1, <4>2, <4>3
    <3> QED BY <3>1
  <2>8. ASSUME op = "or" PROVE m[c.node] = Error
    <3>1. m[c.node] = Error
      <4>1. m[c.node] = Needs(a, IF truthy(a) THEN Bool(TRUE) ELSE Needs(b, Bool(truthy(b))))
        BY <2>1, <2>8 DEF Means
      <4>2. CASE c.visited = 1
        BY <2>5, <2>8, <4>1, <4>2, NeedsFacts
      <4>3. CASE c.visited = 2
        <5>1. m[c.node] = Needs(b, Bool(truthy(b)))
          BY <2>4, <2>8, <4>1, <4>3, NeedsFacts
        <5> QED BY <2>3, <2>8, <4>3, <5>1, NeedsFacts
      <4> QED BY <1>1, <4>2, <4>3
    <3> QED BY <3>1
  <2>9. ASSUME op = "==" PROVE m[c.node] = Error
    <3>1. m[c.node] = Both(a, b) /\ c.visited = 2
      BY <2>1, <2>9 DEF Means
    <3>2. a = NullPointer \/ b = NullPointer
      BY <1>12, <1>15, <2>9
    <3>3. m[c.node] = Error
      BY <2>2, <3>1, <3>2, BothFacts
    <3> QED BY <3>3
  <2>10. ASSUME op = "default" PROVE m[c.node] = Error
    <3>1. c.visited = 2 /\ m[c.node] = Needs(b, b)
      BY <1>1, <1>15, <2>1, <2>4, <2>10 DEF Means, MayMiss
    <3> QED BY <2>3, <2>10, <3>1, NeedsFacts
  <2>11. op # "."
    BY <1>1, <1>15 DEF MayMiss
  <2>12. m[c.node] = Error
    BY <1>2, <2>6, <2>7, <2>8, <2>9, <2>10, <2>11
  <2> QED BY <1>3, <1>4, <1>8, <1>15, <2>12 DEF m, v, c2, Takes
<1> QED
  BY <1>14, <1>15

-----------------------------------------------------------------------------
(* The actions.                                                                *)

EvalInv ==
  /\ expression \in Trees /\ input \in Inputs
  /\ IdsApart /\ outcome = "evaluating" =>
       \E h : Fitted(expression, Meanings(expression, input), calls, evals, not_found, h)
  /\ EvaluatesAsMeant
  /\ MissingNamesConsumed

LEMMA GoesOn ==
  ASSUME EvalInv, UNCHANGED <<expression, input>>, outcome' = "evaluating",
         IdsApart => \E h : Fitted(expression, Meanings(expression, input), calls', evals', not_found', h)
  PROVE  EvalInv'
BY DEF EvalInv, IdsApart, EvaluatesAsMeant, MissingNamesConsumed

LEMMA Stops ==
  ASSUME EvalInv, NEW what, Stop(what),
         IdsApart => \/ what = "error" /\ Meaning(expression, input) = Error
                     \/ what = "null_container" /\ Meaning(expression, input) = NoContainer,
         what \in {"error", "null_container", "no_name"}
  PROVE  EvalInv'
<1>1. IdsApart' <=> IdsApart
  BY DEF IdsApart, Stop
<1>2. (outcome' = "evaluating" \/ outcome' = "done") <=> FALSE
  BY DEF Stop
<1> QED
  BY <1>1, <1>2 DEF EvalInv, EvaluatesAsMeant, MissingNamesConsumed, Stop

LEMMA InnermostFacts ==
  ASSUME EvalInv, IdsApart, outcome = "evaluating"
  PROVE  \E h :
           /\ Fitted(expression, Meanings(expression, input), calls, evals, not_found, h)
           /\ Innermost = calls[Len(calls)] /\ Node = expression[Innermost.node]
           /\ CallOK(expression, Meanings(expression, input), Innermost, 0)
           /\ calls \in Seq(CallType) /\ Len(calls) \in Nat /\ Len(calls) >= 1
           /\ evals \in Seq(Stored) /\ not_found \in Seq(STRING) /\ Noted(evals, not_found)
           /\ h[Len(calls)] \in Nat /\ Held(Innermost, 0) \in Nat
           /\ Len(evals) = h[Len(calls)] + Held(Innermost, 0)
           /\ Slice(expression, Meanings(expression, input), Innermost, 0, evals, h[Len(calls)])
           /\ KnowsId(expression, Innermost, not_found)
           /\ Innermost.node \in 1..Len(expression)
           /\ Under(expression, Meanings(expression, input), calls, evals, h, Len(calls))
<1> DEFINE m == Meanings(expression, input)
<1> HIDE DEF m
<1>1. PICK h : Fitted(expression, m, calls, evals, not_found, h)
  BY DEF EvalInv, m
<1>2. CallOK(expression, m, Innermost, 0) /\ Innermost = calls[Len(calls)]
  BY <1>1 DEF Fitted, Innermost
<1>3. Held(Innermost, 0) \in Nat /\ Innermost.node \in 1..Len(expression)
  <2>1. Held(Innermost, 0) \in Nat
    BY <1>2, CallTypes
  <2> QED BY <1>2, <2>1 DEF CallOK
<1>4. calls \in Seq(CallType) /\ Len(calls) \in Nat /\ Len(calls) >= 1
  BY <1>1 DEF Fitted
<1>5. h[Len(calls)] \in Nat
  <2>1. Len(calls) \in 1..Len(calls)
    BY <1>4
  <2> QED BY <1>1, <2>1 DEF Fitted, Under
<1> QED
  BY <1>1, <1>2, <1>3, <1>4, <1>5 DEF Fitted, Node, m

\* The argument that is visited next.
LEMMA NextFacts ==
  ASSUME EvalInv, IdsApart, Visiting
  PROVE  /\ NextArgument \in 1..(Innermost.node - 1) /\ NextArgument \in 1..Len(expression)
         /\ NextArgument = Arg(expression, Innermost, Innermost.visited + 1)
<1> DEFINE m == Meanings(expression, input)  c == Innermost
           c2 == [c EXCEPT !.visited = @ + 1]
<1>1. /\ CallOK(expression, m, c, 0) /\ Node = expression[c.node]
      /\ c.node \in 1..Len(expression) /\ outcome = "evaluating"
  BY InnermostFacts DEF Visiting
<1>2. PICK base : Slice(expression, m, c, 0, evals, base)
  BY InnermostFacts DEF Visiting
<1> HIDE DEF m, c
<1>3. expression \in Trees
  BY DEF EvalInv
<1>4. Arg(expression, c, c2.visited) \in 1..(c.node - 1) /\ c2.visited = c.visited + 1
  <2> HIDE DEF c2
  <2>1. c2 = [c EXCEPT !.visited = @ + 1]
    BY DEF c2
  <2>2. /\ c.visited < Arity[expression[c.node].op] /\ ~Decided(expression[c.node].op, c.taken)
        /\ expression[c.node].op = "==" \/ c.visited = Len(c.taken)
    BY <1>1 DEF Visiting, c
  <2> QED BY <1>1, <1>2, <1>3, <2>1, <2>2, VisitingCall
<1>5. NextArgument = Arg(expression, c, c.visited + 1)
  BY <1>1 DEF NextArgument, Arg, c
<1>6. Len(expression) \in Nat
  BY <1>3, TreeFacts
<1> QED
  BY <1>1, <1>4, <1>5, <1>6 DEF c

LEMMA VisitLeaf ==
  ASSUME EvalInv, IdsApart, Visiting, calls' = Visited,
         NEW v \in Stored, v = Meanings(expression, input)[NextArgument],
         evals' = Append(evals, v), not_found' \in Seq(STRING), Noted(evals', not_found'),
         Node.op = "." /\ Innermost.visited = 1 =>
           not_found' # <<>> /\ Last(not_found') = Id(expression, Innermost.node).name
  PROVE  \E h : Fitted(expression, Meanings(expression, input), calls', evals', not_found', h)
<1> DEFINE m == Meanings(expression, input)
           c2 == [Innermost EXCEPT !.visited = @ + 1]
<1> HIDE DEF m
<1>1. PICK h :
         /\ Fitted(expression, m, calls, evals, not_found, h)
         /\ Innermost = calls[Len(calls)] /\ Node = expression[Innermost.node]
         /\ CallOK(expression, m, Innermost, 0)
         /\ evals \in Seq(Stored) /\ h[Len(calls)] \in Nat /\ Held(Innermost, 0) \in Nat
         /\ Len(evals) = h[Len(calls)] + Held(Innermost, 0)
         /\ Slice(expression, m, Innermost, 0, evals, h[Len(calls)])
  BY InnermostFacts DEF m, Visiting
<1>2. expression \in Trees
  BY DEF EvalInv
<1>3. /\ c2.node = Innermost.node /\ c2.visited = Innermost.visited + 1 /\ c2.taken = Innermost.taken
      /\ CallOK(expression, m, c2, 1) /\ Held(c2, 1) = Held(Innermost, 0)
      /\ Slice(expression, m, c2, 1, evals, h[Len(calls)])
  <2> HIDE DEF c2
  <2>1. c2 = [Innermost EXCEPT !.visited = @ + 1]
    BY DEF c2
  <2>2. /\ Innermost.visited < Arity[expression[Innermost.node].op]
        /\ ~Decided(expression[Innermost.node].op, Innermost.taken)
        /\ expression[Innermost.node].op = "==" \/ Innermost.visited = Len(Innermost.taken)
    BY <1>1 DEF Visiting
  <2> DEFINE c == Innermost  base == h[Len(calls)]
  <2>3. /\ CallOK(expression, m, c, 0) /\ Slice(expression, m, c, 0, evals, base)
        /\ c.visited < Arity[expression[c.node].op] /\ ~Decided(expression[c.node].op, c.taken)
        /\ expression[c.node].op = "==" \/ c.visited = Len(c.taken)
        /\ c2 = [c EXCEPT !.visited = @ + 1]
    BY <1>1, <2>1, <2>2
  <2> HIDE DEF c, base
  <2>4. /\ c2.node = c.node /\ c2.visited = c.visited + 1 /\ c2.taken = c.taken
        /\ CallOK(expression, m, c2, 1) /\ Held(c2, 1) = Held(c, 0)
        /\ Slice(expression, m, c2, 1, evals, base)
    BY <1>2, <2>3, VisitingCall, SMTT(20)
  <2> QED BY <2>4 DEF c, base
<1>4. calls' = [calls EXCEPT ![Len(calls)] = c2]
  BY <1>1 DEF Visited
<1> HIDE DEF c2
<1>5. v = m[Arg(expression, c2, c2.visited)]
  BY <1>1, <1>3, Zenon DEF NextArgument, Arg, m
<1>6. CallOK(expression, m, c2, 0) /\ Held(c2, 0) = Held(c2, 1) + 1
  BY <1>3, <1>5, ArgumentDone
<1>7. /\ evals' \in Seq(Stored) /\ Len(evals') = Len(evals) + 1 /\ evals'[Len(evals) + 1] = v
      /\ \A p \in 1..Len(evals) : evals'[p] = evals[p]
  BY <1>1
<1>8. Len(evals') = h[Len(calls)] + Held(c2, 0)
  BY <1>1, <1>3, <1>6, <1>7
<1>9. \A p \in 1..h[Len(calls)] : evals'[p] = evals[p]
  BY <1>1, <1>7
<1>10. Slice(expression, m, c2, 0, evals', h[Len(calls)])
  <2>1. SUFFICES ASSUME NEW i \in 1..Held(c2, 0)
        PROVE  evals'[h[Len(calls)] + i] = m[Arg(expression, c2, IF expression[c2.node].op = "==" THEN i ELSE c2.visited)]
    BY DEF Slice
  <2>2. CASE i \in 1..Held(c2, 1)
    <3>1. h[Len(calls)] + i \in 1..Len(evals)
      BY <1>1, <1>3, <2>2
    <3> QED BY <1>3, <1>7, <2>2, <3>1 DEF Slice
  <2>3. CASE i = Held(c2, 0)
    <3>1. h[Len(calls)] + i = Len(evals) + 1
      <4>1. i = Held(Innermost, 0) + 1
        BY <1>3, <1>6, <2>3
      <4> QED BY <1>1, <4>1
    <3>2. expression[c2.node].op = "==" => i = c2.visited
      <4>1. c2.visited \in {0, 1, 2} /\ Len(c2.taken) \in {0, 1, 2}
        BY <1>3, CallTypes
      <4>2. expression[c2.node].op = "==" => ~(Len(c2.taken) >= 1)
        BY <1>3 DEF CallOK
      <4> QED BY <2>3, <4>1, <4>2 DEF Held
    <3> QED BY <1>5, <1>7, <3>1, <3>2
  <2> QED BY <1>1, <1>3, <1>6, <2>2, <2>3
<1>11. KnowsId(expression, c2, not_found')
  <2>1. c2.visited = 2 => Innermost.visited = 1
    <3>1. Innermost.visited \in Nat
      BY <1>1, CallTypes
    <3> QED BY <1>3, <3>1
  <2> QED BY <1>1, <1>3, <2>1 DEF KnowsId
<1>12. Fitted(expression, m, [calls EXCEPT ![Len(calls)] = c2], evals', not_found', h)
  BY <1>1, <1>3, <1>6, <1>7, <1>8, <1>9, <1>10, <1>11, TopChanges
<1> QED
  BY <1>4, <1>12 DEF m

LEMMA VisitLiteralStep ==
  ASSUME EvalInv, VisitLiteral
  PROVE  EvalInv'
<1>1. outcome' = "evaluating" /\ UNCHANGED <<expression, input>>
  BY DEF VisitLiteral, Visiting
<1>2. ASSUME IdsApart
      PROVE  \E h : Fitted(expression, Meanings(expression, input), calls', evals', not_found', h)
  <2> DEFINE n == NextArgument  v == Bool(expression[n].value)
  <2>1. /\ CallOK(expression, Meanings(expression, input), Innermost, 0)
        /\ Node = expression[Innermost.node] /\ Innermost.node \in 1..Len(expression)
        /\ evals \in Seq(Stored) /\ not_found \in Seq(STRING) /\ Noted(evals, not_found)
    BY <1>2, InnermostFacts DEF VisitLiteral, Visiting
  <2>2. n \in 1..Len(expression)
    BY <1>2, NextFacts DEF VisitLiteral
  <2> HIDE DEF n
  <2>3. expression \in Trees /\ input \in Inputs
    BY DEF EvalInv
  <2>4. v \in Jsons /\ v = Meanings(expression, input)[n]
    <3>1. Means(expression, input, n, Meanings(expression, input), Meanings(expression, input)[n])
      BY <2>2, <2>3, MeaningFacts
    <3>2. expression[n].value \in BOOLEAN
      BY <2>2, <2>3, TreeFacts
    <3>3. expression[n].op = "literal"
      BY DEF VisitLiteral, n
    <3> QED BY <3>1, <3>2, <3>3, ValueTypes DEF Means
  <2>5. Noted(evals', not_found') /\ not_found' \in Seq(STRING)
    BY <2>1, <2>4, PushNoted DEF VisitLiteral, n
  <2>6. ~(Node.op = "." /\ Innermost.visited = 1)
    <3>1. ASSUME Node.op = ".", Innermost.visited = 1
          PROVE  expression[NextArgument].op = "data"
      <4>1. expression[Node.arguments[2]].op = "data"
        BY <2>1, <2>3, <3>1, TreeFacts
      <4> QED BY <3>1, <4>1 DEF NextArgument
    <3> QED BY <3>1 DEF VisitLiteral
  <2>7. v \in Stored
    BY <2>4 DEF Stored
  <2>8. evals' = Append(evals, v) /\ calls' = Visited /\ Visiting
    BY DEF VisitLiteral, n
  <2> HIDE DEF v
  <2> QED BY <1>2, <2>4, <2>5, <2>6, <2>7, <2>8, VisitLeaf DEF n
<1> QED
  BY <1>1, <1>2, GoesOn

LEMMA VisitDataStep ==
  ASSUME EvalInv, VisitData
  PROVE  EvalInv'
<1>1. outcome' = "evaluating" /\ UNCHANGED <<expression, input>>
  BY DEF VisitData, Visiting
<1>2. ASSUME IdsApart
      PROVE  \E h : Fitted(expression, Meanings(expression, input), calls', evals', not_found', h)
  <2> DEFINE n == NextArgument  name == expression[n].name
             v == IF name \in DOMAIN input THEN input[name] ELSE NullPointer
  <2>1. /\ CallOK(expression, Meanings(expression, input), Innermost, 0)
        /\ Node = expression[Innermost.node] /\ Innermost.node \in 1..Len(expression)
        /\ evals \in Seq(Stored) /\ not_found \in Seq(STRING) /\ Noted(evals, not_found)
    BY <1>2, InnermostFacts DEF VisitData, Visiting
  <2>2. n \in 1..Len(expression) /\ n = Arg(expression, Innermost, Innermost.visited + 1)
    BY <1>2, NextFacts DEF VisitData
  <2>3. /\ evals' = Append(evals, v) /\ calls' = Visited /\ Visiting /\ expression[n].op = "data"
        /\ not_found' = IF name \in DOMAIN input THEN not_found ELSE Append(not_found, name)
    BY DEF VisitData
  <2> HIDE DEF n
  <2>4. expression \in Trees /\ input \in Inputs
    BY DEF EvalInv
  <2>5. v \in Stored /\ v = Meanings(expression, input)[n]
    <3>1. Means(expression, input, n, Meanings(expression, input), Meanings(expression, input)[n])
      BY <2>2, <2>4, MeaningFacts
    <3>2. v = Meanings(expression, input)[n]
      BY <2>3, <3>1 DEF Means
    <3> QED BY <2>4, <3>2, InputValues DEF Stored
  <2>6. name \in STRING
    BY <2>2, <2>4, TreeFacts
  <2>7. Noted(evals', not_found') /\ not_found' \in Seq(STRING)
    <3> HIDE DEF name
    <3>1. CASE name \in DOMAIN input
      <4>1. v \in Jsons
        BY <2>4, <3>1, InputValues
      <4> QED BY <2>1, <2>3, <3>1, <4>1, PushNoted
    <3>2. CASE name \notin DOMAIN input
      <4>1. Noted(Append(evals, NullPointer), Append(not_found, name)) /\ Append(not_found, name) \in Seq(STRING)
        BY <2>1, <2>6, PushNoted
      <4> QED BY <2>3, <3>2, <4>1
    <3> QED BY <3>1, <3>2
  <2>8. ASSUME Node.op = ".", Innermost.visited = 1
        PROVE  not_found' # <<>> /\ Last(not_found') = Id(expression, Innermost.node).name
    <3>1. expression[n] = Id(expression, Innermost.node)
      BY <2>2, <2>8 DEF Arg, Id
    <3>2. Innermost.node \in Dots(expression)
      BY <2>1, <2>4, <2>8, TreeFacts DEF Dots
    <3>3. name \notin DOMAIN input
      BY <1>2, <3>1, <3>2 DEF IdsApart
    <3>4. not_found' = Append(not_found, name)
      BY <2>3, <3>3
    <3> HIDE DEF name
    <3>5. not_found' # <<>> /\ Last(not_found') = name
      BY <2>1, <2>6, <3>4 DEF Last
    <3> QED BY <3>1, <3>5 DEF name
  <2> HIDE DEF v, name
  <2> QED BY <1>2, <2>3, <2>5, <2>7, <2>8, VisitLeaf DEF n
<1> QED
  BY <1>1, <1>2, GoesOn

LEMMA VisitFunctionStep ==
  ASSUME EvalInv, VisitFunction
  PROVE  EvalInv'
<1>1. outcome' = "evaluating" /\ UNCHANGED <<expression, input>>
  BY DEF VisitFunction, Visiting
<1>2. ASSUME IdsApart
      PROVE  \E h : Fitted(expression, Meanings(expression, input), calls', evals', not_found', h)
  <2> DEFINE m == Meanings(expression, input)  c == Innermost  n == NextArgument
             c2 == [c EXCEPT !.visited = @ + 1]
  <2>1. PICK h :
         /\ Fitted(expression, m, calls, evals, not_found, h)
         /\ c = calls[Len(calls)] /\ Node = expression[c.node]
         /\ CallOK(expression, m, c, 0)
         /\ Slice(expression, m, c, 0, evals, h[Len(calls)])
    BY <1>2, InnermostFacts DEF VisitFunction, Visiting
  <2>2. expression \in Trees
    BY DEF EvalInv
  <2>3. /\ c.visited < Arity[expression[c.node].op] /\ ~Decided(expression[c.node].op, c.taken)
        /\ expression[c.node].op = "==" \/ c.visited = Len(c.taken)
    BY <2>1 DEF VisitFunction, Visiting
  <2>4. /\ n \in 1..Len(expression) /\ n = Arg(expression, c, c.visited + 1)
        /\ expression[n].op \in DOMAIN Arity \ Leaves
    <3>1. n \in 1..Len(expression) /\ n = Arg(expression, c, c.visited + 1)
      BY <1>2, NextFacts DEF VisitFunction
    <3> QED BY <2>2, <3>1, TreeFacts DEF VisitFunction
  <2>5. calls' = Append([calls EXCEPT ![Len(calls)] = c2], Call(n)) /\ evals' = evals /\ not_found' = not_found
    BY <2>1 DEF VisitFunction, Visited
  <2> HIDE DEF m, c, n
  <2> DEFINE base == h[Len(calls)]
  <2>6. /\ c2.node = c.node /\ c2.visited = c.visited + 1 /\ CallOK(expression, m, c2, 1)
        /\ Held(c2, 1) = Held(c, 0) /\ Slice(expression, m, c2, 1, evals, base)
    <3> HIDE DEF c2, base
    <3>1. c2 = [c EXCEPT !.visited = @ + 1]
      BY DEF c2
    <3>2. Slice(expression, m, c, 0, evals, base)
      BY <2>1 DEF base
    <3> QED BY <2>1, <2>2, <2>3, <3>1, <3>2, VisitingCall
  <2> HIDE DEF c2
  <2>7. n = Arg(expression, c2, c2.visited)
    BY <2>4, <2>6 DEF Arg
  <2>8. \E h2 : Fitted(expression, m, Append([calls EXCEPT ![Len(calls)] = c2], Call(n)), evals, not_found, h2)
    BY <2>1, <2>4, <2>6, <2>7, TopCalls
  <2> QED BY <2>5, <2>8 DEF m
<1> QED
  BY <1>1, <1>2, GoesOn

LEMMA Climbs ==
  ASSUME EvalInv, IdsApart, outcome = "evaluating",
         NEW f \in Failures, Meanings(expression, input)[Innermost.node] = f
  PROVE  Meaning(expression, input) = f
<1> DEFINE m == Meanings(expression, input)
<1>1. PICK h :
         /\ Under(expression, m, calls, evals, h, Len(calls))
         /\ Innermost = calls[Len(calls)] /\ Len(calls) \in Nat /\ Len(calls) >= 1
         /\ CallOK(expression, m, Innermost, 0)
  BY InnermostFacts
<1>2. expression \in Trees /\ expression[Innermost.node].op \notin Leaves
  BY <1>1 DEF EvalInv, CallOK
<1> QED
  BY <1>1, <1>2, FailureClimbs

LEMMA TakingFacts ==
  ASSUME EvalInv, IdsApart, Taking
  PROVE  LET v == Last(evals)
             m == Meanings(expression, input)
         IN  /\ evals # <<>> /\ evals \in Seq(Stored) /\ not_found \in Seq(STRING) /\ Noted(evals, not_found)
             /\ v # NullPointer \/ Tolerated =>
                  \A names \in Seq(STRING) : Noted(Pop(evals), names) /\ Taken(v) =>
                    \E h : Fitted(expression, m, calls', Pop(evals), names, h)
             /\ v = NullPointer /\ ~Tolerated => Meaning(expression, input) = Error
<1> DEFINE m == Meanings(expression, input)  c == Innermost  v == Last(evals)
           c2 == AsTaken(expression[c.node].op, c, v)
<1>1. PICK h :
         /\ Fitted(expression, m, calls, evals, not_found, h)
         /\ c = calls[Len(calls)] /\ Node = expression[c.node]
         /\ CallOK(expression, m, c, 0)
         /\ evals \in Seq(Stored) /\ not_found \in Seq(STRING) /\ Noted(evals, not_found)
         /\ h[Len(calls)] \in Nat /\ Held(c, 0) \in Nat
         /\ Len(evals) = h[Len(calls)] + Held(c, 0)
         /\ Slice(expression, m, c, 0, evals, h[Len(calls)])
  BY InnermostFacts DEF Taking
<1>2. expression \in Trees /\ outcome = "evaluating"
  BY DEF EvalInv, Taking
<1>3. /\ expression[c.node].op # "list" /\ c.visited > Len(c.taken)
      /\ expression[c.node].op = "==" => c.visited = 2
      /\ ~(expression[c.node].op = "." /\ c.visited = 2)
      /\ Tolerated <=> MayMiss(expression[c.node].op, c)
  BY <1>1 DEF Taking, Tolerated, MayMiss
<1>4. Taken(v) => calls' = [calls EXCEPT ![Len(calls)] = c2]
  BY <1>1 DEF Taken, AsTaken
<1> DEFINE base == h[Len(calls)]
<1>7. base \in Nat /\ Len(evals) = base + Held(c, 0) /\ Slice(expression, m, c, 0, evals, base)
  BY <1>1
<1> HIDE DEF v, c2, base, c
<1>8. /\ Held(c, 0) \in Nat /\ Held(c, 0) >= 1 /\ Len(evals) >= 1 /\ v \in Stored /\ c2.node = c.node
      /\ v # NullPointer \/ Tolerated =>
              /\ CallOK(expression, m, c2, 0) /\ Held(c2, 0) = Held(c, 0) - 1
              /\ Slice(expression, m, c2, 0, evals, base)
              /\ ~(expression[c.node].op = "." /\ c2.visited = 2)
      /\ v = NullPointer /\ ~Tolerated => m[c.node] = Error
  <2>1. Takes(expression, m, c, c2, v, evals, base)
    BY <1>1, <1>2, <1>3, <1>7, TakingCall DEF c2, v
  <2> HIDE DEF m
  <2> QED BY <1>3, <2>1 DEF Takes
<1> HIDE DEF m
<1>9. evals # <<>>
  BY <1>1, <1>8
<1>10. /\ Pop(evals) \in Seq(Stored) /\ Len(Pop(evals)) = Len(evals) - 1
       /\ \A p \in 1..(Len(evals) - 1) : Pop(evals)[p] = evals[p]
  BY <1>1, <1>9, PopFacts
<1>11. ASSUME v # NullPointer \/ Tolerated, NEW names \in Seq(STRING), Noted(Pop(evals), names), Taken(v)
       PROVE  \E g : Fitted(expression, m, calls', Pop(evals), names, g)
  <2>1. Len(Pop(evals)) = base + Held(c2, 0) /\ Held(c2, 0) = Held(c, 0) - 1
    BY <1>7, <1>8, <1>10, <1>11
  <2>2. \A p \in 1..base : Pop(evals)[p] = evals[p]
    BY <1>7, <1>8, <1>10
  <2>3. Slice(expression, m, c2, 0, Pop(evals), base)
    <3>1. \A i \in 1..Held(c2, 0) : base + i \in 1..(Len(evals) - 1)
      BY <1>7, <1>8, <2>1
    <3>2. Slice(expression, m, c2, 0, evals, base)
      BY <1>8, <1>11
    <3> QED BY <1>10, <3>1, <3>2 DEF Slice
  <2>4. KnowsId(expression, c2, names)
    BY <1>8, <1>11 DEF KnowsId
  <2>5. Fitted(expression, m, [calls EXCEPT ![Len(calls)] = c2], Pop(evals), names, h)
    BY <1>1, <1>8, <1>10, <1>11, <2>1, <2>2, <2>3, <2>4, TopChanges DEF base
  <2> QED BY <1>4, <1>11, <2>5
<1>12. ASSUME v = NullPointer, ~Tolerated
       PROVE  Meaning(expression, input) = Error
  <2>1. Meanings(expression, input)[Innermost.node] = Error /\ Error \in Failures
    BY <1>8, <1>12 DEF m, c, Failures
  <2> QED BY <1>2, <2>1, Climbs
<1> QED
  BY <1>1, <1>9, <1>11, <1>12 DEF v, m

LEMMA TakeValueStep ==
  ASSUME EvalInv, TakeValue
  PROVE  EvalInv'
<1>1. outcome' = "evaluating" /\ UNCHANGED <<expression, input>>
  BY DEF TakeValue, Taking, Taken
<1>2. ASSUME IdsApart
      PROVE  \E h : Fitted(expression, Meanings(expression, input), calls', evals', not_found', h)
  <2>1. /\ evals # <<>> /\ evals \in Seq(Stored) /\ not_found \in Seq(STRING) /\ Noted(evals, not_found)
        /\ Noted(Pop(evals), not_found) =>
             \E h : Fitted(expression, Meanings(expression, input), calls', Pop(evals), not_found, h)
    BY <1>2, TakingFacts DEF TakeValue
  <2>2. Noted(Pop(evals), not_found)
    BY <2>1, PopNoted DEF TakeValue
  <2> QED BY <2>1, <2>2 DEF TakeValue
<1> QED
  BY <1>1, <1>2, GoesOn

LEMMA TakeMissingStep ==
  ASSUME EvalInv, TakeMissing
  PROVE  EvalInv'
<1>1. ASSUME IdsApart
      PROVE  /\ not_found # <<>> /\ Noted(Pop(evals), Pop(not_found)) /\ Pop(not_found) \in Seq(STRING)
             /\ Tolerated /\ Noted(Pop(evals), Pop(not_found)) /\ Taken(NullPointer) =>
                  \E h : Fitted(expression, Meanings(expression, input), calls', Pop(evals), Pop(not_found), h)
             /\ ~Tolerated => Meaning(expression, input) = Error
  <2>1. Last(evals) = NullPointer /\ Taking
    BY DEF TakeMissing
  <2>2. /\ evals # <<>> /\ evals \in Seq(Stored) /\ not_found \in Seq(STRING) /\ Noted(evals, not_found)
        /\ Tolerated =>
                  \A names \in Seq(STRING) : Noted(Pop(evals), names) /\ Taken(NullPointer) =>
                    \E h : Fitted(expression, Meanings(expression, input), calls', Pop(evals), names, h)
        /\ ~Tolerated => Meaning(expression, input) = Error
    BY <1>1, <2>1, TakingFacts
  <2>3. not_found # <<>> /\ Noted(Pop(evals), Pop(not_found)) /\ Pop(not_found) \in Seq(STRING)
    BY <2>1, <2>2, PopNoted
  <2> QED BY <2>2, <2>3
<1>2. CASE not_found = <<>>
  <2>1. Stop("no_name") /\ ~IdsApart
    BY <1>1, <1>2 DEF TakeMissing
  <2> QED BY <2>1, Stops
<1>3. CASE not_found # <<>> /\ Tolerated
  <2>1. /\ Taken(NullPointer) /\ evals' = Pop(evals) /\ not_found' = Pop(not_found) /\ outcome = "evaluating"
    BY <1>3 DEF TakeMissing, Taking
  <2>2. outcome' = "evaluating" /\ UNCHANGED <<expression, input>>
    BY <2>1 DEF Taken
  <2> QED BY <1>1, <1>3, <2>1, <2>2, GoesOn
<1>4. CASE not_found # <<>> /\ ~Tolerated
  <2>1. Stop("error")
    BY <1>4 DEF TakeMissing, Throw
  <2> QED BY <1>1, <1>4, <2>1, Stops
<1> QED
  BY <1>2, <1>3, <1>4

LEMMA ReturnStep ==
  ASSUME EvalInv, Return
  PROVE  EvalInv'
<1>1. outcome' = "evaluating" /\ UNCHANGED <<expression, input>>
  BY DEF Return, Returns
<1>2. ASSUME IdsApart
      PROVE  \E h : Fitted(expression, Meanings(expression, input), calls', evals', not_found', h)
  <2> DEFINE m == Meanings(expression, input)  c == Innermost  v == Result(Node.op, c.taken)
  <2>1. PICK h :
         /\ Fitted(expression, m, calls, evals, not_found, h)
         /\ c = calls[Len(calls)] /\ Node = expression[c.node]
         /\ CallOK(expression, m, c, 0)
         /\ evals \in Seq(Stored) /\ not_found \in Seq(STRING) /\ Noted(evals, not_found)
         /\ h[Len(calls)] \in Nat /\ Len(evals) = h[Len(calls)] + Held(c, 0)
    BY <1>2, InnermostFacts DEF Return
  <2>2. expression \in Trees
    BY DEF EvalInv
  <2>3. Held(c, 0) = 0 /\ v = m[c.node] /\ v \in Jsons
    BY <2>1, <2>2, DecidedCall DEF Return
  <2>4. calls' = Pop(calls) /\ evals' = Append(evals, v) /\ not_found' = not_found /\ Node.op # "list"
    BY DEF Return, Returns
  <2>5. Node.op = expression[calls[Len(calls)].node].op /\ c.node = calls[Len(calls)].node
    BY <2>1
  <2> HIDE DEF m, c, v
  <2>6. expression[calls[Len(calls)].node].op # "list" /\ v = m[calls[Len(calls)].node]
    BY <2>3, <2>4, <2>5
  <2>7. Len(evals) = h[Len(calls)]
    BY <2>1, <2>3
  <2>8. \E g : Fitted(expression, m, Pop(calls), Append(evals, v), not_found, g)
    BY <2>1, <2>2, <2>3, <2>6, <2>7, TopReturnsValue
  <2> QED BY <2>4, <2>8 DEF m
<1> QED
  BY <1>1, <1>2, GoesOn

\* What the dot operator finds: the name to its right, and that name's null pointer.
LEMMA AtIdFacts ==
  ASSUME EvalInv, IdsApart, AtId
  PROVE  LET m == Meanings(expression, input)
             n == Innermost.node
             a == Innermost.taken[1]
         IN  /\ not_found # <<>> /\ Last(not_found) = Id(expression, n).name
             /\ m[n] = IF a = NullPointer THEN NoContainer
                       ELSE IF Last(not_found) \in a.members THEN Bool(TRUE) ELSE Error
             /\ \E h : /\ Fitted(expression, m, calls, evals, not_found, h)
                       /\ Innermost = calls[Len(calls)] /\ expression[n].op = "."
                       /\ Pop(evals) \in Seq(Stored) /\ Len(Pop(evals)) = h[Len(calls)]
                       /\ h[Len(calls)] \in Nat
                       /\ \A p \in 1..h[Len(calls)] : Pop(evals)[p] = evals[p]
                       /\ Pop(not_found) \in Seq(STRING) /\ Noted(Pop(evals), Pop(not_found))
<1> DEFINE m == Meanings(expression, input)  c == Innermost  a == c.taken[1]
<1>1. PICK h :
         /\ Fitted(expression, m, calls, evals, not_found, h)
         /\ c = calls[Len(calls)] /\ Node = expression[c.node]
         /\ CallOK(expression, m, c, 0) /\ KnowsId(expression, c, not_found)
         /\ evals \in Seq(Stored) /\ not_found \in Seq(STRING) /\ Noted(evals, not_found)
         /\ h[Len(calls)] \in Nat /\ Len(evals) = h[Len(calls)] + Held(c, 0)
         /\ Slice(expression, m, c, 0, evals, h[Len(calls)])
         /\ c.node \in 1..Len(expression)
  BY InnermostFacts DEF AtId
<1>2. expression \in Trees /\ input \in Inputs /\ expression[c.node].op = "." /\ c.visited = 2
  BY <1>1 DEF EvalInv, AtId
<1>3. not_found # <<>> /\ Last(not_found) = Id(expression, c.node).name
  BY <1>1, <1>2 DEF KnowsId
<1> HIDE DEF m, c
<1>4. Len(c.taken) = 1 /\ a = m[expression[c.node].arguments[1]] /\ a \in Stored
  <2>1. Len(c.taken) \in {0, 1, 2}
    BY <1>1, CallTypes
  <2>2. Len(c.taken) >= 2 - 1 /\ ~(Len(c.taken) = 2)
    BY <1>1, <1>2 DEF CallOK
  <2>3. Len(c.taken) = 1
    BY <2>1, <2>2
  <2> QED BY <1>1, <1>2, <2>3 DEF CallOK, Arg
<1>5. Held(c, 0) = 1
  BY <1>2, <1>4 DEF Held
<1>6. m[c.node] = IF a = NullPointer THEN NoContainer
                  ELSE IF Last(not_found) \in a.members THEN Bool(TRUE) ELSE Error
  <2> HIDE DEF a
  <2>1. Means(expression, input, c.node, m, m[c.node])
    BY <1>1, <1>2, MeaningFacts DEF m
  <2>2. m[c.node] = IF a = NullPointer THEN NoContainer
                    ELSE Needs(a, IF Id(expression, c.node).name \in a.members THEN Bool(TRUE) ELSE Error)
    BY <1>2, <1>4, <2>1 DEF Means
  <2> QED BY <1>3, <1>4, <2>2, NeedsFacts DEF Stored
<1>7. Last(evals) = NullPointer
  <2> DEFINE n == expression[c.node].arguments[2]
  <2>1. n \in 1..Len(expression) /\ expression[n].op = "data"
    <3>1. Arity["."] = 2
      BY DEF Arity, Leaves
    <3>2. n \in 1..(c.node - 1) /\ expression[n].op = "data"
      <4>1. \A i \in 1..Len(expression) : expression[i].op = "." =>
              /\ expression[i].arguments[2] \in 1..(i - 1)
              /\ expression[expression[i].arguments[2]].op = "data"
        BY <1>2, <3>1, TreeFacts
      <4> QED BY <1>1, <1>2, <4>1
    <3>3. Len(expression) \in Nat
      BY <1>2, TreeFacts
    <3>4. \A last \in Nat : \A i \in 1..last : 1..(i - 1) \subseteq 1..last
      OBVIOUS
    <3> HIDE DEF n
    <3> QED BY <1>1, <3>2, <3>3, <3>4
  <2>2. expression[n].name \notin DOMAIN input
    <3>1. c.node \in Dots(expression)
      BY <1>1, <1>2, TreeFacts DEF Dots
    <3> QED BY <3>1 DEF IdsApart, Id
  <2>3. Last(evals) = m[n]
    <3>1. 1 \in 1..Held(c, 0) /\ Len(evals) = h[Len(calls)] + 1
      BY <1>1, <1>5
    <3> QED BY <1>1, <1>2, <3>1 DEF Slice, Arg, Last
  <2>4. Means(expression, input, n, m, m[n])
    BY <1>2, <2>1, MeaningFacts DEF m
  <2> HIDE DEF n
  <2> QED BY <2>1, <2>2, <2>3, <2>4 DEF Means
<1>8. /\ Pop(evals) \in Seq(Stored) /\ Len(Pop(evals)) = h[Len(calls)]
      /\ \A p \in 1..h[Len(calls)] : Pop(evals)[p] = evals[p]
      /\ Pop(not_found) \in Seq(STRING) /\ Noted(Pop(evals), Pop(not_found))
  <2>1. Len(evals) = h[Len(calls)] + 1 /\ Len(evals) - 1 = h[Len(calls)]
    BY <1>1, <1>5
  <2>2. evals # <<>>
    BY <1>1, <2>1
  <2>3. /\ Pop(evals) \in Seq(Stored) /\ Len(Pop(evals)) = Len(evals) - 1
        /\ \A p \in 1..(Len(evals) - 1) : Pop(evals)[p] = evals[p]
    BY <1>1, <2>2, PopFacts
  <2>4. Pop(not_found) \in Seq(STRING) /\ Noted(Pop(evals), Pop(not_found))
    BY <1>1, <1>3, <1>7, <2>2, PopNoted
  <2> QED BY <2>1, <2>3, <2>4
<1> QED
  BY <1>1, <1>2, <1>3, <1>6, <1>8 DEF m, c

LEMMA AtIdStep ==
  ASSUME EvalInv, AtId
  PROVE  EvalInv'
<1> DEFINE m == Meanings(expression, input)  n == Innermost.node  a == Innermost.taken[1]
<1>1. outcome = "evaluating" /\ expression \in Trees
  BY DEF AtId, EvalInv
<1>2. IdsApart =>
        /\ not_found # <<>>
        /\ m[n] = IF a = NullPointer THEN NoContainer
                  ELSE IF Last(not_found) \in a.members THEN Bool(TRUE) ELSE Error
  BY AtIdFacts
<1> HIDE DEF m
<1>3. ASSUME NEW f \in Failures, IdsApart, m[n] = f
      PROVE  Meaning(expression, input) = f
  BY <1>1, <1>3, Climbs DEF m
<1>4. CASE not_found = <<>>
  <2>1. Stop("error") /\ ~IdsApart
    BY <1>2, <1>4 DEF AtId, Throw
  <2> QED BY <2>1, Stops
<1>5. CASE not_found # <<>> /\ a = NullPointer
  <2>1. Stop("null_container")
    BY <1>5 DEF AtId
  <2>2. IdsApart => Meaning(expression, input) = NoContainer
    BY <1>2, <1>3, <1>5 DEF Failures
  <2> QED BY <2>1, <2>2, Stops
<1>6. CASE not_found # <<>> /\ a # NullPointer /\ Last(not_found) \notin a.members
  <2>1. Stop("error")
    BY <1>6 DEF AtId, Throw
  <2>2. IdsApart => Meaning(expression, input) = Error
    BY <1>2, <1>3, <1>6 DEF Failures
  <2> QED BY <2>1, <2>2, Stops
<1>7. CASE not_found # <<>> /\ a # NullPointer /\ Last(not_found) \in a.members
  <2>1. /\ calls' = Pop(calls) /\ evals' = Append(Pop(evals), Bool(TRUE)) /\ not_found' = Pop(not_found)
        /\ outcome' = "evaluating" /\ UNCHANGED <<expression, input>>
    BY <1>1, <1>7 DEF AtId, Returns
  <2>2. ASSUME IdsApart
        PROVE  \E h : Fitted(expression, m, calls', evals', not_found', h)
    <3>1. PICK h :
            /\ Fitted(expression, m, calls, evals, not_found, h)
            /\ Innermost = calls[Len(calls)] /\ expression[n].op = "."
            /\ Pop(evals) \in Seq(Stored) /\ Len(Pop(evals)) = h[Len(calls)] /\ h[Len(calls)] \in Nat
            /\ \A p \in 1..h[Len(calls)] : Pop(evals)[p] = evals[p]
            /\ Pop(not_found) \in Seq(STRING) /\ Noted(Pop(evals), Pop(not_found))
      BY <2>2, AtIdFacts DEF m
    <3>2. m[n] = Bool(TRUE) /\ Bool(TRUE) \in Jsons /\ Bool(TRUE) \in Stored
      BY <1>2, <1>7, <2>2, ValueTypes DEF Stored
    <3>3. expression[calls[Len(calls)].node].op # "list" /\ Bool(TRUE) = m[calls[Len(calls)].node]
      BY <3>1, <3>2
    <3> HIDE DEF n
    <3>4. \E g : Fitted(expression, m, Pop(calls), Append(Pop(evals), Bool(TRUE)), Pop(not_found), g)
      <4> DEFINE v == Bool(TRUE)  below == Pop(evals)  names2 == Pop(not_found)
      <4>1. v \in Jsons /\ v = m[calls[Len(calls)].node] /\ expression[calls[Len(calls)].node].op # "list"
        BY <3>2, <3>3
      <4>2. below \in Seq(Stored) /\ Len(below) = h[Len(calls)] /\ h[Len(calls)] \in Nat
        BY <3>1
      <4>3. \A p \in 1..h[Len(calls)] : below[p] = evals[p]
        BY <3>1
      <4>4. names2 \in Seq(STRING) /\ Noted(below, names2) /\ Fitted(expression, m, calls, evals, not_found, h)
        BY <3>1
      <4> HIDE DEF v, below, names2
      <4>5. \E g : Fitted(expression, m, Pop(calls), Append(below, v), names2, g)
        BY <1>1, <4>1, <4>2, <4>3, <4>4, TopReturnsValue
      <4> QED BY <4>5 DEF v, below, names2
    <3> QED BY <2>1, <3>4
  <2> QED BY <2>1, <2>2, GoesOn DEF m
<1> QED
  BY <1>4, <1>5, <1>6, <1>7

\* At the end there is no other call, and one value.
LEMMA EndFacts ==
  ASSUME EvalInv, IdsApart, EndOfExpression
  PROVE  /\ evals \in Seq(Stored) /\ Len(evals) = 1 /\ not_found \in Seq(STRING) /\ Noted(evals, not_found)
         /\ Meaning(expression, input) = IF Last(evals) = NullPointer THEN Error ELSE Last(evals)
<1> DEFINE m == Meanings(expression, input)  c == Innermost  k == Len(calls)
<1>1. PICK h :
         /\ Under(expression, m, calls, evals, h, k)
         /\ c = calls[k] /\ Node = expression[c.node] /\ k \in Nat /\ k >= 1
         /\ CallOK(expression, m, c, 0)
         /\ evals \in Seq(Stored) /\ not_found \in Seq(STRING) /\ Noted(evals, not_found)
         /\ Len(evals) = h[k] + Held(c, 0)
         /\ Slice(expression, m, c, 0, evals, h[k])
         /\ c.node \in 1..Len(expression)
  BY InnermostFacts DEF EndOfExpression
<1>2. expression \in Trees /\ expression[c.node].op = "list" /\ c.visited = 1
  BY <1>1 DEF EvalInv, EndOfExpression
<1>3. c.node = Len(expression)
  BY <1>1, <1>2, TreeFacts
<1> HIDE DEF m, c
<1>4. k = 1
  <2>1. SUFFICES ASSUME k # 1 PROVE FALSE
    OBVIOUS
  <2> DEFINE b == calls[k - 1]
  <2>2. k - 1 \in 1..(k - 1) /\ (k - 1) + 1 = k
    <3>1. \A i \in Nat : i >= 1 /\ i # 1 => i - 1 \in 1..(i - 1) /\ (i - 1) + 1 = i
      OBVIOUS
    <3> HIDE DEF k
    <3> QED BY <1>1, <2>1, <3>1
  <2> HIDE DEF k
  <2>3. BusyOK(expression, m, calls, evals, h, k - 1)
    BY <1>1, <2>2 DEF Under
  <2>4. c.node = Arg(expression, b, b.visited) /\ CallOK(expression, m, b, 1)
    BY <1>1, <2>2, <2>3 DEF BusyOK
  <2> HIDE DEF b
  <2>5. b.visited \in {1, 2} /\ b.visited <= Arity[expression[b.node].op] /\ b.node \in 1..Len(expression)
    <3>1. b.visited \in {0, 1, 2} /\ Len(b.taken) \in Nat
      BY <2>4, CallTypes
    <3>2. Len(b.taken) + 1 <= b.visited /\ b.visited <= Arity[expression[b.node].op] /\ b.node \in 1..Len(expression)
      BY <2>4 DEF CallOK
    <3> QED BY <3>1, <3>2
  <2>6. expression[b.node].op \in DOMAIN Arity /\ Arity[expression[b.node].op] \in {0, 1, 2}
    BY <1>2, <2>5, TreeFacts DEF Arity
  <2>7. c.node \in 1..(b.node - 1)
    BY <1>2, <2>4, <2>5, <2>6, TreeFacts DEF Arg
  <2> QED BY <1>2, <1>3, <2>5, <2>7, TreeFacts
<1>5. h[1] = 0
  BY <1>1 DEF Under
<1>6. Len(c.taken) = 0
  <2>1. Len(c.taken) \in {0, 1, 2} /\ ~(Len(c.taken) >= 1)
    <3>1. Len(c.taken) \in {0, 1, 2}
      BY <1>1, CallTypes
    <3> QED BY <1>1, <1>2, <3>1 DEF CallOK
  <2> QED BY <2>1
<1>7. Held(c, 0) = 1
  BY <1>2, <1>6 DEF Held
<1>8. Len(evals) = 1
  BY <1>1, <1>4, <1>5, <1>7
<1>9. Last(evals) = m[expression[c.node].arguments[1]]
  <2>1. 1 \in 1..Held(c, 0) /\ h[k] + 1 = 1
    BY <1>4, <1>5, <1>7
  <2> QED BY <1>1, <1>2, <1>8, <2>1 DEF Slice, Arg, Last
<1>10. m[c.node] = Needs(Last(evals), Last(evals))
  <2>1. Means(expression, input, c.node, m, m[c.node])
    BY <1>1, <1>2, MeaningFacts DEF m
  <2> QED BY <1>2, <1>9, <2>1 DEF Means
<1>11. Last(evals) \in Stored
  <2>1. evals \in Seq(Stored)
    BY <1>1
  <2> QED BY <1>8, <2>1 DEF Last
<1>12. m[c.node] = IF Last(evals) = NullPointer THEN Error ELSE Last(evals)
  BY <1>10, <1>11, NeedsFacts DEF Stored
<1> QED
  BY <1>1, <1>3, <1>8, <1>12 DEF m, Meaning

LEMMA EndStep ==
  ASSUME EvalInv, EndOfExpression
  PROVE  EvalInv'
<1>1. CASE Len(evals) = 1 /\ Last(evals) # NullPointer
  <2>1. outcome' = "done" /\ result' = Last(evals) /\ evals' = <<>> /\ UNCHANGED <<expression, input, not_found>>
    BY <1>1 DEF EndOfExpression
  <2>2. IdsApart' <=> IdsApart
    BY <2>1 DEF IdsApart
  <2>3. ASSUME IdsApart
        PROVE  /\ Meaning(expression, input) = Last(evals) /\ Last(evals) \in Jsons
               /\ not_found = <<>>
    <3>1. /\ evals \in Seq(Stored) /\ not_found \in Seq(STRING) /\ Noted(evals, not_found)
          /\ Meaning(expression, input) = Last(evals)
      BY <1>1, <2>3, EndFacts
    <3>2. Last(evals) \in Jsons
      <4>1. Last(evals) \in Stored
        <5>1. evals \in Seq(Stored) /\ Len(evals) = 1
          BY <1>1, <3>1
        <5>2. evals[1] \in Stored
          <6>1. \A i \in 1..Len(evals) : evals[i] \in Stored
            BY <5>1, ElementOfSeq
          <6> QED BY <5>1, <6>1
        <5> QED BY <5>1, <5>2 DEF Last
      <4> QED BY <1>1, <4>1 DEF Stored
    <3>3. Nulls(evals) = {}
      BY <1>1 DEF Nulls, Last
    <3>4. Len(not_found) = 0
      BY <3>1, <3>3, FS_EmptySet DEF Noted
    <3> QED BY <3>1, <3>2, <3>4
  <2> QED
    BY <2>1, <2>2, <2>3 DEF EvalInv, EvaluatesAsMeant, MissingNamesConsumed
<1>2. CASE ~(Len(evals) = 1 /\ Last(evals) # NullPointer)
  <2>1. Stop("error")
    BY <1>2 DEF EndOfExpression, Throw
  <2>2. IdsApart => Meaning(expression, input) = Error
    BY <1>2, EndFacts
  <2> QED BY <2>1, <2>2, Stops
<1> QED
  BY <1>1, <1>2

(* What has been evaluated is what is meant, whatever waits for it.            *)
THEOREM EvalInvariant == EvalSpec => []EvalInv
<1>1. EvalInit => EvalInv
  <2> SUFFICES ASSUME EvalInit PROVE EvalInv
    OBVIOUS
  <2> DEFINE m == Meanings(expression, input)  n == Len(expression)  h == [j \in 1..1 |-> 0]  c == Call(n)
  <2>1. n \in 1..Len(expression) /\ expression[n].op = "list" /\ expression \in Trees /\ input \in Inputs
    BY TreeFacts DEF EvalInit
  <2> HIDE DEF m, n
  <2>2. c.node = n /\ c.visited = 0 /\ Len(c.taken) = 0 /\ c.taken \in Seq(Stored)
    BY DEF Call
  <2>3. c \in CallType
    <3>1. <<>> \in Seq(Stored) /\ n \in Nat
      BY <2>1
    <3> QED BY <3>1 DEF Call, CallType
  <2>4. calls = <<c>> /\ evals = <<>> /\ not_found = <<>> /\ outcome = "evaluating"
    BY DEF EvalInit, n
  <2> HIDE DEF c
  <2>5. calls \in Seq(CallType) /\ Len(calls) = 1 /\ calls[1] = c
    BY <2>3, <2>4
  <2>6. CallOK(expression, m, c, 0) /\ Held(c, 0) = 0
    <3>1. Arity["list"] = 1 /\ "list" \in DOMAIN Arity \ Leaves
      BY DEF Arity, Leaves
    <3> QED BY <2>1, <2>2, <2>3, <3>1 DEF CallOK, Held
  <2>7. h \in [1..1 -> Nat] /\ h[1] = 0
    OBVIOUS
  <2> HIDE DEF h
  <2>8. Under(expression, m, calls, evals, h, 1)
    BY <2>2, <2>5, <2>7 DEF Under, n
  <2>9. Slice(expression, m, c, 0, evals, h[1]) /\ KnowsId(expression, c, not_found)
    BY <2>2, <2>6 DEF Slice, KnowsId
  <2>10. evals \in Seq(Stored) /\ not_found \in Seq(STRING) /\ Len(evals) = 0 /\ Len(not_found) = 0
    BY <2>4
  <2>11. Noted(evals, not_found)
    <3>1. Nulls(evals) = {}
      BY <2>10 DEF Nulls
    <3> QED BY <2>10, <3>1, FS_EmptySet DEF Noted
  <2>12. Fitted(expression, m, calls, evals, not_found, h)
    BY <2>5, <2>6, <2>7, <2>8, <2>9, <2>10, <2>11 DEF Fitted
  <2> QED
    BY <2>1, <2>4, <2>12 DEF EvalInv, EvaluatesAsMeant, MissingNamesConsumed, m
<1>2. EvalInv /\ [EvalNext]_evalVars => EvalInv'
  <2> SUFFICES ASSUME EvalInv, [EvalNext]_evalVars PROVE EvalInv'
    OBVIOUS
  <2>1. CASE EvalNext
    BY <2>1, VisitFunctionStep, VisitLiteralStep, VisitDataStep, TakeValueStep, TakeMissingStep,
       ReturnStep, AtIdStep, EndStep DEF EvalNext
  <2>2. CASE UNCHANGED evalVars
    BY <2>2 DEF evalVars, EvalInv, IdsApart, EvaluatesAsMeant, MissingNamesConsumed
  <2> QED BY <2>1, <2>2
<1> QED
  BY <1>1, <1>2, PTL DEF EvalSpec

(* The stacks give an expression the value, or the error, that its operators   *)
(* give it: whatever the expression and the data, if what a dot looks for is    *)
(* not a name of the data.                                                      *)
THEOREM EvaluatesAsMeantHolds == EvalSpec => []EvaluatesAsMeant
<1>1. EvalInv => EvaluatesAsMeant
  BY DEF EvalInv
<1> QED
  BY <1>1, EvalInvariant, PTL

(* An evaluation that ends has consumed the name of every missing value it met, *)
(* and none has asked for a name that was not there.                            *)
THEOREM MissingNamesConsumedHolds == EvalSpec => []MissingNamesConsumed
<1>1. EvalInv => MissingNamesConsumed
  BY DEF EvalInv
<1> QED
  BY <1>1, EvalInvariant, PTL
=============================================================================
