--------------------------- MODULE InjaParserProofs ---------------------------
(* Proofs about inja's parser, for templates of any length: the scanner         *)
(* (InjaLexer), and then the statements (InjaStatement).                        *)
(*                                                                              *)
(* The scanner: what it lost between two tokens is known at the second, but     *)
(* whether it was asked for depends on the first, or on the tag it is yet to     *)
(* read.  So the invariant says for each state what lies between the last token *)
(* and the position, and that the opening sequence the state stands for is there. *)
(*                                                                              *)
(* The statements: if the tags nest, the three stacks are one stack in disguise: *)
(* merged in the order of the nodes' numbers, each open construct stands in the  *)
(* one just below it, and the current block is in the last.  An endif takes      *)
(* several at once; what it takes is the end of that merged stack because no loop *)
(* and no block is open between an if and the ifs that its elses made.           *)
(*                                                                              *)
(* The nesting: what a block is in is the least set that has it and, with each   *)
(* block, the one that this is in.  So facts about it need no induction: give a  *)
(* set that is closed in this way.  What is around the current block is what is  *)
(* on the stacks, and what is around its outer blocks is what is further out.    *)
EXTENDS InjaLexer, StatementRefinement, WellFoundedInduction, SequenceTheorems, TLAPS

-----------------------------------------------------------------------------
(* Positions. *)

LEMMA LeastElement ==
  ASSUME NEW S \in SUBSET Nat, S # {}
  PROVE  Min(S) \in S /\ \A y \in S : Min(S) <= y
<1>1. IsWellFoundedOn(OpToRel(<, Nat), Nat)
  BY NatLessThanWellFounded
<1>2. PICK x \in S : \A y \in S : ~ (<<y, x>> \in OpToRel(<, Nat))
  BY <1>1, WFMin
<1>3. \A y \in S : ~ (y < x)
  BY <1>2 DEF OpToRel
<1>4. \A y \in S : x <= y
  BY <1>3
<1> QED
  BY <1>4 DEF Min

TypeOfInput ==
  /\ input \in Seq(Characters)
  /\ config \in [{"trim_blocks", "lstrip_blocks"} -> BOOLEAN]

LEMMA FirstFacts ==
  ASSUME TypeOfInput, NEW from \in 0..Size, NEW stops, stops \subseteq from..(Size - 1)
  PROVE  /\ First(stops) \in from..Size
         /\ First(stops) # Size => First(stops) \in stops
         /\ \A q \in from..(First(stops) - 1) : q \notin stops
<1>1. Size \in Nat
  BY DEF TypeOfInput, Size
<1>2. stops \cup {Size} \in SUBSET Nat /\ stops \cup {Size} # {}
  BY <1>1
<1>3. /\ First(stops) \in stops \cup {Size}
      /\ \A y \in stops \cup {Size} : First(stops) <= y
  BY <1>2, LeastElement DEF First
<1>4. First(stops) \in from..Size
  <2>1. from \in Nat /\ from <= Size
    BY <1>1
  <2>2. CASE First(stops) \in stops
    <3>1. First(stops) \in from..(Size - 1)
      BY <2>2
    <3> QED
      BY <1>1, <2>1, <3>1
  <2>3. CASE First(stops) = Size
    BY <1>1, <2>1, <2>3
  <2> QED
    BY <1>3, <2>2, <2>3
<1>5. \A q \in from..(First(stops) - 1) : q \notin stops
  BY <1>1, <1>3, <1>4
<1> QED
  BY <1>3, <1>4, <1>5

LEMMA StartsWithFacts ==
  ASSUME TypeOfInput, NEW q \in Nat, NEW C, NEW prefix \in Seq(C), StartsWith(q, prefix)
  PROVE  /\ q + Len(prefix) <= Size
         /\ \A k \in 1..Len(prefix) : At(q + k - 1) = prefix[k]
<1>1. Len(prefix) \in Nat /\ q + Len(prefix) <= Size
  BY DEF StartsWith
<1>2. ASSUME NEW k \in 1..Len(prefix)
      PROVE  At(q + k - 1) = prefix[k]
  <2>1. SubSeq(input, q + 1, q + Len(prefix))[k] = input[q + 1 + k - 1]
    BY <1>1 DEF TypeOfInput, Size
  <2> QED
    BY <2>1, <1>1 DEF StartsWith, At
<1> QED
  BY <1>1, <1>2

LEMMA StripFacts ==
  ASSUME TypeOfInput, NEW p \in 0..Size, NEW q \in p..Size
  PROVE  /\ ClearFinalLine(p, q) \in p..q
         /\ \A i \in ClearFinalLine(p, q)..(q - 1) : At(i) \in Spaces
<1> DEFINE S == {i \in p..q : \A j \in i..(q - 1) : At(j) \in Spaces}
<1>1. Size \in Nat
  BY DEF TypeOfInput, Size
<1>2. q \in S /\ S \in SUBSET Nat
  BY <1>1
<1>3. Min(S) \in S
  BY <1>2, LeastElement
<1> QED
  BY <1>1, <1>3 DEF ClearFinalLine

LEMMA SkipFacts ==
  ASSUME TypeOfInput, NEW p \in 0..Size
  PROVE  /\ SkipWhitespacesAndNewlines(p) \in p..Size
         /\ \A i \in p..(SkipWhitespacesAndNewlines(p) - 1) : At(i) \in Blanks
         /\ SkipWhitespacesAndFirstNewline(p) \in p..Size
         /\ \A i \in p..(SkipWhitespacesAndFirstNewline(p) - 1) : At(i) \in Blanks
<1>1. Size \in Nat
  BY DEF TypeOfInput, Size
<1>2. /\ SkipWhitespacesAndNewlines(p) \in p..Size
      /\ \A i \in p..(SkipWhitespacesAndNewlines(p) - 1) : At(i) \in Blanks
  <2> DEFINE stops == {i \in p..(Size - 1) : At(i) \notin Blanks}
  <2>1. /\ First(stops) \in p..Size
        /\ \A i \in p..(First(stops) - 1) : i \notin stops
    BY FirstFacts
  <2>2. SkipWhitespacesAndNewlines(p) = First(stops)
    BY DEF SkipWhitespacesAndNewlines
  <2>3. \A i \in p..(First(stops) - 1) : i \in p..(Size - 1)
    BY <1>1, <2>1
  <2>4. \A i \in p..(First(stops) - 1) : At(i) \in Blanks
    BY <2>1, <2>3
  <2> QED
    BY <2>1, <2>2, <2>4
<1> DEFINE stops == {i \in p..(Size - 1) : At(i) \notin Spaces}
           n == First(stops)
           end == SkipWhitespacesAndFirstNewline(p)
<1>3. n \in p..Size /\ \A i \in p..(n - 1) : i \notin stops
  BY FirstFacts
<1>4. \A i \in p..(n - 1) : At(i) \in Spaces
  <2>1. \A i \in p..(n - 1) : i \in p..(Size - 1)
    BY <1>1, <1>3
  <2> QED
    BY <1>3, <2>1
<1> HIDE DEF n, end
<1>5. Spaces \subseteq Blanks
  BY DEF Spaces, Blanks
<1>6. CASE StartsWith(n, <<"\r", "\n">>)
  <2>1. n + 2 <= Size /\ At(n) = "\r" /\ At(n + 1) = "\n"
    <3> DEFINE s == <<"\r", "\n">>
    <3>1. s \in Seq({"\r", "\n"}) /\ Len(s) = 2 /\ s[1] = "\r" /\ s[2] = "\n"
      OBVIOUS
    <3> HIDE DEF s
    <3>2. StartsWith(n, s)
      BY <1>6 DEF s
    <3>3. n + Len(s) <= Size /\ \A k \in 1..Len(s) : At(n + k - 1) = s[k]
      BY <1>1, <1>3, <3>1, <3>2, StartsWithFacts
    <3>4. n \in Int
      BY <1>1, <1>3
    <3> QED
      BY <3>1, <3>3, <3>4
  <2>2. end = n + 2
    BY <1>6 DEF SkipWhitespacesAndFirstNewline, n, end
  <2>3. end \in p..Size
    BY <1>1, <1>3, <2>1, <2>2
  <2>4. ASSUME NEW i \in p..(end - 1)
        PROVE  At(i) \in Blanks
    <3>1. i \in p..(n - 1) \/ i = n \/ i = n + 1
      BY <1>1, <1>3, <2>2
    <3>2. {"\r", "\n"} \subseteq Blanks
      BY DEF Blanks
    <3> QED
      BY <1>4, <1>5, <2>1, <3>1, <3>2
  <2> QED
    BY <1>2, <2>3, <2>4 DEF end
<1>7. CASE ~StartsWith(n, <<"\r", "\n">>) /\ n < Size /\ At(n) \in {"\n", "\r"}
  <2>1. end = n + 1
    BY <1>7 DEF SkipWhitespacesAndFirstNewline, n, end
  <2>3. end \in p..Size
    BY <1>1, <1>3, <1>7, <2>1
  <2>4. ASSUME NEW i \in p..(end - 1)
        PROVE  At(i) \in Blanks
    <3>1. i \in p..(n - 1) \/ i = n
      BY <1>1, <1>3, <2>1
    <3>2. {"\r", "\n"} \subseteq Blanks
      BY DEF Blanks
    <3> QED
      BY <1>4, <1>5, <1>7, <3>1, <3>2
  <2> QED
    BY <1>2, <2>3, <2>4 DEF end
<1>8. CASE ~StartsWith(n, <<"\r", "\n">>) /\ ~(n < Size /\ At(n) \in {"\n", "\r"})
  <2>1. end = n
    BY <1>8 DEF SkipWhitespacesAndFirstNewline, n, end
  <2> QED
    BY <1>2, <1>3, <1>4, <1>5, <2>1 DEF end
<1> QED
  BY <1>6, <1>7, <1>8
-----------------------------------------------------------------------------
(* What follows the last token. *)

Last == tokens[Len(tokens)]

OpenKinds == {"ExpressionOpen", "StatementOpen", "CommentOpen", "LineStatementOpen"}
CloseKinds == {"ExpressionClose", "StatementClose", "CommentClose", "LineStatementClose"}
BodyKinds ==
  {"Id", "Number", "Minus", "String", "Plus", "Times", "Slash", "Power", "Percent", "Dot", "Comma",
   "Colon", "LeftParen", "RightParen", "LeftBracket", "RightBracket", "LeftBrace", "RightBrace",
   "GreaterEqual", "LessEqual", "Equal", "NotEqual", "GreaterThan", "LessThan", "Unknown"}
TokenKinds == OpenKinds \cup CloseKinds \cup BodyKinds \cup {"Text", "Eof"}
Token == [kind : TokenKinds, from : Nat, to : Nat]

(* The state after the text before a tag stands for the opening sequence there. *)
OpenerHere(p, s) == \A i \in DOMAIN Openers : s = Openers[i].state => StartsWith(p, Openers[i].open)

(* Stripping on the far side of a tag is asked for by its own '-' or by the     *)
(* configuration.                                                              *)
AskedRight(a) == IsClose(a) /\ (config.trim_blocks \/ (a.to >= 3 /\ At(a.to - 3) = "-"))
AskedLeft(b) == IsOpen(b) /\ (config.lstrip_blocks \/ At(b.from + 2) = "-")

(* Between the end of token a and position p, where state s was reached, lies   *)
(* only what may be lost there.                                                *)
Reached(a, p, s) ==
  /\ a.to \in 0..p /\ a.kind # "Eof"
  /\ \A q \in a.to..(p - 1) : At(q) \in Blanks
  /\ s \in DOMAIN Closers => a.to = p /\ (IsOpen(a) \/ a.kind \in BodyKinds)
  /\ s = "Comment" => a.to = p /\ p >= 2 /\ IsOpen(a)
  /\ s = "Text" => (a.kind = "Text" /\ a.to = p) \/ (IsClose(a) /\ (a.to < p => AskedRight(a)))
  /\ \A i \in DOMAIN Openers : s = Openers[i].state =>
       /\ a.kind = "Text"
       /\ \A q \in a.to..(p - 1) : At(q) \in Spaces
       /\ a.to < p => Strips(Openers[i])

(* The pairs of neighbouring tokens that LostTextIsAskedFor allows. *)
LostBetween(a, b) ==
  LET InBody == a.kind # "Text" /\ ~IsClose(a)
  IN  /\ a.to <= b.from
      /\ \A q \in a.to..(b.from - 1) : At(q) \in Blanks
      /\ a.to < b.from => InBody \/ AskedLeft(b) \/ AskedRight(a)
      /\ InBody \/ AskedRight(a) \/ \A q \in a.to..(b.from - 1) : At(q) \in Spaces

(* A scan that returns b reads a '-' by minus_state and leaves in it whether b  *)
(* ends an operand; tokens outside of bodies leave it alone.                   *)
Signed(b) ==
  /\ b.kind \in BodyKinds => (minus_state' = "Operator" <=> EndsOperand(b))
  /\ b.kind \in {"Minus", "Number"} /\ At(b.from) = "-" => (b.kind = "Minus" <=> minus_state = "Operator")
  /\ b.kind \notin BodyKinds => UNCHANGED minus_state

States == {"Text", "Comment"} \cup DOMAIN Closers \cup {Openers[i].state : i \in DOMAIN Openers}

LexIInv ==
  /\ TypeOfInput
  /\ pos \in 0..Size /\ state \in States /\ minus_state \in {"Operator", "Number"}
  /\ tokens \in Seq(Token)
  /\ OpenerHere(pos, state)
  /\ tokens = <<>> => state = "Text"
  /\ tokens # <<>> => Finished \/ Reached(Last, pos, state)
  /\ minus_state = "Operator" <=> OperandBefore(Len(tokens))
  /\ LostTextIsAskedFor /\ MinusFollowsOperand

(* What a scan that returns b does. *)
Scanned(b) ==
  /\ tokens' = Append(tokens, b) /\ UNCHANGED <<input, config>>
  /\ pos' \in 0..Size /\ state' \in States /\ minus_state' \in {"Operator", "Number"}
  /\ pos' > pos \/ b.kind = "Eof"
  /\ OpenerHere(pos', state')
  /\ b.kind = "Eof" \/ Reached(b, pos', state')
  /\ tokens # <<>> => LostBetween(Last, b)
  /\ Signed(b)

(* The tables of opening and closing sequences. *)

Marks == {"{", "}", "%", "#", "-", "+", "\n"}

LEMMA MarkSequences ==
  ASSUME NEW a \in Marks, NEW b \in Marks, NEW c \in Marks
  PROVE  /\ <<a>> \in Seq(Marks) /\ Len(<<a>>) = 1 /\ <<a>>[1] = a
         /\ <<a, b>> \in Seq(Marks) /\ Len(<<a, b>>) = 2
         /\ <<a, b, c>> \in Seq(Marks) /\ Len(<<a, b, c>>) = 3
         /\ <<a, b, c>>[1] = a /\ <<a, b, c>>[3] = c
OBVIOUS

Bodies == {"Expression", "Statement", "LineStatement"}

LEMMA CloserFacts ==
  /\ DOMAIN Closers = Bodies
  /\ \A s \in Bodies :
       /\ Closers[s].token \in CloseKinds
       /\ Closers[s].close \in Seq(Marks) /\ Len(Closers[s].close) \in {1, 2}
       /\ Closers[s].close_trim # <<>> =>
            /\ Closers[s].close_trim \in Seq(Marks) /\ Len(Closers[s].close_trim) = 3
            /\ Closers[s].close_trim[1] = "-"
<1> DEFINE close == <<"}", "}">>
           close_trim == <<"-", "}", "}">>
           closeStatement == <<"%", "}">>
           trimStatement == <<"-", "%", "}">>
           newline == <<"\n">>
<1>1. close \in Seq(Marks) /\ Len(close) = 2
  BY MarkSequences DEF Marks
<1>2. closeStatement \in Seq(Marks) /\ Len(closeStatement) = 2
  BY MarkSequences DEF Marks
<1>3. newline \in Seq(Marks) /\ Len(newline) = 1
  BY MarkSequences DEF Marks
<1>4. close_trim \in Seq(Marks) /\ Len(close_trim) = 3 /\ close_trim[1] = "-"
  BY MarkSequences DEF Marks
<1>5. trimStatement \in Seq(Marks) /\ Len(trimStatement) = 3 /\ trimStatement[1] = "-"
  BY MarkSequences DEF Marks
<1>6. Closers = [Expression |-> [token |-> "ExpressionClose", close |-> close, close_trim |-> close_trim],
                 Statement  |-> [token |-> "StatementClose", close |-> closeStatement, close_trim |-> trimStatement],
                 LineStatement |-> [token |-> "LineStatementClose", close |-> newline, close_trim |-> <<>>]]
  BY DEF Closers
<1> HIDE DEF close, close_trim, closeStatement, trimStatement, newline
<1> QED
  BY <1>1, <1>2, <1>3, <1>4, <1>5, <1>6 DEF CloseKinds, Bodies

OpenerOK(o) ==
  /\ o.open \in Seq(Marks) /\ Len(o.open) \in {2, 3}
  /\ o.token \in OpenKinds /\ o.body \in Bodies \cup {"Comment"}
  /\ o.state \notin Bodies \cup {"Comment", "Text"}
  /\ o.lstrip \in {"always", "never", "lstrip_blocks"}
  /\ o.lstrip = "always" => Len(o.open) = 3 /\ o.open[3] = "-"

LEMMA OpenerFacts ==
  /\ DOMAIN Openers = 1..8
  /\ \A i \in DOMAIN Openers : OpenerOK(Openers[i])
  /\ \A i, j \in DOMAIN Openers : Openers[i].state = Openers[j].state => i = j
<1>1. DOMAIN Openers = 1..8
  BY DEF Openers
<1>2. \A i \in 1..8 : i \in {1, 2, 3, 4, 5, 6, 7, 8}
  OBVIOUS
<1>3. \A i \in 1..8 : OpenerOK(Openers[i])
  <2> USE DEF Opener, OpenerOK, OpenKinds, Bodies
  <2>1. OpenerOK(Openers[1])
    <3> DEFINE q == <<"{", "{", "-">>
    <3>1. q \in Seq(Marks) /\ Len(q) = 3 /\ q[3] = "-"
      BY MarkSequences DEF Marks
    <3>2. Openers[1] = Opener(q, "ExpressionStartForceLstrip", "ExpressionOpen", "Expression", "always")
      BY DEF Openers
    <3> HIDE DEF q
    <3> QED
      BY <3>1, <3>2
  <2>2. OpenerOK(Openers[2])
    <3> DEFINE q == <<"{", "{">>
    <3>1. q \in Seq(Marks) /\ Len(q) = 2
      BY MarkSequences DEF Marks
    <3>2. Openers[2] = Opener(q, "ExpressionStart", "ExpressionOpen", "Expression", "never")
      BY DEF Openers
    <3> HIDE DEF q
    <3> QED
      BY <3>1, <3>2
  <2>3. OpenerOK(Openers[3])
    <3> DEFINE q == <<"{", "%", "+">>
    <3>1. q \in Seq(Marks) /\ Len(q) = 3 /\ q[3] = "+"
      BY MarkSequences DEF Marks
    <3>2. Openers[3] = Opener(q, "StatementStartNoLstrip", "StatementOpen", "Statement", "never")
      BY DEF Openers
    <3> HIDE DEF q
    <3> QED
      BY <3>1, <3>2
  <2>4. OpenerOK(Openers[4])
    <3> DEFINE q == <<"{", "%", "-">>
    <3>1. q \in Seq(Marks) /\ Len(q) = 3 /\ q[3] = "-"
      BY MarkSequences DEF Marks
    <3>2. Openers[4] = Opener(q, "StatementStartForceLstrip", "StatementOpen", "Statement", "always")
      BY DEF Openers
    <3> HIDE DEF q
    <3> QED
      BY <3>1, <3>2
  <2>5. OpenerOK(Openers[5])
    <3> DEFINE q == <<"{", "%">>
    <3>1. q \in Seq(Marks) /\ Len(q) = 2
      BY MarkSequences DEF Marks
    <3>2. Openers[5] = Opener(q, "StatementStart", "StatementOpen", "Statement", "lstrip_blocks")
      BY DEF Openers
    <3> HIDE DEF q
    <3> QED
      BY <3>1, <3>2
  <2>6. OpenerOK(Openers[6])
    <3> DEFINE q == <<"{", "#", "-">>
    <3>1. q \in Seq(Marks) /\ Len(q) = 3 /\ q[3] = "-"
      BY MarkSequences DEF Marks
    <3>2. Openers[6] = Opener(q, "CommentStartForceLstrip", "CommentOpen", "Comment", "always")
      BY DEF Openers
    <3> HIDE DEF q
    <3> QED
      BY <3>1, <3>2
  <2>7. OpenerOK(Openers[7])
    <3> DEFINE q == <<"{", "#">>
    <3>1. q \in Seq(Marks) /\ Len(q) = 2
      BY MarkSequences DEF Marks
    <3>2. Openers[7] = Opener(q, "CommentStart", "CommentOpen", "Comment", "lstrip_blocks")
      BY DEF Openers
    <3> HIDE DEF q
    <3> QED
      BY <3>1, <3>2
  <2>8. OpenerOK(Openers[8])
    <3> DEFINE q == <<"#", "#">>
    <3>1. q \in Seq(Marks) /\ Len(q) = 2
      BY MarkSequences DEF Marks
    <3>2. Openers[8] = Opener(q, "LineStart", "LineStatementOpen", "LineStatement", "never")
      BY DEF Openers
    <3> HIDE DEF q
    <3> QED
      BY <3>1, <3>2
  <2> HIDE DEF OpenerOK
  <2> QED
    BY ONLY <1>2, <2>1, <2>2, <2>3, <2>4, <2>5, <2>6, <2>7, <2>8
<1>4. \A i, j \in 1..8 : Openers[i].state = Openers[j].state => i = j
  <2>1. /\ Openers[1].state = "ExpressionStartForceLstrip" /\ Openers[2].state = "ExpressionStart"
        /\ Openers[3].state = "StatementStartNoLstrip" /\ Openers[4].state = "StatementStartForceLstrip"
        /\ Openers[5].state = "StatementStart" /\ Openers[6].state = "CommentStartForceLstrip"
        /\ Openers[7].state = "CommentStart" /\ Openers[8].state = "LineStart"
    BY DEF Openers, Opener
  <2> QED
    BY <1>2, <2>1
<1> QED
  BY <1>1, <1>3, <1>4

LEMMA ScannedStep ==
  ASSUME LexIInv, NEW b \in Token, Scanned(b)
  PROVE  LexIInv'
<1>1. /\ tokens' \in Seq(Token) /\ Len(tokens') = Len(tokens) + 1 /\ Len(tokens) \in Nat
      /\ tokens'[Len(tokens) + 1] = b
      /\ \A i \in 1..Len(tokens) : tokens'[i] = tokens[i]
      /\ tokens' # <<>>
  BY DEF LexIInv, Scanned
<1>2. input' = input /\ config' = config
  BY DEF Scanned
<1>3. TypeOfInput'
  BY <1>2 DEF LexIInv, TypeOfInput
<1>4. OpenerHere(pos, state)'
  BY <1>2 DEF Scanned, OpenerHere, StartsWith, Size
<1>5. Last' = b
  BY <1>1 DEF Last
<1>6. (Finished \/ Reached(Last, pos, state))'
  <2>1. CASE b.kind = "Eof"
    BY <1>1, <2>1 DEF Finished
  <2>2. CASE Reached(b, pos', state')
    BY <1>2, <1>5, <2>2 DEF Reached, At, EndsOperand, AskedRight, IsOpen, IsClose, Strips
  <2> QED
    BY <2>1, <2>2 DEF Scanned
<1>7. ASSUME NEW i \in 1..(Len(tokens') - 1)
      PROVE  LostBetween(tokens'[i], tokens'[i + 1])
  <2>1. CASE i = Len(tokens)
    <3>1. tokens # <<>> /\ tokens'[i] = Last /\ tokens'[i + 1] = b
      BY <1>1, <2>1 DEF Last
    <3> QED
      BY <3>1 DEF Scanned
  <2>2. CASE i # Len(tokens)
    <3>1. i \in 1..(Len(tokens) - 1) /\ tokens'[i] = tokens[i] /\ tokens'[i + 1] = tokens[i + 1]
      BY <1>1, <2>2
    <3>2. LostBetween(tokens[i], tokens[i + 1])
      BY <3>1 DEF LexIInv, LostTextIsAskedFor, LostBetween, AskedLeft, AskedRight
    <3> QED
      BY <3>1, <3>2
  <2> QED
    BY <2>1, <2>2
<1>8. LostTextIsAskedFor'
  <2> SUFFICES ASSUME NEW i \in 1..(Len(tokens') - 1)
               PROVE  LostBetween(tokens[i], tokens[i + 1])'
    BY DEF LostTextIsAskedFor, LostBetween, AskedLeft, AskedRight
  <2> QED
    BY <1>2, <1>7 DEF LostBetween, AskedLeft, AskedRight, At, IsOpen, IsClose
<1>9. (MinusFollowsOperand /\ (minus_state = "Operator" <=> OperandBefore(Len(tokens))))'
  <2>1. PICK n \in Nat : n = Len(tokens)
    BY <1>1
  <2>2. /\ Len(tokens)' = n + 1 /\ (DOMAIN tokens)' = 1..(n + 1) /\ tokens'[n + 1] = b
        /\ DOMAIN tokens = 1..n /\ \A i \in 1..n : tokens'[i] = tokens[i]
    BY <1>1, <2>1 DEF LexIInv
  <2>3. minus_state = "Operator" <=> OperandBefore(n)
    BY <2>1 DEF LexIInv
  <2>4. \A k \in 0..n : OperandBefore(k)' <=> OperandBefore(k)
    <3> SUFFICES ASSUME NEW k \in 0..n
                 PROVE  OperandBefore(k)' <=> OperandBefore(k)
      OBVIOUS
    <3>1. \A i \in 1..k : tokens'[i] = tokens[i] /\ (EndsOperand(tokens[i])' <=> EndsOperand(tokens[i]))
      BY <1>2, <2>2 DEF EndsOperand, At
    <3>2. \A j \in 1..k : \A i \in (j + 1)..k : i \in 1..k
      OBVIOUS
    <3> QED
      BY <3>1, <3>2 DEF OperandBefore, BodyToken, IsOpen, IsClose
  <2>5. (BodyToken(b) <=> b.kind \in BodyKinds) /\ (EndsOperand(b) => b.kind \in BodyKinds)
    BY DEF BodyToken, IsOpen, IsClose, EndsOperand, BodyKinds, Token, TokenKinds, OpenKinds, CloseKinds
  <2>6. OperandBefore(n + 1)' <=> EndsOperand(b) \/ (~BodyToken(b) /\ OperandBefore(n)')
    <3> DEFINE Ends(j) == EndsOperand(tokens[j])'
               InABody(j) == BodyToken(tokens[j])'
    <3>1. /\ \A k \in Nat : OperandBefore(k)' <=> \E j \in 1..k : Ends(j) /\ \A i \in (j + 1)..k : ~InABody(i)
          /\ Ends(n + 1) <=> EndsOperand(b)
          /\ InABody(n + 1) <=> BodyToken(b)
      BY <1>2, <2>2 DEF OperandBefore, EndsOperand, At, BodyToken, IsOpen, IsClose
    <3> HIDE DEF Ends, InABody
    <3>2. ASSUME Ends(n + 1)
          PROVE  OperandBefore(n + 1)'
      <4>1. n + 1 \in 1..(n + 1) /\ (n + 1 + 1)..(n + 1) = {} /\ n + 1 \in Nat
        OBVIOUS
      <4> QED
        BY <3>1, <3>2, <4>1
    <3>3. ASSUME ~InABody(n + 1), NEW j \in 1..n, Ends(j), \A i \in (j + 1)..n : ~InABody(i)
          PROVE  OperandBefore(n + 1)'
      <4>1. j \in 1..(n + 1) /\ n + 1 \in Nat /\ \A i \in (j + 1)..(n + 1) : i \in (j + 1)..n \/ i = n + 1
        OBVIOUS
      <4> QED
        BY <3>1, <3>3, <4>1
    <3>4. ASSUME NEW j \in 1..(n + 1), Ends(j), \A i \in (j + 1)..(n + 1) : ~InABody(i), j # n + 1
          PROVE  ~InABody(n + 1) /\ OperandBefore(n)'
      <4>1. /\ j \in 1..n /\ n + 1 \in (j + 1)..(n + 1)
            /\ \A i \in (j + 1)..n : i \in (j + 1)..(n + 1)
        BY <3>4
      <4> QED
        BY <3>1, <3>4, <4>1
    <3>5. n + 1 \in Nat
      OBVIOUS
    <3> QED
      BY <3>1, <3>2, <3>3, <3>4, <3>5
  <2>7. (minus_state = "Operator" <=> OperandBefore(Len(tokens)))'
    <3>1. minus_state' = "Operator" <=> OperandBefore(n + 1)'
      BY <2>3, <2>4, <2>5, <2>6 DEF Scanned, Signed
    <3> QED
      BY <2>2, <3>1
  <2>8. MinusFollowsOperand'
    <3> SUFFICES ASSUME NEW i \in 1..(n + 1), tokens'[i].kind \in {"Minus", "Number"},
                        At(tokens[i].from)' = "-"
                 PROVE  tokens'[i].kind = "Minus" <=> OperandBefore(i - 1)'
      BY <2>2 DEF MinusFollowsOperand
    <3>1. i - 1 \in 0..n
      OBVIOUS
    <3>2. CASE i \in 1..n
      <4>1. tokens[i].kind = "Minus" <=> OperandBefore(i - 1)
        BY <1>2, <2>2, <3>2 DEF LexIInv, MinusFollowsOperand, At
      <4> QED
        BY <2>2, <2>4, <3>1, <3>2, <4>1
    <3>3. CASE i = n + 1
      <4>1. tokens'[i] = b /\ At(b.from) = "-" /\ i - 1 = n
        BY <1>2, <2>2, <3>3 DEF At
      <4>2. b.kind = "Minus" <=> OperandBefore(n)
        BY <2>3, <4>1 DEF Scanned, Signed
      <4> QED
        BY <2>4, <3>1, <4>1, <4>2
    <3> QED
      BY <3>2, <3>3
  <2> QED
    BY <2>7, <2>8
<1>10. (pos \in 0..Size /\ state \in States /\ minus_state \in {"Operator", "Number"})'
  BY <1>2 DEF Scanned, Size, States
<1> QED
  BY <1>1, <1>3, <1>4, <1>6, <1>8, <1>9, <1>10 DEF LexIInv

LEMMA ScanEofStep ==
  ASSUME LexIInv, ~Finished, ScanEof
  PROVE  \E b \in Token : Scanned(b)
<1> DEFINE b == [kind |-> "Eof", from |-> pos, to |-> Size]
<1>1. Size \in Nat /\ pos \in 0..Size /\ pos = Size
  BY DEF LexIInv, TypeOfInput, Size, ScanEof
<1>2. b \in Token
  BY <1>1 DEF Token, TokenKinds
<1>3. /\ tokens' = Append(tokens, b) /\ UNCHANGED <<input, config, pos, state, minus_state>>
  BY DEF ScanEof, Return
<1>4. ASSUME tokens # <<>>
      PROVE  LostBetween(Last, b)
  <2>1. Reached(Last, pos, state)
    BY <1>4 DEF LexIInv
  <2>2. \A i \in DOMAIN Openers : state # Openers[i].state
    <3> SUFFICES ASSUME NEW i \in DOMAIN Openers, state = Openers[i].state
                 PROVE  FALSE
      OBVIOUS
    <3>1. pos + Len(Openers[i].open) <= Size
      BY DEF LexIInv, OpenerHere, StartsWith
    <3>2. Len(Openers[i].open) \in {2, 3}
      BY OpenerFacts DEF OpenerOK
    <3> QED
      BY <1>1, <3>1, <3>2
  <2>3. state \in DOMAIN Closers \cup {"Comment", "Text"}
    BY <2>2 DEF LexIInv, States
  <2>4. IsOpen(Last) => Last.kind # "Text" /\ ~IsClose(Last)
    BY DEF IsOpen, IsClose
  <2>5. Last.kind \in BodyKinds => Last.kind # "Text" /\ ~IsClose(Last)
    BY DEF BodyKinds, IsClose
  <2>6. LostBetween(Last, b)
    BY <1>1, <2>1, <2>3, <2>4, <2>5 DEF Reached, LostBetween
  <2> QED
    BY <2>6
<1>5. Signed(b)
  BY <1>3 DEF Signed, BodyKinds
<1> QED
  BY <1>2, <1>3, <1>4, <1>5 DEF Scanned, LexIInv

(* A token that starts where the scan starts, or in a tag after blanks.        *)
LEMMA FromHere ==
  ASSUME LexIInv, ~Finished, NEW b \in Token,
         \/ state \in {"Text", "Comment"} /\ b.from = pos
         \/ state \in Bodies /\ b.from >= pos /\ \A q \in pos..(b.from - 1) : At(q) \in Blanks
  PROVE  tokens # <<>> => LostBetween(Last, b)
<1> SUFFICES ASSUME tokens # <<>>
             PROVE  LostBetween(Last, b)
  OBVIOUS
<1>1. Reached(Last, pos, state)
  BY DEF LexIInv
<1>2. IsOpen(Last) => Last.kind # "Text" /\ ~IsClose(Last)
  BY DEF IsOpen, IsClose
<1>3. Last.kind \in BodyKinds => Last.kind # "Text" /\ ~IsClose(Last)
  BY DEF BodyKinds, IsClose
<1>4. CASE state \in {"Text", "Comment"} /\ b.from = pos
  <2>1. pos \in Nat /\ Last.to \in Nat /\ Last.to <= pos
    <3>1. pos \in Nat
      BY DEF LexIInv, TypeOfInput, Size
    <3> QED
      BY <1>1, <3>1 DEF Reached
  <2>2. \A q \in Last.to..(pos - 1) : At(q) \in Blanks
    BY <1>1 DEF Reached
  <2>3. CASE state = "Comment"
    <3>1. Last.to = pos /\ Last.kind # "Text" /\ ~IsClose(Last)
      BY <1>1, <1>2, <2>3 DEF Reached
    <3> QED
      BY <1>4, <2>1, <2>2, <3>1 DEF LostBetween
  <2>4. CASE state = "Text" /\ Last.kind = "Text" /\ Last.to = pos
    BY <1>4, <2>1, <2>2, <2>4 DEF LostBetween
  <2>5. CASE state = "Text" /\ IsClose(Last) /\ (Last.to < pos => AskedRight(Last))
    <3>1. CASE Last.to < pos
      BY <1>4, <2>1, <2>2, <2>5, <3>1 DEF LostBetween
    <3>2. CASE Last.to = pos
      BY <1>4, <2>1, <2>2, <2>5, <3>2 DEF LostBetween
    <3> QED
      BY <2>1, <3>1, <3>2
  <2> QED
    BY <1>1, <1>4, <2>3, <2>4, <2>5 DEF Reached
<1>5. CASE state \in Bodies /\ b.from >= pos /\ \A q \in pos..(b.from - 1) : At(q) \in Blanks
  <2>1. Last.to = pos /\ Last.kind # "Text" /\ ~IsClose(Last)
    BY <1>1, <1>2, <1>3, <1>5, CloserFacts DEF Reached
  <2> QED
    BY <1>5, <2>1 DEF LostBetween
<1> QED
  BY <1>4, <1>5

(* After an opening token.                                                     *)
LEMMA Opened ==
  ASSUME LexIInv, NEW i \in DOMAIN Openers, NEW from \in 0..pos, NEW q \in pos..Size,
         StartsWith(q, Openers[i].open), OpenTag(Openers[i], from, q), UNCHANGED minus_state,
         tokens # <<>> =>
           LostBetween(Last, [kind |-> Openers[i].token, from |-> from, to |-> q + Len(Openers[i].open)])
  PROVE  \E b \in Token : Scanned(b)
<1> DEFINE o == Openers[i]
           to == q + Len(o.open)
           b == [kind |-> o.token, from |-> from, to |-> to]
<1>1. OpenerOK(o) /\ Size \in Nat /\ pos \in Nat /\ pos <= Size
  BY OpenerFacts DEF LexIInv, TypeOfInput, Size
<1>2. to \in 2..Size /\ to > pos
  <2>1. Len(o.open) \in {2, 3} /\ q + Len(o.open) <= Size
    BY <1>1 DEF OpenerOK, StartsWith
  <2>2. q \in Nat /\ pos <= q
    BY <1>1
  <2>3. to = q + Len(o.open)
    OBVIOUS
  <2>4. /\ Size \in Nat /\ pos \in Nat /\ pos <= Size /\ q \in Nat /\ pos <= q
        /\ Len(o.open) \in Nat /\ 2 <= Len(o.open) /\ q + Len(o.open) <= Size
    <3> HIDE DEF o
    <3>0. \A n \in {2, 3} : n \in Nat /\ 2 <= n
      OBVIOUS
    <3>1. Len(o.open) \in Nat /\ 2 <= Len(o.open)
      BY <2>1, <3>0
    <3> QED
      BY <1>1, <2>1, <2>2, <3>1
  <2> DEFINE n == Len(o.open)
  <2> HIDE DEF to, n
  <2>5. to \in Nat /\ 2 <= to /\ to <= Size /\ to > pos
    BY <2>3, <2>4 DEF n
  <2> QED
    BY <2>4, <2>5
<1>3. /\ tokens' = Append(tokens, b) /\ UNCHANGED <<input, config, minus_state>>
      /\ pos' = to /\ state' = o.body
  BY DEF OpenTag, Return
<1> HIDE DEF o, to
<1>4. b \in Token /\ IsOpen(b) /\ b.kind \notin BodyKinds \cup {"Minus", "Number", "Eof"}
  BY <1>1, <1>2 DEF Token, TokenKinds, OpenerOK, OpenKinds, IsOpen, BodyKinds
<1>5. o.body \in States /\ o.body # "Text" /\ \A j \in DOMAIN Openers : o.body # Openers[j].state
  BY <1>1, OpenerFacts, CloserFacts DEF States, OpenerOK, Bodies
<1>6. Reached(b, to, o.body) /\ OpenerHere(to, o.body)
  BY <1>2, <1>4, <1>5 DEF Reached, OpenerHere
<1>7. pos' \in 0..Size /\ pos' > pos
  BY <1>1, <1>2, <1>3
<1>8. (tokens # <<>> => LostBetween(Last, b)) /\ Signed(b)
  BY <1>3, <1>4 DEF Signed, o, to
<1>9. minus_state' \in {"Operator", "Number"}
  BY <1>3 DEF LexIInv
<1> QED
  BY <1>3, <1>4, <1>5, <1>6, <1>7, <1>8, <1>9 DEF Scanned

LEMMA ScanStartStep ==
  ASSUME LexIInv, ~Finished, ScanStart
  PROVE  \E b \in Token : Scanned(b)
<1>1. PICK i \in DOMAIN Openers :
        state = Openers[i].state /\ OpenTag(Openers[i], pos, pos) /\ UNCHANGED minus_state
  BY DEF ScanStart
<1> DEFINE o == Openers[i]
           b == [kind |-> o.token, from |-> pos, to |-> pos + Len(o.open)]
<1>2. StartsWith(pos, o.open) /\ OpenerOK(o) /\ Size \in Nat /\ pos \in 0..Size
  BY <1>1, OpenerFacts DEF LexIInv, OpenerHere, TypeOfInput, Size
<1>3. IsOpen(b)
  BY <1>2 DEF OpenerOK, OpenKinds, IsOpen
<1>4. Strips(o) => AskedLeft(b)
  <2>1. CASE o.lstrip = "always"
    <3>1. Len(o.open) = 3 /\ o.open[3] = "-" /\ o.open \in Seq(Marks)
      BY <1>2, <2>1 DEF OpenerOK
    <3>2. \A k \in 1..Len(o.open) : At(pos + k - 1) = o.open[k]
      <4>1. TypeOfInput /\ pos \in Nat
        BY <1>2 DEF LexIInv
      <4> HIDE DEF o
      <4> QED
        BY <1>2, <3>1, <4>1, StartsWithFacts
    <3>3. At(pos + 2) = "-"
      BY <1>2, <3>1, <3>2
    <3> QED
      BY <1>3, <3>3 DEF AskedLeft
  <2>2. CASE o.lstrip # "always"
    BY <1>3, <2>2 DEF Strips, AskedLeft
  <2> QED
    BY <2>1, <2>2
<1>5. ASSUME tokens # <<>>
      PROVE  LostBetween(Last, b)
  <2>1. Reached(Last, pos, state)
    BY <1>5 DEF LexIInv
  <2> QED
    BY <1>1, <1>2, <1>4, <2>1 DEF Reached, LostBetween
<1> QED
  BY <1>1, <1>2, <1>5, Opened

LEMMA ScanTextStep ==
  ASSUME LexIInv, ~Finished, ScanText
  PROVE  \E b \in Token : Scanned(b)
<1> DEFINE stops == {i \in pos..(Size - 1) : Opening(i) # {}}
           q == First(stops)
           k == Min(Opening(q))
           o == Openers[k]
           end == IF Strips(o) THEN ClearFinalLine(pos, q) ELSE q
           text == [kind |-> "Text", from |-> pos, to |-> IF q = Size THEN Size ELSE end]
<1>1. TypeOfInput /\ Size \in Nat /\ pos \in 0..Size /\ pos \in Nat /\ pos < Size /\ state = "Text"
  BY DEF LexIInv, TypeOfInput, Size, ScanText
<1>2. q \in pos..Size /\ (q # Size => q \in stops) /\ q \in Nat /\ pos <= q /\ q <= Size
  <2>1. stops \subseteq pos..(Size - 1)
    OBVIOUS
  <2> HIDE DEF stops
  <2>2. q \in pos..Size /\ (q # Size => q \in stops)
    BY <1>1, <2>1, FirstFacts
  <2> QED
    BY <1>1, <2>2
<1>3. ASSUME q # Size
      PROVE  k \in DOMAIN Openers /\ StartsWith(q, Openers[k].open) /\ OpenerOK(o)
  <2>1. Opening(q) # {}
    BY <1>2, <1>3
  <2>2. Opening(q) \in SUBSET Nat
    BY OpenerFacts DEF Opening
  <2>3. k \in Opening(q)
    BY <2>1, <2>2, LeastElement
  <2> QED
    BY <2>3, OpenerFacts DEF Opening, Opens
<1>4. /\ end \in Nat /\ pos <= end /\ end <= q
      /\ \A i \in end..(q - 1) : At(i) \in Spaces
      /\ ~Strips(o) => end = q
  <2> HIDE DEF q
  <2>1. /\ ClearFinalLine(pos, q) \in pos..q
        /\ \A i \in ClearFinalLine(pos, q)..(q - 1) : At(i) \in Spaces
    BY <1>1, <1>2, StripFacts
  <2>2. \A i \in q..(q - 1) : At(i) \in Spaces
    BY <1>2
  <2> QED
    BY <1>1, <1>2, <2>1, <2>2
<1>5. /\ UNCHANGED minus_state
      /\ IF q = Size THEN Return("Text", pos, Size, Size, "Text")
         ELSE IF end > pos THEN Return("Text", pos, end, q, o.state)
         ELSE OpenTag(o, pos, q)
  BY DEF ScanText
<1> HIDE DEF q, k, end
<1>6. text \in Token
  BY <1>1, <1>2, <1>4 DEF Token, TokenKinds
<1>7. (tokens # <<>> => LostBetween(Last, text)) /\ Signed(text)
  <2>1. tokens # <<>> => LostBetween(Last, text)
    BY <1>1, <1>6, FromHere
  <2> QED
    BY <1>5, <2>1 DEF Signed, BodyKinds
<1>8. minus_state' \in {"Operator", "Number"} /\ States = States
  BY <1>5 DEF LexIInv
<1>9. CASE q = Size
  <2>1. /\ tokens' = Append(tokens, text) /\ UNCHANGED <<input, config>>
        /\ pos' = Size /\ state' = "Text"
    BY <1>5, <1>9 DEF Return
  <2>2. \A i \in DOMAIN Openers : Openers[i].state # "Text"
    BY OpenerFacts DEF OpenerOK
  <2>3. "Text" \in States /\ "Text" \notin DOMAIN Closers /\ "Text" # "Comment"
    BY CloserFacts DEF States, Bodies
  <2>4. Reached(text, Size, "Text") /\ OpenerHere(Size, "Text")
    BY <1>1, <1>9, <2>2, <2>3 DEF Reached, OpenerHere
  <2> QED
    BY <1>1, <1>6, <1>7, <1>8, <2>1, <2>3, <2>4 DEF Scanned
<1>10. CASE q # Size /\ end > pos
  <2>1. /\ tokens' = Append(tokens, text) /\ UNCHANGED <<input, config>>
        /\ pos' = q /\ state' = o.state
    BY <1>5, <1>10 DEF Return
  <2>2. /\ o.state \in States \ {"Text", "Comment"} /\ o.state \notin DOMAIN Closers
        /\ \A i \in DOMAIN Openers : o.state = Openers[i].state => i = k
    BY <1>3, <1>10, OpenerFacts, CloserFacts DEF States, OpenerOK
  <2>3. Spaces \subseteq Blanks
    BY DEF Spaces, Blanks
  <2>4. Reached(text, q, o.state)
    <3>1. text.to = end /\ text.kind = "Text" /\ end \in 0..q
      BY <1>1, <1>2, <1>4, <1>10
    <3> HIDE DEF text
    <3> QED
      BY <1>4, <2>2, <2>3, <3>1 DEF Reached
  <2>5. OpenerHere(q, o.state)
    BY <1>3, <1>10, <2>2 DEF OpenerHere
  <2>6. q \in 0..Size /\ q > pos
    BY <1>1, <1>2, <1>4, <1>10
  <2> QED
    BY <1>6, <1>7, <1>8, <2>1, <2>2, <2>4, <2>5, <2>6 DEF Scanned
<1>11. CASE q # Size /\ ~(end > pos)
  <2> DEFINE b == [kind |-> o.token, from |-> pos, to |-> q + Len(o.open)]
  <2>1. OpenTag(o, pos, q) /\ k \in DOMAIN Openers /\ StartsWith(q, o.open) /\ OpenerOK(o)
    BY <1>3, <1>5, <1>11
  <2>2. b \in Token /\ b.kind \notin {"Minus", "Number"}
    BY <1>1, <1>2, <2>1 DEF Token, TokenKinds, OpenerOK, OpenKinds
  <2>3. tokens # <<>> => LostBetween(Last, b)
    BY <1>1, <2>2, FromHere
  <2>4. pos \in 0..pos /\ UNCHANGED minus_state
    BY <1>1, <1>5
  <2> QED
    BY <1>2, <2>1, <2>3, <2>4, Opened
<1> QED
  BY <1>9, <1>10, <1>11

LEMMA ScanCommentStep ==
  ASSUME LexIInv, ~Finished, ScanComment
  PROVE  \E b \in Token : Scanned(b)
<1> DEFINE stops == {i \in pos..(Size - 1) : StartsWith(i, <<"#", "}">>)}
           q == First(stops)
           strip == StartsWith(q - 1, <<"-", "#", "}">>) \/ config.trim_blocks
           next == IF strip THEN SkipWhitespacesAndFirstNewline(q + 2) ELSE q + 2
           eof == [kind |-> "Eof", from |-> pos, to |-> Size]
           b == [kind |-> "CommentClose", from |-> pos, to |-> q + 2]
<1>1. TypeOfInput /\ Size \in Nat /\ pos \in 0..Size /\ pos \in Nat /\ pos < Size /\ state = "Comment"
  <2>1. pos < Size /\ state = "Comment"
    BY DEF ScanComment
  <2>2. TypeOfInput /\ pos \in 0..Size
    BY DEF LexIInv
  <2> QED
    BY <2>1, <2>2 DEF TypeOfInput, Size
<1>2. (q # Size => q \in stops) /\ q \in Nat /\ pos <= q /\ q <= Size
  <2>1. stops \subseteq pos..(Size - 1)
    OBVIOUS
  <2> HIDE DEF stops
  <2>2. q \in pos..Size /\ (q # Size => q \in stops)
    BY <1>1, <2>1, FirstFacts
  <2> QED
    BY <1>1, <2>2
<1>3. q # Size => StartsWith(q, <<"#", "}">>)
  BY <1>2
<1>30. q \in Nat /\ pos <= q /\ q <= Size
  BY <1>2
<1>4. /\ UNCHANGED minus_state
      /\ IF q = Size THEN Return("Eof", pos, Size, Size, state)
         ELSE Return("CommentClose", pos, q + 2, next, "Text")
  BY DEF ScanComment
<1> HIDE DEF q, next, strip
<1>5. minus_state' \in {"Operator", "Number"}
  BY <1>4 DEF LexIInv
<1>6. /\ \A i \in DOMAIN Openers : Openers[i].state \notin {"Text", "Comment"}
      /\ {"Text", "Comment"} \subseteq States
      /\ "Text" \notin DOMAIN Closers
  BY OpenerFacts, CloserFacts DEF OpenerOK, States, Bodies
<1>7. CASE q = Size
  <2>1. tokens' = Append(tokens, eof) /\ UNCHANGED <<input, config>> /\ pos' = Size /\ state' = "Comment"
    BY <1>1, <1>4, <1>7 DEF Return
  <2>2. eof \in Token
    BY <1>1 DEF Token, TokenKinds
  <2>3. (tokens # <<>> => LostBetween(Last, eof)) /\ Signed(eof)
    <3>1. tokens # <<>> => LostBetween(Last, eof)
      BY <1>1, <2>2, FromHere
    <3> QED
      BY <1>4, <3>1 DEF Signed, BodyKinds
  <2> QED
    BY <1>1, <1>5, <1>6, <2>1, <2>2, <2>3 DEF Scanned, OpenerHere
<1>8. CASE q # Size
  <2>1. tokens' = Append(tokens, b) /\ UNCHANGED <<input, config>> /\ pos' = next /\ state' = "Text"
    BY <1>4, <1>8 DEF Return
  <2>2. q + 2 <= Size
    <3>1. Len(<<"#", "}">>) = 2
      OBVIOUS
    <3> QED
      BY <1>3, <1>8, <3>1 DEF StartsWith
  <2>3. b \in Token /\ IsClose(b)
    <3>1. q + 2 \in Nat
      BY <1>30
    <3> QED
      BY <1>1, <3>1 DEF Token, TokenKinds, CloseKinds, IsClose
  <2>4. (tokens # <<>> => LostBetween(Last, b)) /\ Signed(b)
    <3>1. tokens # <<>> => LostBetween(Last, b)
      BY <1>1, <2>3, FromHere
    <3> QED
      BY <1>4, <3>1 DEF Signed, BodyKinds
  <2>5. /\ next \in Nat /\ q + 2 <= next /\ next <= Size
        /\ \A i \in (q + 2)..(next - 1) : At(i) \in Blanks
        /\ next # q + 2 => strip
    <3>1. q + 2 \in 0..Size /\ q + 2 \in Nat
      BY <1>1, <1>30, <2>2
    <3>2. /\ SkipWhitespacesAndFirstNewline(q + 2) \in (q + 2)..Size
          /\ \A i \in (q + 2)..(SkipWhitespacesAndFirstNewline(q + 2) - 1) : At(i) \in Blanks
      BY <1>1, <3>1, SkipFacts
    <3>3. SkipWhitespacesAndFirstNewline(q + 2) \in Nat
      BY <1>1, <3>1, <3>2
    <3> QED
      BY <1>1, <1>30, <2>2, <3>1, <3>2, <3>3 DEF next
  <2>6. ASSUME strip
        PROVE  AskedRight(b)
    <3>1. pos >= 2
      BY <1>1 DEF LexIInv, Reached
    <3>2. CASE StartsWith(q - 1, <<"-", "#", "}">>)
      <4> DEFINE s == <<"-", "#", "}">>
      <4>1. s \in Seq(Marks) /\ Len(s) = 3 /\ s[1] = "-"
        BY MarkSequences DEF Marks
      <4> HIDE DEF s
      <4>2. StartsWith(q - 1, s) /\ q - 1 \in Nat
        <5>1. StartsWith(q - 1, s)
          BY <3>2 DEF s
        <5>2. q - 1 \in Nat
          BY <1>1, <1>30, <3>1
        <5> QED
          BY <5>1, <5>2
      <4>3. \A n \in 1..Len(s) : At(q - 1 + n - 1) = s[n]
        BY <1>1, <4>1, <4>2, StartsWithFacts
      <4>4. At(q - 1) = "-"
        <5>1. q - 1 + 1 - 1 = q - 1
          BY <4>2
        <5> QED
          BY <4>1, <4>3, <5>1
      <4>5. b.to - 3 = q - 1 /\ b.to >= 3
        BY <1>1, <1>30, <3>1
      <4> QED
        BY <2>3, <4>4, <4>5 DEF AskedRight
    <3>3. CASE config.trim_blocks
      BY <2>3, <3>3 DEF AskedRight
    <3> QED
      BY <2>6, <3>2, <3>3 DEF strip
  <2>7. Reached(b, next, "Text")
    <3>1. b.to = q + 2 /\ b.kind = "CommentClose" /\ b.to \in 0..next
      BY <1>1, <1>30, <2>5
    <3>2. b.to < next => AskedRight(b)
      BY <2>5, <2>6, <3>1
    <3> HIDE DEF b
    <3> QED
      BY <1>6, <2>3, <2>5, <3>1, <3>2 DEF Reached
  <2>8. next \in 0..Size /\ next > pos
    BY <1>1, <1>30, <2>5
  <2> QED
    BY <1>5, <1>6, <2>1, <2>3, <2>4, <2>7, <2>8 DEF Scanned, OpenerHere
<1> QED
  BY <1>7, <1>8

(* After a closing token.                                                      *)
LEMMA Closed ==
  ASSUME LexIInv, NEW kind \in CloseKinds, NEW from \in Nat, NEW to \in Nat, NEW next \in Nat,
         to <= next, next <= Size, next > pos, \A i \in to..(next - 1) : At(i) \in Blanks,
         to < next => config.trim_blocks \/ (to >= 3 /\ At(to - 3) = "-"),
         Return(kind, from, to, next, "Text"), UNCHANGED minus_state,
         tokens # <<>> => LostBetween(Last, [kind |-> kind, from |-> from, to |-> to])
  PROVE  \E b \in Token : Scanned(b)
<1> DEFINE b == [kind |-> kind, from |-> from, to |-> to]
<1>1. b \in Token /\ IsClose(b) /\ b.kind \notin {"Eof", "Minus", "Number"} /\ b.to = to
  BY DEF Token, TokenKinds, CloseKinds, IsClose
<1>2. tokens' = Append(tokens, b) /\ UNCHANGED <<input, config>> /\ pos' = next /\ state' = "Text"
  BY DEF Return
<1>3. minus_state' \in {"Operator", "Number"} /\ Size \in Nat
  BY DEF LexIInv, TypeOfInput, Size
<1>4. (tokens # <<>> => LostBetween(Last, b)) /\ Signed(b)
  BY DEF Signed, BodyKinds, CloseKinds
<1> HIDE DEF b
<1>5. /\ \A i \in DOMAIN Openers : Openers[i].state # "Text"
      /\ "Text" \in States /\ "Text" \notin DOMAIN Closers
  BY OpenerFacts, CloserFacts DEF OpenerOK, States, Bodies
<1>6. to \in 0..next /\ next \in 0..Size
  BY <1>3
<1>7. Reached(b, next, "Text") /\ OpenerHere(next, "Text")
  BY <1>1, <1>5, <1>6 DEF Reached, OpenerHere, AskedRight
<1> QED
  BY <1>1, <1>2, <1>3, <1>4, <1>5, <1>6, <1>7 DEF Scanned

LEMMA TokenFacts ==
  ASSUME TypeOfInput, NEW q \in 0..(Size - 1), minus_state \in {"Operator", "Number"}
  PROVE  /\ TokenAt(q).kind \in BodyKinds /\ TokenAt(q).from = q
         /\ TokenAt(q).to \in Nat /\ q < TokenAt(q).to /\ TokenAt(q).to <= Size
         /\ MinusAfter(At(q)) = "Operator" <=> EndsOperand(TokenAt(q))
         /\ At(q) = "-" => (TokenAt(q).kind = "Minus" <=> minus_state = "Operator")
<1> DEFINE c == At(q)
           TokenTo(kind, to) == [kind |-> kind, from |-> q, to |-> to]
<1>1. Size \in Nat /\ q \in Nat /\ q + 1 \in 0..Size
  BY DEF TypeOfInput, Size
<1>2. /\ IdEnd(q + 1) \in Nat /\ q < IdEnd(q + 1) /\ IdEnd(q + 1) <= Size
  <2> DEFINE stops ==
        {i \in (q + 1)..(Size - 1) : At(i) \notin Letters \cup Digits \cup {".", "/", "_", "-"}}
  <2>1. stops \subseteq (q + 1)..(Size - 1) /\ IdEnd(q + 1) = First(stops)
    BY DEF IdEnd
  <2> HIDE DEF stops
  <2>2. First(stops) \in (q + 1)..Size
    BY <1>1, <2>1, FirstFacts
  <2> QED
    BY <1>1, <2>1, <2>2
<1>3. NumberEnd(q + 1) \in Nat /\ q < NumberEnd(q + 1) /\ NumberEnd(q + 1) <= Size
  <2> DEFINE stops ==
        {i \in (q + 1)..(Size - 1) : /\ At(i) \notin Digits \cup {".", "e"}
                                     /\ ~(At(i) \in {"+", "-"} /\ (i = 0 \/ At(i - 1) = "e"))}
  <2>1. stops \subseteq (q + 1)..(Size - 1) /\ NumberEnd(q + 1) = First(stops)
    BY DEF NumberEnd
  <2> HIDE DEF stops
  <2>2. First(stops) \in (q + 1)..Size
    BY <1>1, <2>1, FirstFacts
  <2> QED
    BY <1>1, <2>1, <2>2
<1>4. StringEnd(q + 1) \in Nat /\ q < StringEnd(q + 1) /\ StringEnd(q + 1) <= Size
  <2> DEFINE stops == {i \in (q + 1)..(Size - 1) : At(i) = "\"" /\ ~Escaped(q + 1, i)}
  <2>1. /\ stops \subseteq (q + 1)..(Size - 1)
        /\ StringEnd(q + 1) = IF First(stops) = Size THEN Size ELSE First(stops) + 1
    BY DEF StringEnd
  <2> HIDE DEF stops
  <2>2. First(stops) \in (q + 1)..Size /\ (First(stops) # Size => First(stops) \in stops)
    BY <1>1, <2>1, FirstFacts
  <2> QED
    BY <1>1, <2>1, <2>2
<1>5. StartsWith(q + 1, <<"=">>) => q + 2 <= Size
  <2>1. Len(<<"=">>) = 1
    OBVIOUS
  <2> QED
    BY <1>1, <2>1 DEF StartsWith
<1> DEFINE t == TokenAt(q)
           equals == StartsWith(q + 1, <<"=">>)
<1> USE DEF MinusAfter, Letters, Digits
<1> HIDE DEF c, t, equals
<1>6. CASE c \in Letters \cup {"_", "@", "$"}
  <2>1. t = TokenTo("Id", IdEnd(q + 1))
    BY <1>6 DEF TokenAt, t, c, equals, Punctuation
  <2>2. t.kind = "Id" /\ t.from = q /\ t.to = IdEnd(q + 1)
    BY <2>1
  <2>3. t.kind \in BodyKinds /\ EndsOperand(t) /\ MinusAfter(c) = "Operator" /\ c # "-"
    BY <1>6, <2>2 DEF EndsOperand, BodyKinds
  <2> QED
    BY <1>1, <1>2, <2>2, <2>3 DEF c, t
<1>7. CASE c \in Digits
  <2>1. t = TokenTo("Number", NumberEnd(q + 1))
    BY <1>7 DEF TokenAt, t, c, equals, Punctuation
  <2>2. t.kind = "Number" /\ t.from = q /\ t.to = NumberEnd(q + 1)
    BY <2>1
  <2>3. t.kind \in BodyKinds /\ EndsOperand(t) /\ MinusAfter(c) = "Operator" /\ c # "-"
    BY <1>7, <2>2 DEF EndsOperand, BodyKinds, c
  <2> QED
    BY <1>1, <1>3, <2>2, <2>3 DEF c, t
<1>8. CASE c = "-"
  <2>1. t = IF minus_state = "Operator" THEN TokenTo("Minus", q + 1)
            ELSE TokenTo("Number", NumberEnd(q + 1))
    BY <1>8 DEF TokenAt, t, c, equals, Punctuation
  <2>2. /\ t.kind = (IF minus_state = "Operator" THEN "Minus" ELSE "Number") /\ t.from = q
        /\ t.to = IF minus_state = "Operator" THEN q + 1 ELSE NumberEnd(q + 1)
    BY <2>1
  <2>3. t.kind \in BodyKinds /\ ~EndsOperand(t) /\ MinusAfter(c) = "Number"
    BY <1>8, <2>2 DEF EndsOperand, BodyKinds, c
  <2>4. t.to \in Nat /\ q < t.to /\ t.to <= Size
    BY <1>1, <1>3, <2>2
  <2> QED
    BY <2>2, <2>3, <2>4 DEF c, t
<1>9. CASE c = "\""
  <2>1. t = TokenTo("String", StringEnd(q + 1))
    BY <1>9 DEF TokenAt, t, c, equals, Punctuation
  <2>2. t.kind = "String" /\ t.from = q /\ t.to = StringEnd(q + 1)
    BY <2>1
  <2>3. t.kind \in BodyKinds /\ ~EndsOperand(t) /\ MinusAfter(c) = "Number" /\ c # "-"
    BY <1>9, <2>2 DEF EndsOperand, BodyKinds
  <2> QED
    BY <1>1, <1>4, <2>2, <2>3 DEF c, t
<1>10. CASE c \in DOMAIN Punctuation
  <2>1. t = TokenTo(Punctuation[c], q + 1)
    BY <1>10 DEF TokenAt, t, c, equals, Punctuation
  <2>2. t.kind = Punctuation[c] /\ t.from = q /\ t.to = q + 1
    BY <2>1
  <2>3. /\ Punctuation[c] \in BodyKinds \ {"Minus", "Number", "Id"} /\ c # "-"
        /\ Punctuation[c] = "RightParen" <=> c = ")"
        /\ Punctuation[c] = "RightBracket" <=> c = "]"
        /\ Punctuation[c] = "RightBrace" <=> c = "}"
        /\ c \notin Letters \cup Digits \cup {"_", "@", "$"}
    BY <1>10 DEF Punctuation, BodyKinds
  <2>4. MinusAfter(c) = "Operator" <=> EndsOperand(t)
    BY <2>2, <2>3 DEF EndsOperand
  <2>5. q + 1 \in Nat /\ q < q + 1 /\ q + 1 <= Size
    BY <1>1
  <2> QED
    BY <2>2, <2>3, <2>4, <2>5 DEF c, t
<1>11. CASE c \in {">", "<", "=", "!"} /\ equals
  <2>1. t = TokenTo(OrEqual(c), q + 2)
    BY <1>11 DEF TokenAt, t, c, equals, Punctuation
  <2>2. t.kind = OrEqual(c) /\ t.from = q /\ t.to = q + 2
    BY <2>1
  <2>3. t.kind \in BodyKinds /\ ~EndsOperand(t) /\ MinusAfter(c) = "Number" /\ c # "-"
    BY <1>11, <2>2 DEF EndsOperand, BodyKinds, OrEqual
  <2>4. q + 2 \in Nat /\ q < q + 2 /\ q + 2 <= Size
    BY <1>1, <1>5, <1>11 DEF equals
  <2> QED
    BY <2>2, <2>3, <2>4 DEF c, t
<1>12. CASE /\ c \notin Letters \cup {"_", "@", "$"} \cup Digits \cup {"-", "\""} \cup DOMAIN Punctuation
            /\ ~(c \in {">", "<", "=", "!"} /\ equals)
  <2>1. \E kind \in {"GreaterThan", "LessThan", "Unknown"} : t = TokenTo(kind, q + 1)
    BY <1>12 DEF TokenAt, t, c, equals
  <2>2. t.kind \in {"GreaterThan", "LessThan", "Unknown"} /\ t.from = q /\ t.to = q + 1
    BY <2>1
  <2>3. c \notin {")", "]", "}"}
    BY <1>12 DEF Punctuation
  <2>4. t.kind \in BodyKinds /\ ~EndsOperand(t) /\ MinusAfter(c) = "Number" /\ c # "-"
    BY <1>12, <2>2, <2>3 DEF EndsOperand, BodyKinds
  <2>5. q + 1 \in Nat /\ q < q + 1 /\ q + 1 <= Size
    BY <1>1
  <2> QED
    BY <2>2, <2>4, <2>5 DEF c, t
<1> QED
  BY <1>6, <1>7, <1>8, <1>9, <1>10, <1>11, <1>12

LEMMA ScanBodyStep ==
  ASSUME LexIInv, ~Finished, ScanBody
  PROVE  \E b \in Token : Scanned(b)
<1> DEFINE c == Closers[state]
           Trims(i) == c.close_trim # <<>> /\ StartsWith(i, c.close_trim)
           Closes(i) == StartsWith(i, c.close)
           stops == {i \in pos..(Size - 1) : At(i) \notin Blanks \/ (At(i) = "\n" /\ Closes(i))}
           q == First(stops)
           t == TokenAt(q)
           trimmed == q + Len(c.close_trim)
           closed == q + Len(c.close)
           next == IF state = "Statement" /\ config.trim_blocks
                     THEN SkipWhitespacesAndFirstNewline(closed) ELSE closed
<1>1. /\ TypeOfInput /\ Size \in Nat /\ pos \in 0..Size /\ pos \in Nat /\ pos < Size
      /\ state \in Bodies /\ minus_state \in {"Operator", "Number"}
  <2>1. pos < Size /\ state \in Bodies
    BY CloserFacts DEF ScanBody
  <2>2. TypeOfInput /\ pos \in 0..Size /\ minus_state \in {"Operator", "Number"}
    BY DEF LexIInv
  <2> QED
    BY <2>1, <2>2 DEF TypeOfInput, Size
<1>2. /\ c.token \in CloseKinds /\ c.close \in Seq(Marks) /\ Len(c.close) \in {1, 2}
      /\ c.close_trim # <<>> =>
           c.close_trim \in Seq(Marks) /\ Len(c.close_trim) = 3 /\ c.close_trim[1] = "-"
  BY <1>1, CloserFacts
<1>3. \/ q = Size /\ Return("Eof", Size, Size, pos, state) /\ UNCHANGED minus_state
      \/ /\ q < Size /\ Trims(q)
         /\ Return(c.token, q, trimmed, SkipWhitespacesAndNewlines(trimmed), "Text")
         /\ UNCHANGED minus_state
      \/ /\ q < Size /\ ~Trims(q) /\ Closes(q)
         /\ Return(c.token, q, closed, next, "Text") /\ UNCHANGED minus_state
      \/ /\ q < Size /\ ~Trims(q) /\ ~Closes(q)
         /\ Return(t.kind, t.from, t.to, t.to, state) /\ minus_state' = MinusAfter(At(q))
  BY DEF ScanBody
<1>4. /\ q \in Nat /\ pos <= q /\ q <= Size
      /\ \A i \in pos..(q - 1) : At(i) \in Blanks
  <2>1. stops \subseteq pos..(Size - 1)
    OBVIOUS
  <2>2. \A i \in pos..(Size - 1) : i \notin stops => At(i) \in Blanks
    OBVIOUS
  <2> HIDE DEF stops
  <2>3. q \in pos..Size /\ \A i \in pos..(q - 1) : i \notin stops
    BY <1>1, <2>1, FirstFacts
  <2>4. \A i \in pos..(q - 1) : i \in pos..(Size - 1)
    BY <1>1, <2>3
  <2> QED
    BY <1>1, <2>2, <2>3, <2>4
<1> HIDE DEF c, stops, q, t, trimmed, closed, next
<1>5. ASSUME NEW b \in Token, b.from = q
      PROVE  tokens # <<>> => LostBetween(Last, b)
  BY <1>1, <1>4, <1>5, FromHere
<1>6. CASE q = Size /\ Return("Eof", Size, Size, pos, state) /\ UNCHANGED minus_state
  <2> DEFINE b == [kind |-> "Eof", from |-> Size, to |-> Size]
  <2>1. b \in Token /\ b.from = q /\ b.kind = "Eof"
    BY <1>1, <1>6 DEF Token, TokenKinds
  <2>2. tokens' = Append(tokens, b) /\ UNCHANGED <<input, config, pos, state, minus_state>>
    BY <1>6 DEF Return
  <2>3. Signed(b)
    BY <1>6 DEF Signed, BodyKinds
  <2> HIDE DEF b
  <2> QED
    BY <1>1, <1>5, <2>1, <2>2, <2>3 DEF Scanned, LexIInv
<1>7. CASE /\ q < Size /\ Trims(q)
           /\ Return(c.token, q, trimmed, SkipWhitespacesAndNewlines(trimmed), "Text")
           /\ UNCHANGED minus_state
  <2> DEFINE b == [kind |-> c.token, from |-> q, to |-> trimmed]
             after == SkipWhitespacesAndNewlines(trimmed)
  <2>1. /\ StartsWith(q, c.close_trim) /\ c.close_trim \in Seq(Marks)
        /\ Len(c.close_trim) = 3 /\ c.close_trim[1] = "-"
    BY <1>2, <1>7
  <2>2. trimmed = q + 3 /\ trimmed <= Size /\ trimmed \in Nat /\ trimmed \in 0..Size
    BY <1>1, <1>4, <2>1 DEF trimmed, StartsWith
  <2>3. At(trimmed - 3) = "-"
    <3>1. \A k \in 1..Len(c.close_trim) : At(q + k - 1) = c.close_trim[k]
      BY <1>1, <1>4, <2>1, StartsWithFacts
    <3>2. q + 1 - 1 = q /\ trimmed - 3 = q
      BY <1>4, <2>2
    <3> QED
      BY <2>1, <3>1, <3>2
  <2>4. after \in trimmed..Size /\ \A i \in trimmed..(after - 1) : At(i) \in Blanks
    BY <1>1, <2>2, SkipFacts
  <2>5. b \in Token /\ b.from = q /\ c.token \in CloseKinds
    BY <1>2, <1>4, <2>2 DEF Token, TokenKinds
  <2>6. tokens # <<>> => LostBetween(Last, b)
    BY <1>5, <2>5
  <2> HIDE DEF after
  <2>7. after \in Nat /\ trimmed <= after /\ after <= Size /\ after > pos /\ trimmed >= 3
    BY <1>1, <1>4, <2>2, <2>4
  <2>8. Return(c.token, q, trimmed, after, "Text") /\ UNCHANGED minus_state
    BY <1>7 DEF after
  <2> QED
    BY <1>4, <2>2, <2>3, <2>4, <2>5, <2>6, <2>7, <2>8, Closed
<1>8. CASE /\ q < Size /\ ~Trims(q) /\ Closes(q)
           /\ Return(c.token, q, closed, next, "Text") /\ UNCHANGED minus_state
  <2> DEFINE b == [kind |-> c.token, from |-> q, to |-> closed]
  <2>1. closed <= Size /\ closed \in Nat /\ closed \in 0..Size /\ closed > q
    <3>1. q + Len(c.close) <= Size
      BY <1>8 DEF StartsWith
    <3>2. \A n \in {1, 2} : n \in Nat /\ 1 <= n
      OBVIOUS
    <3>3. Len(c.close) \in Nat /\ 1 <= Len(c.close)
      BY <1>2, <3>2
    <3> QED
      BY <1>1, <1>4, <3>1, <3>3 DEF closed
  <2>2. /\ SkipWhitespacesAndFirstNewline(closed) \in closed..Size
        /\ \A i \in closed..(SkipWhitespacesAndFirstNewline(closed) - 1) : At(i) \in Blanks
    BY <1>1, <2>1, SkipFacts
  <2>3. \A i \in closed..(closed - 1) : At(i) \in Blanks
    BY <2>1
  <2>4. /\ next \in Nat /\ closed <= next /\ next <= Size
        /\ \A i \in closed..(next - 1) : At(i) \in Blanks
        /\ closed < next => config.trim_blocks
    BY <1>1, <2>1, <2>2, <2>3 DEF next
  <2>5. b \in Token /\ b.from = q /\ c.token \in CloseKinds
    BY <1>2, <1>4, <2>1 DEF Token, TokenKinds
  <2>6. tokens # <<>> => LostBetween(Last, b)
    BY <1>5, <2>5
  <2>7. next > pos
    BY <1>1, <1>4, <2>1, <2>4
  <2> QED
    BY <1>4, <1>8, <2>1, <2>4, <2>5, <2>6, <2>7, Closed
<1>9. CASE /\ q < Size /\ ~Trims(q) /\ ~Closes(q)
           /\ Return(t.kind, t.from, t.to, t.to, state) /\ minus_state' = MinusAfter(At(q))
  <2> DEFINE b == [kind |-> t.kind, from |-> t.from, to |-> t.to]
  <2>1. q \in 0..(Size - 1)
    BY <1>1, <1>4, <1>9
  <2>2. /\ t.kind \in BodyKinds /\ t.from = q /\ t.to \in Nat /\ q < t.to /\ t.to <= Size
        /\ MinusAfter(At(q)) = "Operator" <=> EndsOperand(t)
        /\ At(q) = "-" => (t.kind = "Minus" <=> minus_state = "Operator")
    BY <1>1, <2>1, TokenFacts DEF t
  <2>3. b \in Token /\ b.kind = t.kind /\ b.from = q /\ b.to = t.to
    BY <1>4, <2>2 DEF Token, TokenKinds
  <2>4. EndsOperand(b) <=> EndsOperand(t)
    BY <2>2, <2>3 DEF EndsOperand
  <2>5. tokens' = Append(tokens, b) /\ UNCHANGED <<input, config, state>> /\ pos' = t.to
    BY <1>9 DEF Return
  <2> HIDE DEF b
  <2>6. pos' \in 0..Size /\ pos' > pos /\ t.to \in 0..t.to
    BY <1>1, <1>4, <2>2, <2>5
  <2>7. minus_state' \in {"Operator", "Number"}
    BY <1>9 DEF MinusAfter
  <2>8. state \in States /\ state \notin {"Text", "Comment"} /\ \A i \in DOMAIN Openers : state # Openers[i].state
    BY <1>1, CloserFacts, OpenerFacts DEF States, OpenerOK, Bodies
  <2>9. b.kind # "Eof"
    BY <2>2, <2>3 DEF BodyKinds
  <2>10. Reached(b, t.to, state) /\ OpenerHere(t.to, state)
    <3>1. \A i \in t.to..(t.to - 1) : At(i) \in Blanks
      BY <2>2
    <3> QED
      BY <1>9, <2>2, <2>3, <2>4, <2>6, <2>8, <2>9, <3>1 DEF Reached, OpenerHere
  <2>11. tokens # <<>> => LostBetween(Last, b)
    BY <1>5, <2>3
  <2>12. Signed(b)
    BY <1>9, <2>2, <2>3, <2>4 DEF Signed
  <2> QED
    BY <2>3, <2>5, <2>6, <2>7, <2>8, <2>10, <2>11, <2>12 DEF Scanned
<1> QED
  BY <1>3, <1>6, <1>7, <1>8, <1>9

LEMMA LexInitInvariant == LexInit => LexIInv
<1> SUFFICES ASSUME LexInit
             PROVE  LexIInv
  OBVIOUS
<1>1. TypeOfInput
  <2>1. PICK template \in Inputs :
          /\ input = template.text
          /\ config = [s \in {"trim_blocks", "lstrip_blocks"} |-> template[s]]
    BY DEF LexInit
  <2>2. template \in [text : Seq(Characters), trim_blocks : BOOLEAN, lstrip_blocks : BOOLEAN]
    BY <2>1, InputsAssumption
  <2> QED
    BY <2>1, <2>2 DEF TypeOfInput
<1>2. /\ state = "Text" /\ minus_state = "Number" /\ pos = 0 /\ tokens = <<>>
  BY DEF LexInit
<1>3. 0 \in 0..Size
  BY <1>1 DEF TypeOfInput, Size
<1>4. "Text" \in States /\ \A i \in DOMAIN Openers : Openers[i].state # "Text"
  BY OpenerFacts DEF States, OpenerOK
<1>5. LostTextIsAskedFor /\ MinusFollowsOperand /\ ~OperandBefore(Len(tokens))
  <2>1. 1..(Len(tokens) - 1) = {} /\ 1..Len(tokens) = {} /\ DOMAIN tokens = {}
    BY <1>2
  <2> QED
    BY <2>1 DEF LostTextIsAskedFor, MinusFollowsOperand, OperandBefore
<1> QED
  BY <1>1, <1>2, <1>3, <1>4, <1>5 DEF LexIInv, OpenerHere

LEMMA ScanReturns ==
  ASSUME LexIInv, Scan
  PROVE  \E b \in Token : Scanned(b)
BY ScanEofStep, ScanTextStep, ScanStartStep, ScanBodyStep, ScanCommentStep DEF Scan

LEMMA LexNextInvariant == LexIInv /\ [Scan]_lexVars => LexIInv'
<1>1. ASSUME LexIInv, Scan
      PROVE  LexIInv'
  BY <1>1, ScanReturns, ScannedStep
<1>2. ASSUME LexIInv, UNCHANGED lexVars
      PROVE  LexIInv'
  BY <1>2 DEF lexVars, LexIInv, TypeOfInput, Size, OpenerHere, StartsWith, At, Finished, Reached, Last,
     LostTextIsAskedFor, MinusFollowsOperand, OperandBefore, BodyToken, AskedRight, IsOpen, IsClose,
     EndsOperand, Strips
<1> QED
  BY <1>1, <1>2

(* In every state the scanner's position is in the template, its state is one of *)
(* those it starts from, and what it passed since the last token may be lost.   *)
THEOREM LexInvariant == LexSpec => []LexIInv
BY LexInitInvariant, LexNextInvariant, PTL DEF LexSpec

(* The lexer drops no character of any template, but for blanks in a tag and    *)
(* those that the template's tags or the configuration ask it to strip.         *)
THEOREM NoTextIsLost == LexSpec => []LostTextIsAskedFor
<1>1. LexIInv => LostTextIsAskedFor
  BY DEF LexIInv
<1> QED
  BY <1>1, LexInvariant, PTL

(* In the tags of any template a '-', the first token of a tag included, is an  *)
(* operator exactly if the last token in a body before it, in this tag or in an *)
(* earlier one, ends an operand.                                               *)
THEOREM MinusIsRead == LexSpec => []MinusFollowsOperand
<1>1. LexIInv => MinusFollowsOperand
  BY DEF LexIInv
<1> QED
  BY <1>1, LexInvariant, PTL

(* Every scan of any template advances or reports its end, and stays in it.     *)
THEOREM ScansAdvance == LexSpec => ScanAdvances
<1>1. ASSUME LexIInv, Scan
      PROVE  (pos' > pos \/ Finished') /\ pos' <= Size
  <2>1. PICK b \in Token : Scanned(b)
    BY <1>1, ScanReturns
  <2>2. tokens \in Seq(Token) /\ Size \in Nat
    BY <1>1 DEF LexIInv, TypeOfInput, Size
  <2>3. tokens' = Append(tokens, b) /\ pos' \in 0..Size /\ (pos' > pos \/ b.kind = "Eof")
    BY <2>1 DEF Scanned
  <2>4. tokens' # <<>> /\ tokens'[Len(tokens')] = b
    BY <2>2, <2>3
  <2> QED
    BY <2>2, <2>3, <2>4 DEF Finished
<1>2. LexIInv /\ [Scan]_lexVars => [(pos' > pos \/ Finished') /\ pos' <= Size]_lexVars
  BY <1>1
<1> QED
  BY <1>2, LexInvariant, PTL DEF LexSpec, ScanAdvances
-----------------------------------------------------------------------------
(* The statements.                                                             *)

Increasing(s) == \A m, n \in DOMAIN s : m < n => s[m] < s[n]

OfKind(tree, s, kind) == \A m \in DOMAIN s : tree[s[m]].kind = kind

StacksOK ==
  /\ Increasing(if_stack) /\ Increasing(for_stack) /\ Increasing(block_stack)
  /\ OfKind(nodes, if_stack, "if") /\ OfKind(nodes, for_stack, "for")
  /\ OfKind(nodes, block_stack, "block")

(* The innermost of the open constructs holds the current block.                *)
Innermost ==
  /\ current_block = Root \/ current_block[1] \in Open
  /\ \A i \in Open : i <= current_block[1]

(* Each stands in the last one opened before it.                                *)
Chained ==
  \A i \in Open :
    /\ nodes[i].block = Root \/ nodes[i].block[1] \in Open
    /\ \A j \in Open : j < i => j <= nodes[i].block[1]

(* Between an if and the ifs of its elses only ifs are open.                    *)
Runs(tree, s, open) ==
  \A m, n \in DOMAIN s :
    m <= n /\ (\A k \in (m + 1)..n : tree[s[k]].nested)
      => \A j \in open : s[m] < j /\ j <= s[n] => tree[j].kind = "if"

RunsOfIfs == Runs(nodes, if_stack, Open)

Structure == StacksOK /\ Innermost /\ Chained /\ RunsOfIfs

(* Nothing but ifs, or nothing but loops, is in the template so far.            *)
OneKind == \E k \in {"if", "for"} : \A i \in DOMAIN nodes : nodes[i].kind \in {"leaf", k}

IInv ==
  /\ TypeOK
  /\ proper \/ OneKind => Structure
  /\ status = "done" => if_stack = <<>> /\ for_stack = <<>>

-----------------------------------------------------------------------------
Elements(s) == {s[m] : m \in DOMAIN s}

LEMMA AppendFacts ==
  ASSUME NEW S, NEW s \in Seq(S), NEW x \in S
  PROVE  LET t == Append(s, x)
         IN  /\ t \in Seq(S) /\ Len(t) = Len(s) + 1 /\ DOMAIN t = 1..Len(t)
             /\ t[Len(s) + 1] = x /\ \A m \in DOMAIN s : t[m] = s[m]
             /\ Elements(t) = Elements(s) \cup {x}
<1> DEFINE t == Append(s, x)
<1>1. /\ t \in Seq(S) /\ Len(t) = Len(s) + 1 /\ DOMAIN t = 1..Len(t) /\ DOMAIN s = 1..Len(s)
      /\ t[Len(s) + 1] = x /\ \A m \in DOMAIN s : t[m] = s[m] /\ Len(s) \in Nat
  OBVIOUS
<1> HIDE DEF t
<1>2. Elements(t) = Elements(s) \cup {x}
  <2>1. ASSUME NEW y \in Elements(t) PROVE y \in Elements(s) \cup {x}
    <3>1. PICK m \in 1..(Len(s) + 1) : y = t[m]
      BY <1>1 DEF Elements
    <3> QED
      BY <1>1, <3>1 DEF Elements
  <2>2. ASSUME NEW y \in Elements(s) \cup {x} PROVE y \in Elements(t)
    <3>1. CASE y = x
      BY <1>1, <3>1 DEF Elements
    <3>2. CASE y \in Elements(s)
      BY <1>1, <3>2 DEF Elements
    <3> QED
      BY <3>1, <3>2
  <2> QED
    BY <2>1, <2>2
<1> QED
  BY <1>1, <1>2 DEF t

\* A prefix of an increasing sequence has the elements below the next one.
LEMMA PrefixFacts ==
  ASSUME NEW s \in Seq(Nat), Increasing(s), NEW m \in DOMAIN s
  PROVE  LET t == SubSeq(s, 1, m - 1)
         IN  /\ t \in Seq(Nat) /\ Len(t) = m - 1 /\ DOMAIN t = 1..(m - 1)
             /\ \A k \in DOMAIN t : k \in DOMAIN s /\ t[k] = s[k]
             /\ Increasing(t)
             /\ Elements(t) = {x \in Elements(s) : x < s[m]}
<1> DEFINE t == SubSeq(s, 1, m - 1)
<1>1. /\ t \in Seq(Nat) /\ Len(t) = m - 1 /\ DOMAIN t = 1..(m - 1) /\ DOMAIN s = 1..Len(s)
      /\ \A k \in DOMAIN t : k \in DOMAIN s /\ t[k] = s[k]
      /\ Len(s) \in Nat
  OBVIOUS
<1> HIDE DEF t
<1>2. Increasing(t)
  BY <1>1 DEF Increasing
<1>3. ASSUME NEW x \in Elements(t) PROVE x \in Elements(s) /\ x < s[m]
  <2>1. PICK k \in 1..(m - 1) : x = t[k]
    BY <1>1 DEF Elements
  <2> QED
    BY <1>1, <2>1 DEF Elements, Increasing
<1>4. ASSUME NEW x \in Elements(s), x < s[m] PROVE x \in Elements(t)
  <2>1. PICK k \in DOMAIN s : x = s[k]
    BY DEF Elements
  <2>2. k \in 1..(m - 1)
    <3>1. k # m /\ ~(m < k)
      BY <1>4, <1>1, <2>1 DEF Increasing
    <3> QED
      BY <3>1, <1>1
  <2> QED
    BY <1>1, <2>1, <2>2 DEF Elements
<1> QED
  BY <1>1, <1>2, <1>3, <1>4 DEF t

-----------------------------------------------------------------------------
(* Types. *)

Node == [kind : Kinds, block : Blocks, nested : BOOLEAN]

LEMMA NewNode ==
  ASSUME TypeOK, NEW kind \in Kinds, NEW block \in Blocks, NEW nested \in BOOLEAN,
         block[1] <= Len(nodes), New(kind, block, nested)
  PROVE  /\ nodes' \in Seq(Node) /\ Len(nodes') = Len(nodes) + 1
         /\ \A i \in DOMAIN nodes' : nodes'[i].block[1] < i
         /\ DOMAIN nodes = 1..Len(nodes) /\ DOMAIN nodes' = 1..(Len(nodes) + 1)
         /\ Len(nodes) \in Nat /\ Id \in DOMAIN nodes' /\ Id \notin DOMAIN nodes
         /\ \A i \in DOMAIN nodes : i \in Nat /\ i < Id
         /\ \A i \in DOMAIN nodes : nodes'[i] = nodes[i]
         /\ nodes'[Id] = [kind |-> kind, block |-> block, nested |-> nested]
         /\ \A s \in Seq(DOMAIN nodes) : s \in Seq(DOMAIN nodes') /\ Append(s, Id) \in Seq(DOMAIN nodes')
<1> DEFINE node == [kind |-> kind, block |-> block, nested |-> nested]
<1>1. node \in Node /\ node.block = block
  BY DEF Node
<1> HIDE DEF node
<1>2. /\ nodes \in Seq(Node) /\ nodes' = Append(nodes, node) /\ Len(nodes) \in Nat
      /\ \A i \in DOMAIN nodes : nodes[i].block[1] < i
  BY DEF TypeOK, New, Node, node
<1>3. /\ nodes' \in Seq(Node) /\ Len(nodes') = Len(nodes) + 1 /\ nodes'[Id] = node
      /\ DOMAIN nodes = 1..Len(nodes) /\ DOMAIN nodes' = 1..(Len(nodes) + 1)
      /\ \A i \in DOMAIN nodes : nodes'[i] = nodes[i]
  BY <1>1, <1>2 DEF Id
<1>4. /\ Id \in DOMAIN nodes' /\ Id \notin DOMAIN nodes
      /\ \A i \in DOMAIN nodes : i \in Nat /\ i < Id /\ i \in DOMAIN nodes'
      /\ \A i \in DOMAIN nodes' : i \in DOMAIN nodes \/ i = Id
  BY <1>2, <1>3 DEF Id
<1>5. ASSUME NEW i \in DOMAIN nodes' PROVE nodes'[i].block[1] < i
  <2>1. CASE i = Id
    <3>1. block[1] < Id
      <4>1. block[1] \in Nat
        BY DEF Blocks, Root
      <4> QED
        BY <4>1, <1>2 DEF Id
    <3> QED
      BY <1>1, <1>3, <2>1, <3>1
  <2>2. CASE i \in DOMAIN nodes
    BY <1>2, <1>3, <2>2
  <2> QED
    BY <1>4, <2>1, <2>2
<1>6. ASSUME NEW s \in Seq(DOMAIN nodes)
      PROVE  s \in Seq(DOMAIN nodes') /\ Append(s, Id) \in Seq(DOMAIN nodes')
  BY <1>4
<1> QED
  BY <1>2, <1>3, <1>4, <1>5, <1>6 DEF node

(* The steps that add no node: the stacks only shrink.                          *)
LEMMA OldNodes ==
  ASSUME TypeOK, UNCHANGED <<proper, nodes>>,
         current_block' \in Blocks /\ current_block'[1] <= Len(nodes),
         if_stack' \in Seq(DOMAIN nodes), for_stack' \in Seq(DOMAIN nodes),
         block_stack' \in Seq(DOMAIN nodes),
         block_storage' = block_storage, status' \in {"parsing", "done", "error"}
  PROVE  TypeOK'
BY DEF TypeOK

LEMMA BlockOfNode ==
  ASSUME TypeOK, NEW i \in DOMAIN nodes
  PROVE  /\ i \in Nat /\ i > 0 /\ i <= Len(nodes) /\ Len(nodes) \in Nat
         /\ nodes[i] \in Node /\ nodes[i].block \in Blocks /\ nodes[i].block[1] \in Nat
         /\ nodes[i].block[1] < i /\ nodes[i].block[1] <= Len(nodes)
         /\ \A branch \in {"true_statement", "false_statement", "body", "block"} :
              <<i, branch>> \in Blocks
<1>1. /\ nodes \in Seq(Node) /\ DOMAIN nodes = 1..Len(nodes) /\ Len(nodes) \in Nat
      /\ nodes[i].block[1] < i
  BY DEF TypeOK, Node
<1>2. nodes[i] \in Node
  BY <1>1
<1>3. nodes[i].block \in Blocks
  BY <1>2 DEF Node
<1>4. nodes[i].block[1] \in Nat
  BY <1>3 DEF Blocks, Root
<1> QED
  BY <1>1, <1>2, <1>3, <1>4 DEF Blocks

LEMMA TopOfStack ==
  ASSUME NEW S, NEW s \in Seq(S), s # <<>>
  PROVE  Top(s) \in S /\ Len(s) \in DOMAIN s /\ Pop(s) = SubSeq(s, 1, Len(s) - 1) /\ Pop(s) \in Seq(S)
<1>1. Len(s) \in Nat /\ Len(s) > 0 /\ DOMAIN s = 1..Len(s)
  BY EmptySeq
<1>2. Len(s) \in DOMAIN s
  BY <1>1
<1> QED
  BY <1>1, <1>2 DEF Top, Pop

LEMMA TypeStep ==
  ASSUME TypeOK, [Next]_vars
  PROVE  TypeOK'
<1> USE DEF stacks
<1>1. /\ current_block \in Blocks /\ current_block[1] <= Len(nodes) /\ Len(nodes) \in Nat
      /\ if_stack \in Seq(DOMAIN nodes) /\ for_stack \in Seq(DOMAIN nodes)
      /\ block_stack \in Seq(DOMAIN nodes) /\ status \in {"parsing", "done", "error"}
      /\ proper \in BOOLEAN /\ block_storage \subseteq BlockNames
  BY DEF TypeOK
<1>2. ASSUME Fail PROVE TypeOK'
  BY <1>1, <1>2, OldNodes DEF Fail
<1>3. ASSUME NEW kind \in Kinds, NEW block \in Blocks, NEW nested \in BOOLEAN,
             block[1] <= Len(nodes), New(kind, block, nested), proper' = proper,
             current_block' = current_block \/ \E branch \in
               {"true_statement", "false_statement", "body", "block"} : current_block' = <<Id, branch>>,
             if_stack' = if_stack \/ if_stack' = Append(if_stack, Id),
             for_stack' = for_stack \/ for_stack' = Append(for_stack, Id),
             block_stack' = block_stack \/ block_stack' = Append(block_stack, Id),
             block_storage' \subseteq BlockNames, status' = status
      PROVE  TypeOK'
  <2>1. /\ nodes' \in Seq(Node) /\ Len(nodes') = Len(nodes) + 1
        /\ \A i \in DOMAIN nodes' : nodes'[i].block[1] < i
        /\ if_stack' \in Seq(DOMAIN nodes') /\ for_stack' \in Seq(DOMAIN nodes')
        /\ block_stack' \in Seq(DOMAIN nodes')
    BY <1>1, <1>3, NewNode
  <2>2. current_block' \in Blocks /\ current_block'[1] <= Len(nodes')
    <3>1. CASE current_block' = current_block
      <4>1. current_block[1] \in Nat
        BY <1>1 DEF Blocks, Root
      <4> QED
        BY <1>1, <2>1, <3>1, <4>1
    <3>2. CASE current_block' # current_block
      <4>1. PICK branch \in {"true_statement", "false_statement", "body", "block"} :
              current_block' = <<Id, branch>>
        BY <1>3, <3>2
      <4>2. Id \in Nat /\ Id <= Len(nodes')
        BY <1>1, <2>1 DEF Id
      <4> QED
        BY <4>1, <4>2 DEF Blocks
    <3> QED
      BY <3>1, <3>2
  <2> QED
    BY <1>1, <1>3, <2>1, <2>2 DEF TypeOK, Node
<1>4. CASE Leaf
  BY <1>1, <1>3, <1>4 DEF Leaf, Kinds
<1>5. CASE Malformed
  BY <1>2, <1>5 DEF Malformed
<1>6. CASE If
  BY <1>1, <1>3, <1>6 DEF If, Kinds
<1>7. CASE Else
  <2>1. CASE if_stack = <<>>
    BY <1>2, <1>7, <2>1 DEF Else
  <2>2. CASE if_stack # <<>>
    <3>1. Top(if_stack) \in DOMAIN nodes
      BY <1>1, <2>2, TopOfStack
    <3>2. <<Top(if_stack), "false_statement">> \in Blocks /\ Top(if_stack) <= Len(nodes)
      BY <3>1, BlockOfNode
    <3>3. current_block' \in Blocks /\ current_block'[1] <= Len(nodes)
      BY <1>7, <2>2, <3>2 DEF Else
    <3>4. UNCHANGED <<proper, nodes, stacks, block_storage, status>>
      BY <1>7, <2>2 DEF Else
    <3> QED
      BY <1>1, <3>3, <3>4, OldNodes
  <2> QED
    BY <2>1, <2>2
<1>8. CASE ElseIf
  <2>1. CASE if_stack = <<>>
    BY <1>2, <1>8, <2>1 DEF ElseIf
  <2>2. CASE if_stack # <<>>
    <3>1. Top(if_stack) \in DOMAIN nodes
      BY <1>1, <2>2, TopOfStack
    <3>2. <<Top(if_stack), "false_statement">> \in Blocks /\ Top(if_stack) <= Len(nodes)
      BY <3>1, BlockOfNode
    <3> QED
      BY <1>1, <1>3, <1>8, <2>2, <3>2 DEF ElseIf, Kinds
  <2> QED
    BY <2>1, <2>2
<1>9. CASE Endif
  <2>1. CASE if_stack = <<>>
    BY <1>2, <1>9, <2>1 DEF Endif
  <2>2. CASE if_stack # <<>>
    <3>1. PICK m \in DOMAIN if_stack : /\ current_block' = nodes[if_stack[m]].block
                                       /\ if_stack' = SubSeq(if_stack, 1, m - 1)
      BY <1>9, <2>2 DEF Endif
    <3>2. if_stack[m] \in DOMAIN nodes /\ SubSeq(if_stack, 1, m - 1) \in Seq(DOMAIN nodes)
      BY <1>1
    <3>3. current_block' \in Blocks /\ current_block'[1] <= Len(nodes)
      BY <3>1, <3>2, BlockOfNode
    <3> QED
      BY <1>1, <1>9, <2>2, <3>1, <3>2, <3>3, OldNodes DEF Endif
  <2> QED
    BY <2>1, <2>2
<1>10. CASE For
  BY <1>1, <1>3, <1>10 DEF For, Kinds
<1>11. CASE Endfor
  <2>1. CASE for_stack = <<>>
    BY <1>2, <1>11, <2>1 DEF Endfor
  <2>2. CASE for_stack # <<>>
    <3>1. Top(for_stack) \in DOMAIN nodes /\ Pop(for_stack) \in Seq(DOMAIN nodes)
      BY <1>1, <2>2, TopOfStack
    <3> QED
      BY <1>1, <1>11, <2>2, <3>1, BlockOfNode, OldNodes DEF Endfor
  <2> QED
    BY <2>1, <2>2
<1>12. ASSUME NEW name \in BlockNames, Block(name) PROVE TypeOK'
  <2>1. CASE name \in block_storage
    BY <1>2, <1>12, <2>1 DEF Block
  <2>2. CASE name \notin block_storage
    BY <1>1, <1>3, <1>12, <2>2 DEF Block, Kinds
  <2> QED
    BY <2>1, <2>2
<1>13. CASE Endblock
  <2>1. CASE block_stack = <<>>
    BY <1>2, <1>13, <2>1 DEF Endblock
  <2>2. CASE block_stack # <<>>
    <3>1. Top(block_stack) \in DOMAIN nodes /\ Pop(block_stack) \in Seq(DOMAIN nodes)
      BY <1>1, <2>2, TopOfStack
    <3> QED
      BY <1>1, <1>13, <2>2, <3>1, BlockOfNode, OldNodes DEF Endblock
  <2> QED
    BY <2>1, <2>2
<1>14. CASE Eof
  BY <1>1, <1>2, <1>14, OldNodes DEF Eof
<1>15. CASE UNCHANGED vars
  BY <1>15 DEF TypeOK, vars
<1> QED
  BY <1>4, <1>5, <1>6, <1>7, <1>8, <1>9, <1>10, <1>11, <1>12, <1>13, <1>14, <1>15 DEF Next

-----------------------------------------------------------------------------
(* Templates that nest. *)

(* The open constructs, by kind, are the elements of the three stacks.          *)
LEMMA OpenFacts ==
  /\ Open = Elements(if_stack) \cup Elements(for_stack) \cup Elements(block_stack)
  /\ TypeOK => \A i \in Open : i \in DOMAIN nodes /\ i \in Nat
  /\ TypeOK /\ StacksOK =>
       /\ \A i \in Open : nodes[i].kind = "if" <=> i \in Elements(if_stack)
       /\ \A i \in Open : nodes[i].kind = "for" <=> i \in Elements(for_stack)
       /\ \A i \in Open : nodes[i].kind = "block" <=> i \in Elements(block_stack)
<1>1. Open = Elements(if_stack) \cup Elements(for_stack) \cup Elements(block_stack)
  BY DEF Open, Elements
<1>2. ASSUME TypeOK, NEW i \in Open PROVE i \in DOMAIN nodes /\ i \in Nat
  <2>1. i \in DOMAIN nodes
    BY <1>1, <1>2 DEF TypeOK, Elements
  <2> QED
    BY <1>2, <2>1, BlockOfNode
<1>3. ASSUME StacksOK
      PROVE  /\ \A i \in Elements(if_stack) : nodes[i].kind = "if"
             /\ \A i \in Elements(for_stack) : nodes[i].kind = "for"
             /\ \A i \in Elements(block_stack) : nodes[i].kind = "block"
  BY <1>3 DEF StacksOK, OfKind, Elements
<1> QED
  BY <1>1, <1>2, <1>3

\* A tag that opens a construct.
LEMMA OpenStep ==
  ASSUME TypeOK, Innermost, Chained,
         NEW kind \in Kinds, NEW block \in Blocks, NEW nested \in BOOLEAN, NEW branch,
         New(kind, block, nested), block[1] = current_block[1], block = Root \/ block[1] \in Open,
         current_block' = <<Id, branch>>, Open' = Open \cup {Id}
  PROVE  Innermost' /\ Chained'
<1>1. current_block[1] <= Len(nodes)
  BY DEF TypeOK
<1>2. /\ \A i \in Open : i \in DOMAIN nodes /\ i \in Nat /\ i < Id /\ nodes'[i] = nodes[i]
      /\ nodes'[Id].block = block /\ Id \in Nat
  <2>1. Id \in Nat
    BY NewNode, <1>1 DEF Id
  <2>2. /\ \A i \in DOMAIN nodes : i \in Nat /\ i < Id /\ nodes'[i] = nodes[i]
        /\ nodes'[Id] = [kind |-> kind, block |-> block, nested |-> nested]
    BY NewNode, <1>1
  <2>3. nodes'[Id].block = block
    BY <2>2
  <2> QED
    BY OpenFacts, <2>1, <2>2, <2>3
<1>3. Innermost'
  <2>1. current_block'[1] = Id
    OBVIOUS
  <2> QED
    BY <1>2, <2>1 DEF Innermost
<1>4. ASSUME NEW i \in Open'
      PROVE  /\ nodes'[i].block = Root \/ nodes'[i].block[1] \in Open'
             /\ \A j \in Open' : j < i => j <= nodes'[i].block[1]
  <2>1. CASE i = Id
    <3>1. \A j \in Open' : j < i => j \in Open
      BY <1>2, <2>1
    <3> QED
      BY <1>2, <2>1, <3>1 DEF Innermost
  <2>2. CASE i \in Open
    <3>1. \A j \in Open' : j < i => j \in Open
      BY <1>2, <2>2
    <3> QED
      BY <1>2, <2>2, <3>1 DEF Chained
  <2> QED
    BY <2>1, <2>2
<1> QED
  BY <1>3, <1>4 DEF Chained

\* A tag that closes what is open from t on.
LEMMA CloseStep ==
  ASSUME TypeOK, Innermost, Chained, NEW t \in Open,
         nodes' = nodes, current_block' = nodes[t].block, Open' = {i \in Open : i < t}
  PROVE  Innermost' /\ Chained'
<1>1. \A i \in Open : i \in Nat /\ nodes[i].block[1] \in Nat /\ nodes[i].block[1] < i
  BY OpenFacts, BlockOfNode
<1>2. ASSUME NEW i \in Open, i <= t
      PROVE  /\ nodes[i].block = Root \/ nodes[i].block[1] \in Open'
             /\ \A j \in Open' : j < i => j <= nodes[i].block[1]
  BY <1>1, <1>2 DEF Chained
<1>3. Innermost'
  BY <1>1, <1>2 DEF Innermost
<1>4. Chained'
  BY <1>1, <1>2 DEF Chained
<1> QED
  BY <1>3, <1>4

\* The construct that a fitting tag is about is on top of its stack.
LEMMA Topmost ==
  ASSUME TypeOK, Innermost, NEW s \in Seq(DOMAIN nodes), Increasing(s), Elements(s) \subseteq Open,
         current_block[1] \in Elements(s)
  PROVE  /\ s # <<>> /\ Top(s) = current_block[1] /\ Top(s) \in Open /\ Len(s) \in DOMAIN s
         /\ Top(s) = s[Len(s)] /\ \A i \in Open : i <= Top(s)
<1>1. PICK m \in DOMAIN s : s[m] = current_block[1]
  BY DEF Elements
<1>2. Len(s) \in Nat /\ DOMAIN s = 1..Len(s)
  OBVIOUS
<1>3. Len(s) \in DOMAIN s /\ s # <<>>
  BY <1>1, <1>2
<1>4. s[Len(s)] \in Open
  BY <1>3 DEF Elements
<1>5. s[Len(s)] <= s[m] /\ s[Len(s)] \in Nat /\ s[m] \in Nat
  <2>1. s[m] \in Open
    BY DEF Elements
  <2> QED
    BY <1>1, <1>4, <2>1, OpenFacts DEF Innermost
<1>6. m = Len(s)
  BY <1>2, <1>3, <1>5 DEF Increasing
<1> QED
  BY <1>1, <1>3, <1>4, <1>6 DEF Top, Innermost

\* What a new node does to a stack, one that takes it and one that does not.
LEMMA StackFacts ==
  ASSUME TypeOK, NEW kind \in Kinds, NEW block \in Blocks, NEW nested \in BOOLEAN,
         block[1] <= Len(nodes), New(kind, block, nested),
         NEW s \in Seq(DOMAIN nodes), Increasing(s), NEW k, OfKind(nodes, s, k)
  PROVE  /\ OfKind(nodes', s, k)
         /\ k = kind => Increasing(Append(s, Id)) /\ OfKind(nodes', Append(s, Id), k)
<1>1. /\ \A i \in DOMAIN nodes : i \in Nat /\ i < Id /\ nodes'[i] = nodes[i]
      /\ nodes'[Id] = [kind |-> kind, block |-> block, nested |-> nested]
  BY NewNode
<1>2. nodes'[Id].kind = kind
  BY <1>1
<1>3. /\ DOMAIN s = 1..Len(s) /\ Len(s) \in Nat
      /\ \A m \in DOMAIN s : s[m] \in DOMAIN nodes
  OBVIOUS
<1>4. OfKind(nodes', s, k)
  BY <1>1, <1>3 DEF OfKind
<1> DEFINE t == Append(s, Id)
<1>5. /\ DOMAIN t = 1..(Len(s) + 1) /\ t[Len(s) + 1] = Id
      /\ \A m \in DOMAIN s : t[m] = s[m]
  OBVIOUS
<1> HIDE DEF t
<1>6. ASSUME k = kind PROVE OfKind(nodes', t, k)
  BY <1>2, <1>3, <1>4, <1>5, <1>6 DEF OfKind
<1>7. Increasing(t)
  <2> SUFFICES ASSUME NEW m \in DOMAIN t, NEW n \in DOMAIN t, m < n
               PROVE  t[m] < t[n]
    BY DEF Increasing
  <2>1. m \in DOMAIN s
    BY <1>3, <1>5
  <2>2. CASE n = Len(s) + 1
    BY <1>1, <1>3, <1>5, <2>1, <2>2
  <2>3. CASE n \in DOMAIN s
    BY <1>5, <2>1, <2>3 DEF Increasing
  <2> QED
    BY <1>3, <1>5, <2>2, <2>3
<1> QED
  BY <1>4, <1>6, <1>7 DEF t

\* Nodes that are leaves change nothing that is open, nor does an else or the end.
LEMMA SameStacks ==
  ASSUME TypeOK, Structure, UNCHANGED stacks,
         current_block'[1] = current_block[1], current_block = Root => current_block' = Root,
         nodes' = nodes \/ \E kind \in Kinds : New(kind, current_block, FALSE)
  PROVE  Structure'
<1>1. Open' = Open
  BY DEF Open, stacks
<1>2. \A i \in DOMAIN nodes : nodes'[i] = nodes[i]
  <2>1. CASE nodes' = nodes
    BY <2>1
  <2>2. CASE nodes' # nodes
    <3>1. PICK kind \in Kinds : New(kind, current_block, FALSE)
      BY <2>2
    <3>2. current_block \in Blocks /\ current_block[1] <= Len(nodes)
      BY DEF TypeOK
    <3> QED
      BY <3>1, <3>2, NewNode
  <2> QED
    BY <2>1, <2>2
<1>3. \A i \in Open : i \in DOMAIN nodes /\ nodes'[i] = nodes[i]
  BY <1>2, OpenFacts
<1>4. /\ \A m \in DOMAIN if_stack : if_stack[m] \in DOMAIN nodes
      /\ \A m \in DOMAIN for_stack : for_stack[m] \in DOMAIN nodes
      /\ \A m \in DOMAIN block_stack : block_stack[m] \in DOMAIN nodes
  BY DEF TypeOK
<1>5. StacksOK'
  BY <1>2, <1>4 DEF StacksOK, OfKind, Structure, stacks
<1>6. Innermost'
  BY <1>1 DEF Innermost, Structure
<1>7. Chained'
  BY <1>1, <1>3 DEF Chained, Structure
<1>8. RunsOfIfs'
  <2>1. Runs(nodes', if_stack, Open)
    <3> SUFFICES ASSUME NEW m \in DOMAIN if_stack, NEW n \in DOMAIN if_stack, m <= n,
                        \A k \in (m + 1)..n : nodes'[if_stack[k]].nested,
                        NEW j \in Open, if_stack[m] < j, j <= if_stack[n]
                 PROVE  nodes'[j].kind = "if"
      BY DEF Runs
    <3>1. DOMAIN if_stack = 1..Len(if_stack) /\ Len(if_stack) \in Nat
      BY DEF TypeOK
    <3>2. \A k \in (m + 1)..n : nodes[if_stack[k]].nested
      BY <1>2, <1>4, <3>1
    <3> QED
      BY <1>3, <3>2 DEF Runs, RunsOfIfs, Structure
  <2> QED
    BY <1>1, <2>1 DEF RunsOfIfs, stacks
<1> QED
  BY <1>5, <1>6, <1>7, <1>8 DEF Structure

\* With one kind of construct, an open one is reason enough.
LEMMA OneKindOpen ==
  ASSUME TypeOK, Structure, OneKind, NEW i \in Open
  PROVE  /\ current_block # Root /\ current_block[1] \in Open
         /\ nodes[current_block[1]].kind = nodes[i].kind
<1>1. PICK k \in {"if", "for"} : \A j \in DOMAIN nodes : nodes[j].kind \in {"leaf", k}
  BY DEF OneKind
<1>2. \A j \in Open : j \in DOMAIN nodes /\ j \in Nat /\ j > 0 /\ nodes[j].kind # "leaf"
  BY OpenFacts, BlockOfNode DEF Structure
<1>3. \A j \in Open : nodes[j].kind = k
  BY <1>1, <1>2
<1>4. current_block # Root
  BY <1>2 DEF Structure, Innermost, Root
<1>5. current_block[1] \in Open
  BY <1>4 DEF Structure, Innermost
<1> QED
  BY <1>3, <1>4, <1>5

\* A tag that closes or continues is about the innermost construct.
LEMMA FitsTop ==
  ASSUME TypeOK, Structure, proper \/ OneKind
  PROVE  /\ Fits("if") /\ if_stack # <<>> =>
              /\ current_block # Root /\ Len(if_stack) \in DOMAIN if_stack
              /\ Top(if_stack) = if_stack[Len(if_stack)]
              /\ Top(if_stack) = current_block[1] /\ Top(if_stack) \in Open
              /\ \A i \in Open : i <= Top(if_stack)
         /\ Fits("for") /\ for_stack # <<>> =>
              /\ Len(for_stack) \in DOMAIN for_stack
              /\ Top(for_stack) = for_stack[Len(for_stack)] /\ Top(for_stack) \in Open
              /\ \A i \in Open : i <= Top(for_stack)
         /\ Fits("block") /\ block_stack # <<>> =>
              /\ Len(block_stack) \in DOMAIN block_stack
              /\ Top(block_stack) = block_stack[Len(block_stack)] /\ Top(block_stack) \in Open
              /\ \A i \in Open : i <= Top(block_stack)
<1>1. /\ if_stack \in Seq(DOMAIN nodes) /\ for_stack \in Seq(DOMAIN nodes)
      /\ block_stack \in Seq(DOMAIN nodes)
  BY DEF TypeOK
<1>2. /\ Elements(if_stack) \subseteq Open /\ Elements(for_stack) \subseteq Open
      /\ Elements(block_stack) \subseteq Open
  BY OpenFacts
<1>3. ASSUME NEW kind, Fits(kind), NEW i \in Open, nodes[i].kind = kind
      PROVE  current_block # Root /\ current_block[1] \in Open /\ nodes[current_block[1]].kind = kind
  <2>1. CASE proper
    BY <1>3, <2>1 DEF Fits, Structure, Innermost
  <2>2. CASE OneKind
    BY <1>3, <2>2, OneKindOpen
  <2> QED
    BY <2>1, <2>2
<1>4. ASSUME Fits("if"), if_stack # <<>>
      PROVE  current_block # Root /\ current_block[1] \in Elements(if_stack)
  <2>1. PICK i \in Elements(if_stack) : TRUE
    <3>1. Len(if_stack) \in DOMAIN if_stack
      BY <1>1, <1>4, TopOfStack
    <3> QED
      BY <3>1 DEF Elements
  <2>2. i \in Open /\ nodes[i].kind = "if"
    BY <1>2, OpenFacts DEF Structure
  <2> QED
    BY <1>3, <1>4, <2>2, OpenFacts DEF Structure
<1>5. ASSUME Fits("for"), for_stack # <<>>
      PROVE  current_block[1] \in Elements(for_stack)
  <2>1. PICK i \in Elements(for_stack) : TRUE
    <3>1. Len(for_stack) \in DOMAIN for_stack
      BY <1>1, <1>5, TopOfStack
    <3> QED
      BY <3>1 DEF Elements
  <2>2. i \in Open /\ nodes[i].kind = "for"
    BY <1>2, OpenFacts DEF Structure
  <2> QED
    BY <1>3, <1>5, <2>2, OpenFacts DEF Structure
<1>6. ASSUME Fits("block"), block_stack # <<>>
      PROVE  current_block[1] \in Elements(block_stack)
  <2>1. PICK i \in Elements(block_stack) : TRUE
    <3>1. Len(block_stack) \in DOMAIN block_stack
      BY <1>1, <1>6, TopOfStack
    <3> QED
      BY <3>1 DEF Elements
  <2>2. i \in Open /\ nodes[i].kind = "block"
    BY <1>2, OpenFacts DEF Structure
  <2> QED
    BY <1>3, <1>6, <2>2, OpenFacts DEF Structure
<1>7. Increasing(if_stack) /\ Increasing(for_stack) /\ Increasing(block_stack) /\ Innermost
  BY DEF Structure, StacksOK
<1>8. ASSUME Fits("if"), if_stack # <<>>
      PROVE  /\ Len(if_stack) \in DOMAIN if_stack
             /\ Top(if_stack) = if_stack[Len(if_stack)]
             /\ Top(if_stack) = current_block[1] /\ Top(if_stack) \in Open
             /\ \A i \in Open : i <= Top(if_stack)
  BY <1>1, <1>2, <1>4, <1>7, <1>8, Topmost
<1>9. ASSUME Fits("for"), for_stack # <<>>
      PROVE  /\ Len(for_stack) \in DOMAIN for_stack
             /\ Top(for_stack) = for_stack[Len(for_stack)] /\ Top(for_stack) \in Open
             /\ \A i \in Open : i <= Top(for_stack)
  BY <1>1, <1>2, <1>5, <1>7, <1>9, Topmost
<1>10. ASSUME Fits("block"), block_stack # <<>>
       PROVE  /\ Len(block_stack) \in DOMAIN block_stack
              /\ Top(block_stack) = block_stack[Len(block_stack)] /\ Top(block_stack) \in Open
              /\ \A i \in Open : i <= Top(block_stack)
  BY <1>1, <1>2, <1>6, <1>7, <1>10, Topmost
<1> QED
  BY <1>4, <1>8, <1>9, <1>10

\* A node made among others, not on the stack of ifs or on it.
LEMMA RunsGrow ==
  ASSUME NEW S \in SUBSET Nat, NEW s \in Seq(S), NEW open \in SUBSET S, NEW id \in Nat,
         NEW tree, NEW grown, \A i \in S : i < id /\ grown[i] = tree[i], Runs(tree, s, open)
  PROVE  /\ Runs(grown, s, open \cup {id})
         /\ /\ grown[id].kind = "if"
            /\ grown[id].nested => s # <<>> /\ \A i \in open : i <= s[Len(s)]
            => Runs(grown, Append(s, id), open \cup {id})
<1>1. /\ DOMAIN s = 1..Len(s) /\ Len(s) \in Nat
      /\ \A m \in DOMAIN s : s[m] \in S /\ s[m] \in Nat /\ s[m] < id
      /\ \A i \in S : i \in Nat
  <2>1. \A i \in S : i \in Nat
    OBVIOUS
  <2>2. DOMAIN s = 1..Len(s) /\ Len(s) \in Nat /\ \A m \in DOMAIN s : s[m] \in S
    OBVIOUS
  <2> QED
    BY <2>1, <2>2
<1>2. ASSUME NEW m \in DOMAIN s, NEW n \in DOMAIN s, m <= n,
             \A k \in (m + 1)..n : grown[s[k]].nested,
             NEW j \in open, s[m] < j, j <= s[n]
      PROVE  grown[j].kind = "if"
  <2>1. \A k \in (m + 1)..n : k \in DOMAIN s
    BY <1>1
  <2>2. \A k \in (m + 1)..n : tree[s[k]].nested
    BY <1>1, <1>2, <2>1
  <2>3. tree[j].kind = "if"
    BY <1>2, <2>2 DEF Runs
  <2> QED
    BY <2>3
<1>3. Runs(grown, s, open \cup {id})
  <2> SUFFICES ASSUME NEW m \in DOMAIN s, NEW n \in DOMAIN s, m <= n,
                      \A k \in (m + 1)..n : grown[s[k]].nested,
                      NEW j \in open \cup {id}, s[m] < j, j <= s[n]
               PROVE  grown[j].kind = "if"
    BY DEF Runs
  <2>1. j # id
    BY <1>1
  <2> QED
    BY <1>2, <2>1
<1>4. ASSUME grown[id].kind = "if",
             grown[id].nested => s # <<>> /\ \A i \in open : i <= s[Len(s)]
      PROVE  Runs(grown, Append(s, id), open \cup {id})
  <2> DEFINE t == Append(s, id)
  <2>1. /\ DOMAIN t = 1..(Len(s) + 1) /\ t[Len(s) + 1] = id
        /\ \A m \in DOMAIN s : t[m] = s[m]
    OBVIOUS
  <2> HIDE DEF t
  <2> SUFFICES ASSUME NEW m \in DOMAIN t, NEW n \in DOMAIN t, m <= n,
                      \A k \in (m + 1)..n : grown[t[k]].nested,
                      NEW j \in open \cup {id}, t[m] < j, j <= t[n], j # id
               PROVE  grown[j].kind = "if"
    BY <1>4 DEF Runs, t
  <2>2. j \in open /\ j \in Nat /\ j < id
    BY <1>1
  <2>3. m \in DOMAIN s
    BY <1>1, <2>1, <2>2
  <2>4. CASE n \in DOMAIN s
    <3>1. \A k \in (m + 1)..n : k \in DOMAIN s
      BY <1>1, <2>3, <2>4
    <3>2. \A k \in (m + 1)..n : grown[s[k]].nested
      BY <2>1, <3>1
    <3> QED
      BY <1>2, <2>1, <2>2, <2>3, <2>4, <3>2
  <2>5. CASE n = Len(s) + 1
    <3> DEFINE p == Len(s)
    <3>1. p \in DOMAIN s /\ m <= p
      BY <1>1, <2>3
    <3>2. grown[id].nested
      BY <1>1, <2>1, <2>3, <2>5
    <3>3. j <= s[p]
      BY <1>4, <2>2, <3>2
    <3>4. \A k \in (m + 1)..p : grown[s[k]].nested
      BY <1>1, <2>1, <2>3, <2>5
    <3> QED
      BY <1>2, <2>1, <2>2, <2>3, <3>1, <3>3, <3>4
  <2> QED
    BY <1>1, <2>1, <2>4, <2>5
<1> QED
  BY <1>3, <1>4

\* What an opening tag adds is the innermost construct, on the stack of its kind.
LEMMA PushStep ==
  ASSUME TypeOK, Structure,
         NEW kind \in {"if", "for", "block"}, NEW block \in Blocks, NEW nested \in BOOLEAN, NEW branch,
         New(kind, block, nested), block[1] = current_block[1], block = Root \/ block[1] \in Open,
         current_block' = <<Id, branch>>,
         if_stack' = IF kind = "if" THEN Append(if_stack, Id) ELSE if_stack,
         for_stack' = IF kind = "for" THEN Append(for_stack, Id) ELSE for_stack,
         block_stack' = IF kind = "block" THEN Append(block_stack, Id) ELSE block_stack,
         nested => kind = "if" /\ if_stack # <<>> /\ \A i \in Open : i <= if_stack[Len(if_stack)]
  PROVE  Structure'
<1>1. /\ if_stack \in Seq(DOMAIN nodes) /\ for_stack \in Seq(DOMAIN nodes)
      /\ block_stack \in Seq(DOMAIN nodes) /\ kind \in Kinds /\ block[1] <= Len(nodes)
  BY DEF TypeOK, Kinds
<1>2. /\ \A i \in DOMAIN nodes : i \in Nat /\ i < Id /\ nodes'[i] = nodes[i]
      /\ nodes'[Id] = [kind |-> kind, block |-> block, nested |-> nested]
      /\ Id \in DOMAIN nodes'
  BY <1>1, NewNode
<1>3. nodes'[Id].kind = kind /\ nodes'[Id].nested = nested
  BY <1>2
<1>4. Open' = Open \cup {Id}
  <2>1. ASSUME NEW s \in Seq(DOMAIN nodes) PROVE Elements(Append(s, Id)) = Elements(s) \cup {Id}
    <3>1. s \in Seq(DOMAIN nodes')
      BY <1>1, NewNode
    <3> QED
      BY <1>2, <3>1, AppendFacts
  <2>2. Open = Elements(if_stack) \cup Elements(for_stack) \cup Elements(block_stack)
    BY OpenFacts
  <2>3. Open' = Elements(if_stack') \cup Elements(for_stack') \cup Elements(block_stack')
    BY DEF Open, Elements
  <2>4. CASE kind = "if"
    BY <1>1, <2>1, <2>2, <2>3, <2>4
  <2>5. CASE kind = "for"
    BY <1>1, <2>1, <2>2, <2>3, <2>5
  <2>6. CASE kind = "block"
    BY <1>1, <2>1, <2>2, <2>3, <2>6
  <2> QED
    BY <2>4, <2>5, <2>6
<1>5. Innermost' /\ Chained'
  BY <1>1, <1>4, OpenStep DEF Structure
<1>6. StacksOK'
  <2>1. StacksOK
    BY DEF Structure
  <2>2. ASSUME NEW s \in Seq(DOMAIN nodes), Increasing(s), NEW k, OfKind(nodes, s, k)
        PROVE  /\ OfKind(nodes', s, k)
               /\ k = kind => Increasing(Append(s, Id)) /\ OfKind(nodes', Append(s, Id), k)
    BY <1>1, <2>2, StackFacts
  <2>3. Increasing(if_stack') /\ OfKind(nodes', if_stack', "if")
    BY <1>1, <2>1, <2>2 DEF StacksOK
  <2>4. Increasing(for_stack') /\ OfKind(nodes', for_stack', "for")
    BY <1>1, <2>1, <2>2 DEF StacksOK
  <2>5. Increasing(block_stack') /\ OfKind(nodes', block_stack', "block")
    BY <1>1, <2>1, <2>2 DEF StacksOK
  <2> QED
    BY <2>3, <2>4, <2>5 DEF StacksOK, Increasing
<1>7. RunsOfIfs'
  <2> DEFINE S == DOMAIN nodes
  <2>1. /\ S \in SUBSET Nat /\ if_stack \in Seq(S) /\ Open \in SUBSET S /\ Id \in Nat
        /\ \A i \in S : i < Id /\ nodes'[i] = nodes[i]
    <3>1. Id \in Nat
      BY <1>1, NewNode DEF Id
    <3> QED
      BY <1>1, <1>2, <3>1, OpenFacts
  <2>2. Runs(nodes, if_stack, Open)
    BY DEF Structure, RunsOfIfs
  <2>3. CASE kind = "if"
    <3>1. Runs(nodes', Append(if_stack, Id), Open \cup {Id})
      <4>1. nodes'[Id].nested => if_stack # <<>> /\ \A i \in Open : i <= if_stack[Len(if_stack)]
        BY <1>3
      <4> HIDE DEF S
      <4> QED
        BY <1>3, <2>1, <2>2, <2>3, <4>1, RunsGrow
    <3>2. if_stack' = Append(if_stack, Id)
      BY <2>3
    <3> QED
      BY <1>4, <3>1, <3>2 DEF RunsOfIfs
  <2>4. CASE kind # "if"
    <3>1. Runs(nodes', if_stack, Open \cup {Id})
      <4> HIDE DEF S
      <4> QED
        BY <2>1, <2>2, RunsGrow
    <3>2. if_stack' = if_stack
      BY <2>4
    <3> QED
      BY <1>4, <3>1, <3>2 DEF RunsOfIfs
  <2> QED
    BY <2>3, <2>4
<1> QED
  BY <1>5, <1>6, <1>7 DEF Structure

\* A closing tag takes the end of the stack of its kind, and of what is open.
LEMMA PopStep ==
  ASSUME TypeOK, Structure, NEW t \in Open,
         nodes' = nodes, current_block' = nodes[t].block, Open' = {i \in Open : i < t},
         if_stack' = if_stack \/ \E m \in DOMAIN if_stack : if_stack' = SubSeq(if_stack, 1, m - 1),
         for_stack' = for_stack \/ \E m \in DOMAIN for_stack : for_stack' = SubSeq(for_stack, 1, m - 1),
         block_stack' = block_stack
           \/ \E m \in DOMAIN block_stack : block_stack' = SubSeq(block_stack, 1, m - 1)
  PROVE  Structure'
<1>1. Innermost' /\ Chained'
  BY CloseStep DEF Structure
<1>2. /\ if_stack \in Seq(Nat) /\ for_stack \in Seq(Nat) /\ block_stack \in Seq(Nat)
  <2>1. \A i \in DOMAIN nodes : i \in Nat
    BY DEF TypeOK
  <2> QED
    BY <2>1 DEF TypeOK
<1>3. ASSUME NEW s \in Seq(Nat), Increasing(s), NEW kind, OfKind(nodes, s, kind),
             NEW t2, t2 = s \/ \E m \in DOMAIN s : t2 = SubSeq(s, 1, m - 1)
      PROVE  Increasing(t2) /\ OfKind(nodes, t2, kind) /\ \A k \in DOMAIN t2 : k \in DOMAIN s /\ t2[k] = s[k]
  <2>1. CASE t2 = s
    BY <1>3, <2>1
  <2>2. ASSUME NEW m \in DOMAIN s, t2 = SubSeq(s, 1, m - 1)
        PROVE  Increasing(t2) /\ \A k \in DOMAIN t2 : k \in DOMAIN s /\ t2[k] = s[k]
    BY <1>3, <2>2, PrefixFacts
  <2>3. Increasing(t2) /\ \A k \in DOMAIN t2 : k \in DOMAIN s /\ t2[k] = s[k]
    BY <1>3, <2>1, <2>2
  <2> QED
    BY <1>3, <2>3 DEF OfKind
<1>4. Increasing(if_stack') /\ OfKind(nodes, if_stack', "if")
      /\ \A k \in DOMAIN if_stack' : k \in DOMAIN if_stack /\ if_stack'[k] = if_stack[k]
  BY <1>2, <1>3 DEF Structure, StacksOK
<1>5. Increasing(for_stack') /\ OfKind(nodes, for_stack', "for")
  BY <1>2, <1>3 DEF Structure, StacksOK
<1>6. Increasing(block_stack') /\ OfKind(nodes, block_stack', "block")
  BY <1>2, <1>3 DEF Structure, StacksOK
<1>7. StacksOK'
  BY <1>4, <1>5, <1>6 DEF StacksOK, Increasing
<1>8. Runs(nodes, if_stack', Open')
  <2> SUFFICES ASSUME NEW m \in DOMAIN if_stack', NEW n \in DOMAIN if_stack', m <= n,
                      \A k \in (m + 1)..n : nodes[if_stack'[k]].nested,
                      NEW j \in Open', if_stack'[m] < j, j <= if_stack'[n]
               PROVE  nodes[j].kind = "if"
    BY DEF Runs
  <2>1. \A k \in (m + 1)..n : k \in DOMAIN if_stack'
    <3>1. if_stack' \in Seq(Nat)
      <4>1. \A k \in DOMAIN if_stack : SubSeq(if_stack, 1, k - 1) \in Seq(Nat)
        BY <1>2
      <4> QED
        BY <1>2, <4>1
    <3> QED
      BY <3>1
  <2>2. \A k \in (m + 1)..n : nodes[if_stack[k]].nested
    BY <1>4, <2>1
  <2>3. m \in DOMAIN if_stack /\ n \in DOMAIN if_stack /\ j \in Open
        /\ if_stack[m] < j /\ j <= if_stack[n]
    BY <1>4
  <2> QED
    BY <2>2, <2>3 DEF Structure, RunsOfIfs, Runs
<1> QED
  BY <1>1, <1>7, <1>8 DEF Structure, RunsOfIfs

LEMMA StackTypes ==
  ASSUME TypeOK, Structure
  PROVE  /\ if_stack \in Seq(Nat) /\ for_stack \in Seq(Nat) /\ block_stack \in Seq(Nat)
         /\ Increasing(if_stack) /\ Increasing(for_stack) /\ Increasing(block_stack)
         /\ Open \in SUBSET Nat
<1>1. \A i \in DOMAIN nodes : i \in Nat
  BY DEF TypeOK
<1> QED
  BY <1>1, OpenFacts DEF TypeOK, Structure, StacksOK

LEMMA EndifStep ==
  ASSUME TypeOK, Structure, proper \/ OneKind, Endif, if_stack # <<>>
  PROVE  Structure'
<1>1. /\ Len(if_stack) \in DOMAIN if_stack
      /\ \A i \in Open : i <= if_stack[Len(if_stack)]
  BY FitsTop DEF Endif
<1>2. PICK m \in DOMAIN if_stack :
        /\ \A n \in (m + 1)..Len(if_stack) : nodes[if_stack[n]].nested
        /\ current_block' = nodes[if_stack[m]].block
        /\ if_stack' = SubSeq(if_stack, 1, m - 1)
        /\ UNCHANGED <<proper, nodes, for_stack, block_stack, block_storage, status>>
  BY <1>1 DEF Endif
<1> DEFINE t == if_stack[m]
           others == Elements(for_stack) \cup Elements(block_stack)
<1>3. Open = Elements(if_stack) \cup others /\ others \in SUBSET Nat /\ t \in Open
  BY OpenFacts, StackTypes DEF Elements
<1>4. ASSUME NEW i \in others PROVE i < t
  <2>1. i \in Open /\ nodes[i].kind # "if" /\ nodes[t].kind = "if"
    BY <1>3, <1>4, OpenFacts DEF Structure, StacksOK, OfKind, Elements
  <2>2. m <= Len(if_stack)
    BY StackTypes
  <2>3. i <= if_stack[Len(if_stack)] /\ ~(t < i)
    BY <1>1, <1>2, <2>1, <2>2 DEF Structure, RunsOfIfs, Runs
  <2>4. i # t /\ i \in Nat /\ t \in Nat
    BY <1>3, <2>1, StackTypes
  <2> QED
    BY <2>3, <2>4
<1>5. Open' = {i \in Open : i < t}
  <2>1. Open' = Elements(SubSeq(if_stack, 1, m - 1)) \cup others
    BY <1>2 DEF Open, Elements
  <2>2. Elements(SubSeq(if_stack, 1, m - 1)) = {i \in Elements(if_stack) : i < t}
    BY StackTypes, PrefixFacts
  <2> HIDE DEF others, t
  <2> QED
    BY <1>3, <1>4, <2>1, <2>2
<1> QED
  BY <1>2, <1>3, <1>5, PopStep

LEMMA EndforStep ==
  ASSUME TypeOK, Structure, proper \/ OneKind, Endfor, for_stack # <<>>
  PROVE  Structure'
<1> DEFINE m == Len(for_stack)
           t == for_stack[m]
           others == Elements(if_stack) \cup Elements(block_stack)
<1>1. /\ m \in DOMAIN for_stack /\ Top(for_stack) = t /\ t \in Open
      /\ \A i \in Open : i <= t
  BY FitsTop DEF Endfor
<1>2. /\ current_block' = nodes[t].block /\ for_stack' = SubSeq(for_stack, 1, m - 1)
      /\ UNCHANGED <<proper, nodes, if_stack, block_stack, block_storage, status>>
  BY <1>1 DEF Endfor, Pop
<1>3. Open = Elements(for_stack) \cup others /\ others \in SUBSET Nat
  BY OpenFacts, StackTypes DEF Elements
<1>4. ASSUME NEW i \in others PROVE i < t
  <2>1. i \in Open /\ nodes[i].kind # "for" /\ nodes[t].kind = "for"
    BY <1>1, <1>3, <1>4, OpenFacts DEF Structure, StacksOK, OfKind, Elements
  <2>2. i # t /\ i \in Nat /\ t \in Nat /\ i <= t
    BY <1>1, <1>3, <2>1, StackTypes
  <2> QED
    BY <2>2
<1>5. Open' = {i \in Open : i < t}
  <2>1. Open' = Elements(SubSeq(for_stack, 1, m - 1)) \cup others
    BY <1>2 DEF Open, Elements
  <2>2. Elements(SubSeq(for_stack, 1, m - 1)) = {i \in Elements(for_stack) : i < t}
    BY <1>1, StackTypes, PrefixFacts
  <2> HIDE DEF others, t
  <2> QED
    BY <1>3, <1>4, <2>1, <2>2
<1> QED
  BY <1>1, <1>2, <1>5, PopStep

LEMMA EndblockStep ==
  ASSUME TypeOK, Structure, proper \/ OneKind, Endblock, block_stack # <<>>
  PROVE  Structure'
<1> DEFINE m == Len(block_stack)
           t == block_stack[m]
           others == Elements(if_stack) \cup Elements(for_stack)
<1>1. /\ m \in DOMAIN block_stack /\ Top(block_stack) = t /\ t \in Open
      /\ \A i \in Open : i <= t
  BY FitsTop DEF Endblock
<1>2. /\ current_block' = nodes[t].block /\ block_stack' = SubSeq(block_stack, 1, m - 1)
      /\ UNCHANGED <<proper, nodes, if_stack, for_stack, block_storage, status>>
  BY <1>1 DEF Endblock, Pop
<1>3. Open = Elements(block_stack) \cup others /\ others \in SUBSET Nat
  BY OpenFacts, StackTypes DEF Elements
<1>4. ASSUME NEW i \in others PROVE i < t
  <2>1. i \in Open /\ nodes[i].kind # "block" /\ nodes[t].kind = "block"
    BY <1>1, <1>3, <1>4, OpenFacts DEF Structure, StacksOK, OfKind, Elements
  <2>2. i # t /\ i \in Nat /\ t \in Nat /\ i <= t
    BY <1>1, <1>3, <2>1, StackTypes
  <2> QED
    BY <2>2
<1>5. Open' = {i \in Open : i < t}
  <2>1. Open' = Elements(SubSeq(block_stack, 1, m - 1)) \cup others
    BY <1>2 DEF Open, Elements
  <2>2. Elements(SubSeq(block_stack, 1, m - 1)) = {i \in Elements(block_stack) : i < t}
    BY <1>1, StackTypes, PrefixFacts
  <2> HIDE DEF others, t
  <2> QED
    BY <1>3, <1>4, <2>1, <2>2
<1> QED
  BY <1>1, <1>2, <1>5, PopStep

LEMMA StructureStep ==
  ASSUME TypeOK, Structure, proper \/ OneKind, [Next]_vars
  PROVE  Structure'
<1> USE DEF stacks
<1>1. ASSUME UNCHANGED <<nodes, current_block, if_stack, for_stack, block_stack>> PROVE Structure'
  BY <1>1, SameStacks
<1>2. ASSUME Fail PROVE Structure'
  BY <1>1, <1>2 DEF Fail
<1>3. /\ current_block \in Blocks
      /\ current_block = Root \/ current_block[1] \in Open
  BY DEF TypeOK, Structure, Innermost
<1>4. CASE Leaf
  BY <1>4, SameStacks DEF Leaf, Kinds
<1>5. CASE Malformed
  BY <1>2, <1>5 DEF Malformed
<1>6. CASE If
  BY <1>3, <1>6, PushStep DEF If
<1>7. CASE Else
  <2>1. CASE if_stack = <<>>
    BY <1>2, <1>7, <2>1 DEF Else
  <2>2. CASE if_stack # <<>>
    <3>1. current_block # Root /\ Top(if_stack) = current_block[1]
      BY <1>7, <2>2, FitsTop DEF Else
    <3>2. current_block' = <<Top(if_stack), "false_statement">> /\ UNCHANGED <<nodes, stacks>>
      BY <1>7, <2>2 DEF Else
    <3>3. current_block'[1] = current_block[1]
      BY <3>1, <3>2
    <3> QED
      BY <3>1, <3>2, <3>3, SameStacks
  <2> QED
    BY <2>1, <2>2
<1>8. CASE ElseIf
  <2>1. CASE if_stack = <<>>
    BY <1>2, <1>8, <2>1 DEF ElseIf
  <2>2. CASE if_stack # <<>>
    <3>1. /\ Top(if_stack) = current_block[1] /\ Top(if_stack) \in Open
          /\ \A i \in Open : i <= if_stack[Len(if_stack)]
      BY <1>8, <2>2, FitsTop DEF ElseIf
    <3> DEFINE block == <<Top(if_stack), "false_statement">>
    <3>2. block \in Blocks /\ block[1] = current_block[1] /\ block[1] \in Open
      BY <3>1, OpenFacts, BlockOfNode
    <3>3. /\ New("if", block, TRUE) /\ if_stack' = Append(if_stack, Id)
          /\ current_block' = <<Id, "true_statement">> /\ UNCHANGED <<for_stack, block_stack>>
      BY <1>8, <2>2 DEF ElseIf
    <3> HIDE DEF block
    <3> QED
      BY <2>2, <3>1, <3>2, <3>3, PushStep
  <2> QED
    BY <2>1, <2>2
<1>9. CASE Endif
  <2>1. CASE if_stack = <<>>
    BY <1>2, <1>9, <2>1 DEF Endif
  <2> QED
    BY <1>9, <2>1, EndifStep
<1>10. CASE For
  BY <1>3, <1>10, PushStep DEF For
<1>11. CASE Endfor
  <2>1. CASE for_stack = <<>>
    BY <1>2, <1>11, <2>1 DEF Endfor
  <2> QED
    BY <1>11, <2>1, EndforStep
<1>12. ASSUME NEW name \in BlockNames, Block(name) PROVE Structure'
  <2>1. CASE name \in block_storage
    BY <1>2, <1>12, <2>1 DEF Block
  <2>2. CASE name \notin block_storage
    BY <1>3, <1>12, <2>2, PushStep DEF Block
  <2> QED
    BY <2>1, <2>2
<1>13. CASE Endblock
  <2>1. CASE block_stack = <<>>
    BY <1>2, <1>13, <2>1 DEF Endblock
  <2> QED
    BY <1>13, <2>1, EndblockStep
<1>14. CASE Eof
  BY <1>1, <1>2, <1>14 DEF Eof
<1>15. CASE UNCHANGED vars
  BY <1>1, <1>15 DEF vars
<1> QED
  BY <1>4, <1>5, <1>6, <1>7, <1>8, <1>9, <1>10, <1>11, <1>12, <1>13, <1>14, <1>15 DEF Next

\* The rest of the invariant: what the template is, and how its end is reached.
LEMMA TemplateStep ==
  ASSUME TypeOK, [Next]_vars
  PROVE  /\ proper' = proper
         /\ OneKind' => OneKind
         /\ status' = "done" =>
              \/ status = "done" /\ UNCHANGED <<if_stack, for_stack>>
              \/ if_stack' = <<>> /\ for_stack' = <<>>
<1> USE DEF stacks
<1>1. ASSUME Fail
      PROVE  UNCHANGED <<proper, nodes>> /\ status' = "error"
  BY <1>1 DEF Fail
<1>2. proper' = proper /\ (nodes' = nodes \/ \E node : nodes' = Append(nodes, node))
  BY <1>1 DEF Next, vars, Leaf, Malformed, If, Else, ElseIf, Endif, For, Endfor, Block,
              Endblock, Eof, New
<1>3. \A i \in DOMAIN nodes : i \in DOMAIN nodes' /\ nodes'[i] = nodes[i]
  <2>1. ASSUME NEW node, nodes' = Append(nodes, node)
        PROVE  \A i \in DOMAIN nodes : i \in DOMAIN nodes' /\ nodes'[i] = nodes[i]
    <3>1. nodes \in Seq(Node \cup {node})
      <4>1. nodes \in Seq(Node)
        BY DEF TypeOK, Node
      <4> QED
        BY <4>1
    <3>2. DOMAIN nodes = 1..Len(nodes) /\ DOMAIN nodes' = 1..(Len(nodes) + 1) /\ Len(nodes) \in Nat
      BY <2>1, <3>1
    <3>3. \A i \in DOMAIN nodes : nodes'[i] = nodes[i]
      BY <2>1, <3>1, AppendFacts
    <3> QED
      BY <3>2, <3>3
  <2> QED
    BY <1>2, <2>1
<1>4. OneKind' => OneKind
  BY <1>3 DEF OneKind
<1>5. CASE Next /\ ~Eof
  <2>1. status = "parsing" /\ status' \in {"parsing", "error"}
    BY <1>1, <1>5 DEF Next, Parsing, Room, Leaf, Malformed, If, Else, ElseIf, Endif, For, Endfor,
                      Block, Endblock
  <2> QED
    BY <1>2, <1>4, <2>1
<1>6. CASE Eof
  BY <1>1, <1>2, <1>4, <1>6 DEF Eof
<1>7. CASE UNCHANGED vars
  BY <1>2, <1>4, <1>7 DEF vars
<1> QED
  BY <1>5, <1>6, <1>7

LEMMA InitStructure ==
  ASSUME Init
  PROVE  IInv
<1>1. TypeOK
  BY DEF Init, TypeOK, Blocks, Root
<1>2. Open = {} /\ DOMAIN if_stack = {} /\ DOMAIN for_stack = {} /\ DOMAIN block_stack = {}
  BY DEF Init, Open
<1>3. Structure
  BY <1>2 DEF Init, Structure, StacksOK, Increasing, OfKind, Innermost, Chained, RunsOfIfs, Runs
<1> QED
  BY <1>1, <1>3 DEF Init, IInv

LEMMA Invariance == Spec => []IInv
<1>1. Init => IInv
  BY InitStructure
<1>2. IInv /\ [Next]_vars => IInv'
  BY TypeStep, TemplateStep, StructureStep DEF IInv
<1> QED
  BY <1>1, <1>2, PTL DEF Spec

-----------------------------------------------------------------------------
(* Theorems. *)

(* The parser's state has its types in every state: nodes stand in blocks of    *)
(* earlier nodes, so that following the parents of a node ends, and what is on a *)
(* stack is a node.                                                              *)
THEOREM TypeCorrect == Spec => []TypeOK
<1>1. IInv => TypeOK
  BY DEF IInv
<1> QED
  BY <1>1, Invariance, PTL

(* In a template whose tags nest, of any length and depth, what the parser reads *)
(* next goes into the innermost construct that is open, though no one of its     *)
(* three stacks says which that is.                                              *)
THEOREM NothingGoesIntoClosedBlocks == Spec => []NothingIntoClosedBlocks
<1>1. IInv => NothingIntoClosedBlocks
  BY DEF IInv, Structure, Innermost, NothingIntoClosedBlocks
<1> QED
  BY <1>1, Invariance, PTL

(* A template with ifs only, or with loops only, is accepted only if the parser  *)
(* is back where it began: for it the one check at the end, that the stacks are  *)
(* empty, is enough, however the tags stand.                                     *)
THEOREM OfOneKindNests == Spec => []AcceptedOfOneKindNests
<1>1. ASSUME IInv, NEW k \in {"if", "for"}, status = "done",
             \A i \in DOMAIN nodes : nodes[i].kind \in {"leaf", k}
      PROVE  current_block = Root
  <2>1. OneKind
    BY <1>1 DEF OneKind
  <2>2. TypeOK /\ Structure /\ if_stack = <<>> /\ for_stack = <<>>
    BY <1>1, <2>1 DEF IInv
  <2>3. SUFFICES ASSUME current_block # Root PROVE FALSE
    OBVIOUS
  <2>4. current_block[1] \in Open
    BY <2>2, <2>3 DEF Structure, Innermost
  <2>5. current_block[1] \in DOMAIN nodes
    BY <2>2, <2>4, OpenFacts
  <2>6. Elements(if_stack) = {} /\ Elements(for_stack) = {}
    BY <2>2 DEF Elements
  <2>7. nodes[current_block[1]].kind = "block"
    BY <2>2, <2>4, <2>6, OpenFacts DEF Structure
  <2> QED
    BY <1>1, <2>5, <2>7
<1>2. IInv => AcceptedOfOneKindNests
  BY <1>1 DEF AcceptedOfOneKindNests
<1> QED
  BY <1>2, Invariance, PTL

-----------------------------------------------------------------------------
(* The nesting: what a block is in.                                            *)

\* A branch of a construct is one that its kind has.
IsBranch(kind, branch) ==
  /\ kind = "if" <=> branch \in {"true_statement", "false_statement"}
  /\ kind = "for" <=> branch = "body"
  /\ kind = "block" <=> branch = "block"

\* b is the root or a branch of a node.
BlockIn(tree, b) ==
  b # Root => b[1] \in DOMAIN tree /\ IsBranch(tree[b[1]].kind, b[2])

\* A tree in which nodes are in branches of earlier ones.
IsTree(tree) ==
  \A i \in DOMAIN tree :
    /\ i \in Nat /\ BlockIn(tree, tree[i].block)
    /\ tree[i].block[1] \in Nat /\ tree[i].block[1] < i

LEMMA HolderFacts ==
  ASSUME NEW tree, IsTree(tree), NEW b, BlockIn(tree, b)
  PROVE  \A c \in Holders(tree, b) :
           /\ BlockIn(tree, c) /\ c[1] \in Nat
           /\ c # Root => /\ c[1] \in DOMAIN tree /\ tree[c[1]].block \in Holders(tree, b)
                          /\ tree[c[1]].block[1] \in Nat /\ tree[c[1]].block[1] < c[1]
                          /\ Holders(tree, c) \subseteq Holders(tree, b)
<1> SUFFICES ASSUME NEW c \in Holders(tree, b)
             PROVE  /\ BlockIn(tree, c) /\ c[1] \in Nat
                    /\ c # Root => /\ c[1] \in DOMAIN tree /\ tree[c[1]].block \in Holders(tree, b)
                                   /\ tree[c[1]].block[1] \in Nat /\ tree[c[1]].block[1] < c[1]
                                   /\ Holders(tree, c) \subseteq Holders(tree, b)
  OBVIOUS
<1>1. BlockIn(tree, c)
  BY DEF Holders, IsTree
<1>2. c[1] \in Nat
  BY <1>1 DEF BlockIn, IsTree, Root
<1>3. ASSUME c # Root PROVE c[1] \in DOMAIN tree
  BY <1>1, <1>3 DEF BlockIn
<1>4. Holders(tree, c) \subseteq Holders(tree, b)
  BY DEF Holders
<1> QED
  BY <1>1, <1>2, <1>3, <1>4 DEF IsTree, Holders

\* The root is in nothing.
LEMMA AroundRoot ==
  ASSUME NEW tree
  PROVE  Around(tree, Root) = {}
<1>1. {Root} \in SUBSET Holders(tree, Root) /\ Upward(tree, {Root})
  BY DEF Holders, Upward
<1> QED
  BY <1>1 DEF Around

LEMMA AroundFacts ==
  ASSUME NEW tree, IsTree(tree), NEW b, BlockIn(tree, b)
  PROVE  /\ b # Root => b \in Around(tree, b)
         /\ \A c \in Around(tree, b) :
              /\ c \in Holders(tree, b) /\ c # Root /\ c[1] <= b[1]
              /\ BlockIn(tree, c) /\ c[1] \in DOMAIN tree
<1>1. b # Root => b \in Around(tree, b)
  BY DEF Around, Holders
<1>2. ASSUME NEW c \in Around(tree, b) PROVE c \in Holders(tree, b) /\ c # Root /\ c[1] <= b[1]
  <2> DEFINE S == {x \in Holders(tree, b) : x[1] <= b[1]}
  <2>1. b \in S
    <3>1. b \in Holders(tree, b)
      BY DEF Holders
    <3> QED
      BY <3>1, HolderFacts
  <2>2. Upward(tree, S)
    <3> SUFFICES ASSUME NEW x \in S, x # Root PROVE tree[x[1]].block \in S
      BY DEF Upward
    <3>1. tree[x[1]].block \in Holders(tree, b) /\ tree[x[1]].block[1] < x[1]
          /\ tree[x[1]].block[1] \in Nat /\ x[1] \in Nat
      BY HolderFacts
    <3>2. b[1] \in Nat /\ x[1] <= b[1]
      BY <2>1, HolderFacts
    <3> QED
      BY <3>1, <3>2
  <2> HIDE DEF S
  <2>3. S \in SUBSET Holders(tree, b)
    BY DEF S
  <2>4. c \in S
    BY <2>1, <2>2, <2>3 DEF Around
  <2> QED
    BY <2>4 DEF S, Around
<1> QED
  BY <1>1, <1>2, HolderFacts

\* Step up: what b is in is b and what the block that holds its node is in.
LEMMA AroundUp ==
  ASSUME NEW tree, IsTree(tree), NEW b, BlockIn(tree, b), b # Root
  PROVE  /\ Around(tree, b) = {b} \cup Around(tree, tree[b[1]].block)
         /\ b \notin Around(tree, tree[b[1]].block)
<1> DEFINE p == tree[b[1]].block
<1>1. /\ b \in Holders(tree, b) /\ b[1] \in DOMAIN tree /\ BlockIn(tree, p) /\ b[1] \in Nat
      /\ p[1] \in Nat /\ p[1] < b[1] /\ p \in Holders(tree, b)
  <2>1. b \in Holders(tree, b)
    BY DEF Holders
  <2> QED
    BY <2>1, HolderFacts DEF IsTree
<1>2. Holders(tree, b) = {b} \cup Holders(tree, p)
  BY <1>1 DEF Holders
<1> HIDE DEF p
<1>3. ASSUME NEW c \in Around(tree, p) PROVE c \in Around(tree, b)
  <2>1. c \in Holders(tree, b) /\ c # Root
    BY <1>2, <1>3 DEF Around
  <2>2. ASSUME NEW S \in SUBSET Holders(tree, b), b \in S, Upward(tree, S)
        PROVE  c \in S
    <3> DEFINE U == S \cap Holders(tree, p)
    <3>1. p \in U
      BY <1>1, <2>2 DEF Upward, Holders, p
    <3>2. Upward(tree, U)
      <4> SUFFICES ASSUME NEW x \in U, x # Root PROVE tree[x[1]].block \in U
        BY DEF Upward
      <4>1. tree[x[1]].block \in Holders(tree, p)
        BY <1>1, HolderFacts
      <4> QED
        BY <2>2, <4>1 DEF Upward
    <3> HIDE DEF U
    <3>3. U \in SUBSET Holders(tree, p)
      BY DEF U
    <3>4. c \in U
      BY <1>3, <3>1, <3>2, <3>3 DEF Around
    <3> QED
      BY <3>4 DEF U
  <2> QED
    BY <2>1, <2>2 DEF Around
<1>4. ASSUME NEW c \in Around(tree, b), c # b PROVE c \in Around(tree, p)
  <2>1. c \in Holders(tree, p) /\ c # Root
    BY <1>2, <1>4 DEF Around
  <2>2. ASSUME NEW S \in SUBSET Holders(tree, p), p \in S, Upward(tree, S)
        PROVE  c \in S
    <3> DEFINE U == S \cup {b}
    <3>1. b \in U /\ U \in SUBSET Holders(tree, b)
      BY <1>2
    <3>2. Upward(tree, U)
      BY <2>2 DEF Upward, p
    <3> HIDE DEF U
    <3>3. c \in U
      BY <3>1, <3>2 DEF Around
    <3> QED
      BY <1>4, <3>3 DEF U
  <2> QED
    BY <2>1, <2>2 DEF Around
<1>5. b \notin Around(tree, p)
  <2>1. \A c \in Around(tree, p) : c[1] <= p[1]
    BY <1>1, AroundFacts
  <2> QED
    BY <1>1, <2>1
<1>6. b \in Around(tree, b)
  BY AroundFacts
<1> QED
  BY <1>3, <1>4, <1>5, <1>6 DEF p

\* What is further out than one of the blocks around b is around that one.
LEMMA AroundOuter ==
  ASSUME NEW tree, IsTree(tree), NEW b, BlockIn(tree, b), NEW c \in Around(tree, b)
  PROVE  {x \in Around(tree, b) : x[1] < c[1]} = Around(tree, tree[c[1]].block)
<1> DEFINE p == tree[c[1]].block
<1>1. /\ c \in Holders(tree, b) /\ c # Root /\ BlockIn(tree, c) /\ c[1] \in DOMAIN tree
      /\ c[1] \in Nat /\ p[1] \in Nat /\ p[1] < c[1] /\ BlockIn(tree, p)
      /\ Holders(tree, c) \subseteq Holders(tree, b)
  BY AroundFacts, HolderFacts DEF IsTree
<1>2. Around(tree, c) = {c} \cup Around(tree, p) /\ c \notin Around(tree, p)
  BY <1>1, AroundUp
<1>3. \A x \in Around(tree, p) : x[1] <= p[1]
  BY <1>1, AroundFacts
<1> HIDE DEF p
<1>4. ASSUME NEW x \in Around(tree, c) PROVE x \in Around(tree, b)
  <2>1. x \in Holders(tree, b) /\ x # Root
    BY <1>1, <1>4 DEF Around
  <2>2. ASSUME NEW S \in SUBSET Holders(tree, b), b \in S, Upward(tree, S)
        PROVE  x \in S
    <3> DEFINE U == S \cap Holders(tree, c)
    <3>1. c \in U
      <4>1. c \in S
        BY <2>2 DEF Around
      <4> QED
        BY <4>1 DEF Holders
    <3>2. Upward(tree, U)
      <4> SUFFICES ASSUME NEW y \in U, y # Root PROVE tree[y[1]].block \in U
        BY DEF Upward
      <4>1. tree[y[1]].block \in Holders(tree, c)
        BY <1>1, HolderFacts
      <4> QED
        BY <2>2, <4>1 DEF Upward
    <3> HIDE DEF U
    <3>3. U \in SUBSET Holders(tree, c)
      BY DEF U
    <3>4. x \in U
      BY <1>4, <3>1, <3>2, <3>3 DEF Around
    <3> QED
      BY <3>4 DEF U
  <2> QED
    BY <2>1, <2>2 DEF Around
<1>5. ASSUME NEW x \in Around(tree, b) PROVE x \in Around(tree, c) \/ c \in Around(tree, x)
  <2> DEFINE S == {y \in Holders(tree, b) : y = Root \/ y \in Around(tree, c) \/ c \in Around(tree, y)}
  <2>1. b \in S
    BY DEF Holders
  <2>2. Upward(tree, S)
    <3> SUFFICES ASSUME NEW y \in S, y # Root PROVE tree[y[1]].block \in S
      BY DEF Upward
    <3> DEFINE q == tree[y[1]].block
    <3>1. BlockIn(tree, y) /\ q \in Holders(tree, b) /\ BlockIn(tree, q)
      BY HolderFacts
    <3>2. Around(tree, y) = {y} \cup Around(tree, q)
      BY <3>1, AroundUp
    <3>3. q = Root \/ q \in Around(tree, q)
      BY <3>1, AroundFacts
    <3> HIDE DEF q
    <3>4. CASE c \in Around(tree, y)
      <4>1. CASE c = y
        <5>1. Around(tree, q) \subseteq Around(tree, c)
          BY <3>2, <4>1
        <5> QED
          BY <3>1, <3>3, <5>1 DEF q
      <4>2. CASE c # y
        BY <3>1, <3>2, <3>4, <4>2 DEF q
      <4> QED
        BY <4>1, <4>2
    <3>5. CASE y \in Around(tree, c)
      <4>1. q = Root \/ q \in Around(tree, c)
        <5>1. ASSUME q # Root PROVE q \in Around(tree, c)
          <6>1. q \in Holders(tree, c)
            <7>1. y \in Holders(tree, c)
              BY <3>5 DEF Around
            <7> QED
              BY <1>1, <7>1, HolderFacts DEF q
          <6>2. ASSUME NEW U \in SUBSET Holders(tree, c), c \in U, Upward(tree, U) PROVE q \in U
            <7>1. y \in U
              BY <3>5, <6>2 DEF Around
            <7> QED
              BY <6>2, <7>1 DEF Upward, q
          <6> QED
            BY <5>1, <6>1, <6>2 DEF Around
        <5> QED
          BY <5>1
      <4> QED
        BY <3>1, <4>1 DEF q
    <3> QED
      BY <3>4, <3>5
  <2> HIDE DEF S
  <2>3. S \in SUBSET Holders(tree, b)
    BY DEF S
  <2>4. x \in S /\ x # Root
    BY <2>1, <2>2, <2>3 DEF Around
  <2> QED
    BY <2>4 DEF S
<1>6. ASSUME NEW x \in Around(tree, b), x[1] < c[1] PROVE x \in Around(tree, p)
  <2>1. BlockIn(tree, x) /\ x[1] \in Nat
    BY AroundFacts, HolderFacts
  <2>2. c \notin Around(tree, x)
    <3>1. c \in Around(tree, x) => c[1] <= x[1]
      BY <2>1, AroundFacts
    <3> QED
      BY <1>1, <1>6, <2>1, <3>1
  <2>3. x # c
    BY <1>1, <1>6
  <2> QED
    BY <1>2, <1>5, <2>2, <2>3
<1>7. ASSUME NEW x \in Around(tree, p) PROVE x \in Around(tree, b) /\ x[1] < c[1]
  <2>1. x \in Around(tree, b)
    BY <1>2, <1>4, <1>7
  <2>2. x[1] \in Nat
    BY <2>1, AroundFacts, HolderFacts
  <2> QED
    BY <1>1, <1>3, <1>7, <2>1, <2>2
<1> QED
  BY <1>6, <1>7 DEF p

\* A node that is added changes nothing about the blocks that there were.
LEMMA AroundGrows ==
  ASSUME NEW tree, IsTree(tree), NEW b, BlockIn(tree, b), NEW longer, NEW id,
         DOMAIN longer = DOMAIN tree \cup {id}, \A i \in DOMAIN tree : longer[i] = tree[i]
  PROVE  Around(longer, b) = Around(tree, b)
<1>1. Holders(tree, b) \subseteq Holders(longer, b)
  BY DEF Holders
<1>2. \A c \in Holders(tree, b) :
        c # Root => longer[c[1]].block = tree[c[1]].block /\ tree[c[1]].block \in Holders(tree, b)
  BY HolderFacts
<1>3. b \in Holders(tree, b)
  BY DEF Holders
<1>4. ASSUME NEW c \in Around(longer, b) PROVE c \in Around(tree, b)
  <2>1. ASSUME NEW S \in SUBSET Holders(tree, b), b \in S, Upward(tree, S) PROVE c \in S
    <3>1. S \in SUBSET Holders(longer, b) /\ Upward(longer, S)
      BY <1>1, <1>2, <2>1 DEF Upward
    <3> QED
      BY <2>1, <3>1 DEF Around
  <2>2. Upward(tree, Holders(tree, b))
    BY <1>2 DEF Upward
  <2>3. c \in Holders(tree, b) /\ c # Root
    BY <1>3, <2>1, <2>2 DEF Around
  <2> QED
    BY <2>1, <2>3 DEF Around
<1>5. ASSUME NEW c \in Around(tree, b) PROVE c \in Around(longer, b)
  <2>1. c \in Holders(longer, b) /\ c # Root
    BY <1>1 DEF Around
  <2>2. ASSUME NEW S \in SUBSET Holders(longer, b), b \in S, Upward(longer, S) PROVE c \in S
    <3> DEFINE U == S \cap Holders(tree, b)
    <3>1. b \in U /\ Upward(tree, U)
      BY <1>2, <1>3, <2>2 DEF Upward
    <3> HIDE DEF U
    <3>2. U \in SUBSET Holders(tree, b)
      BY DEF U
    <3>3. c \in U
      BY <3>1, <3>2 DEF Around
    <3> QED
      BY <3>3 DEF U
  <2> QED
    BY <2>1, <2>2 DEF Around
<1> QED
  BY <1>4, <1>5

-----------------------------------------------------------------------------
(* The steps of the nesting.                                                   *)

TreeOK == IsTree(nodes) /\ BlockIn(nodes, current_block)

BranchOf(tree, c) == [id |-> c[1], branch |-> c[2], chained |-> tree[c[1]].nested]

LEMMA BranchesUp ==
  ASSUME NEW tree, IsTree(tree), NEW b, BlockIn(tree, b), b # Root
  PROVE  LET p == tree[b[1]].block
             e == BranchOf(tree, b)
         IN  /\ BlockIn(tree, p)
             /\ Branches(tree, b) = {e} \cup Branches(tree, p)
             /\ e.id = b[1] /\ e.id \in Nat /\ e.branch = b[2]
             /\ \A d \in Branches(tree, p) : d.id \in Nat /\ d.id < e.id
<1> DEFINE p == tree[b[1]].block
           e == BranchOf(tree, b)
<1>1. /\ b[1] \in DOMAIN tree /\ b[1] \in Nat /\ p[1] \in Nat /\ p[1] < b[1] /\ BlockIn(tree, p)
  BY DEF IsTree, BlockIn
<1>2. Around(tree, b) = {b} \cup Around(tree, p)
  BY AroundUp
<1>3. e.id = b[1] /\ e.branch = b[2]
  BY DEF BranchOf
<1> HIDE DEF p, e
<1>4. \A x : Branches(tree, x) = {BranchOf(tree, c) : c \in Around(tree, x)}
  BY DEF Branches, BranchOf
<1>5. Branches(tree, b) = {e} \cup Branches(tree, p)
  BY <1>2, <1>4 DEF e
<1>6. ASSUME NEW d \in Branches(tree, p) PROVE d.id \in Nat /\ d.id < e.id
  <2>1. PICK c \in Around(tree, p) : d = BranchOf(tree, c)
    BY <1>4
  <2>2. c[1] <= p[1] /\ c[1] \in Nat
    BY <1>1, AroundFacts, HolderFacts
  <2>3. d.id = c[1]
    BY <2>1 DEF BranchOf
  <2> QED
    BY <1>1, <1>3, <2>2, <2>3
<1> QED
  BY <1>1, <1>3, <1>5, <1>6 DEF p, e

\* The innermost of the branches that are open is the current block.
LEMMA InnermostBranch ==
  ASSUME TypeOK, TreeOK, proper, current_block # Root
  PROVE  LET e == BranchOf(nodes, current_block)
             p == nodes[current_block[1]].block
         IN  /\ e \in Branches(nodes, current_block) /\ Nesting!Innermost(e)
             /\ e.branch = current_block[2] /\ e.id = current_block[1]
             /\ Branches(nodes, p) = Branches(nodes, current_block) \ {e}
             /\ nodes[current_block[1]].kind = "if" =>
                  Branches(nodes, <<current_block[1], "false_statement">>) = Nesting!InElse(e)
<1> DEFINE e == BranchOf(nodes, current_block)
           p == nodes[current_block[1]].block
           f == <<current_block[1], "false_statement">>
           o == Branches(nodes, current_block)
<1>1. /\ BlockIn(nodes, p) /\ o = {e} \cup Branches(nodes, p)
      /\ e.id = current_block[1] /\ e.id \in Nat /\ e.branch = current_block[2]
      /\ \A d \in Branches(nodes, p) : d.id \in Nat /\ d.id < e.id
  BY BranchesUp DEF TreeOK
<1>2. ASSUME nodes[current_block[1]].kind = "if"
      PROVE  Branches(nodes, f) = {[e EXCEPT !.branch = "false_statement"]} \cup Branches(nodes, p)
  <2>1. current_block[1] \in DOMAIN nodes
    BY DEF TreeOK, BlockIn
  <2>2. f # Root
    BY <2>1, BlockOfNode DEF Root
  <2>3. BlockIn(nodes, f)
    BY <1>2, <2>1 DEF BlockIn, IsBranch
  <2>4. Branches(nodes, f) = {BranchOf(nodes, f)} \cup Branches(nodes, nodes[f[1]].block)
    BY <2>2, <2>3, BranchesUp DEF TreeOK
  <2>5. BranchOf(nodes, f) = [e EXCEPT !.branch = "false_statement"]
    BY DEF BranchOf
  <2> QED
    BY <2>4, <2>5
<1> HIDE DEF e, p, f, o
<1>3. e \notin Branches(nodes, p)
  BY <1>1
<1>4. Branches(nodes, p) = o \ {e}
  BY <1>1, <1>3
<1>5. Nesting!Innermost(e)
  <2>1. \A d \in o : d.id <= e.id
    BY <1>1
  <2> QED
    BY <1>1, <2>1 DEF Nesting!Innermost, o
<1>6. ASSUME nodes[current_block[1]].kind = "if"
      PROVE  Branches(nodes, f) = Nesting!InElse(e)
  BY <1>2, <1>4, <1>6 DEF Nesting!InElse, o
<1> QED
  BY <1>1, <1>4, <1>5, <1>6 DEF e, p, f, o

\* The branches that are open are those of the constructs on the stacks.
LEMMA OpenAround ==
  ASSUME TypeOK, TreeOK, Structure
  PROVE  /\ \A c \in Around(nodes, current_block) : c[1] \in Open
         /\ \A t \in Open : \E c \in Around(nodes, current_block) : c[1] = t
<1> DEFINE A == Around(nodes, current_block)
           H == Holders(nodes, current_block)
<1>1. current_block \in H
  BY DEF Holders
<1>2. \A c \in H : /\ c[1] \in Nat
                   /\ c # Root => /\ nodes[c[1]].block \in H /\ nodes[c[1]].block[1] \in Nat
                                  /\ nodes[c[1]].block[1] < c[1] /\ c[1] \in DOMAIN nodes
  BY HolderFacts DEF TreeOK
<1>3. /\ \A c \in A : c \in H /\ c # Root /\ BlockIn(nodes, c)
      /\ current_block # Root => current_block \in A
  BY AroundFacts DEF TreeOK
<1>4. ASSUME NEW c \in A, nodes[c[1]].block # Root PROVE nodes[c[1]].block \in A
  <2>1. ASSUME NEW S \in SUBSET H, current_block \in S, Upward(nodes, S)
        PROVE  nodes[c[1]].block \in S
    <3>1. c \in S
      BY <2>1 DEF Around
    <3> QED
      BY <1>3, <2>1, <3>1 DEF Upward
  <2> QED
    BY <1>2, <1>3, <1>4, <2>1 DEF Around
<1>5. ASSUME NEW c \in A PROVE c[1] \in Open
  <2> DEFINE S == {x \in H : x # Root => x[1] \in Open}
  <2>1. current_block \in S
    BY <1>1 DEF Structure, Innermost
  <2>2. Upward(nodes, S)
    BY <1>2 DEF Upward, Structure, Chained
  <2>3. S \in SUBSET H
    OBVIOUS
  <2> HIDE DEF S
  <2>4. c \in S
    BY <2>1, <2>2, <2>3 DEF Around
  <2> QED
    BY <1>3, <2>4 DEF S
<1> HIDE DEF A, H
<1>6. ASSUME NEW t \in Open, \A c \in A : c[1] # t PROVE FALSE
  <2> DEFINE S == {c[1] : c \in {x \in A : t < x[1]}}
  <2>1. t \in Nat /\ t > 0 /\ t <= current_block[1] /\ current_block[1] \in Nat
    <3>1. t \in Nat /\ t > 0
      BY OpenFacts, BlockOfNode
    <3> QED
      BY <1>1, <1>2, <3>1 DEF Structure, Innermost
  <2>2. current_block # Root
    BY <2>1 DEF Root
  <2>3. current_block[1] \in S
    BY <1>3, <1>6, <2>1, <2>2
  <2>4. S \in SUBSET Nat /\ S # {}
    BY <1>2, <1>3, <2>3
  <2>5. PICK c \in A : t < c[1] /\ \A x \in A : t < x[1] => c[1] <= x[1]
    <3> HIDE DEF S
    <3>1. Min(S) \in S /\ \A y \in S : Min(S) <= y
      BY <2>4, LeastElement
    <3> QED
      BY <3>1 DEF S
  <2> DEFINE p == nodes[c[1]].block
  <2>6. p[1] \in Nat /\ p[1] < c[1] /\ c[1] \in Open /\ c[1] \in Nat
    BY <1>2, <1>3, <1>5
  <2>7. t <= p[1]
    BY <2>5, <2>6 DEF Structure, Chained
  <2>8. p # Root
    BY <2>1, <2>7 DEF Root
  <2>9. p \in A
    BY <1>4, <2>8
  <2> QED
    BY <1>6, <2>1, <2>5, <2>6, <2>7, <2>9
<1> QED
  BY <1>5, <1>6 DEF A

\* What a new node does to the tree.
LEMMA NodeAdded ==
  ASSUME TypeOK, TreeOK, NEW kind \in Kinds, NEW block \in Blocks, NEW nested \in BOOLEAN,
         block[1] <= Len(nodes), BlockIn(nodes, block), New(kind, block, nested)
  PROVE  /\ IsTree(nodes') /\ Len(nodes') = Len(nodes) + 1
         /\ \A b : BlockIn(nodes, b) =>
              BlockIn(nodes', b) /\ Branches(nodes', b) = Branches(nodes, b)
         /\ kind = "leaf" =>
              Leaves(nodes') =
                Leaves(nodes) \cup {[id |-> Len(nodes) + 1, within |-> Branches(nodes, block)]}
         /\ kind # "leaf" => Leaves(nodes') = Leaves(nodes)
<1>1. /\ Len(nodes') = Len(nodes) + 1 /\ Len(nodes) \in Nat /\ Id = Len(nodes) + 1
      /\ DOMAIN nodes = 1..Len(nodes) /\ DOMAIN nodes' = 1..(Len(nodes) + 1)
      /\ Id \in DOMAIN nodes' /\ Id \notin DOMAIN nodes
      /\ \A i \in DOMAIN nodes : i \in Nat /\ nodes'[i] = nodes[i]
      /\ nodes'[Id] = [kind |-> kind, block |-> block, nested |-> nested]
      /\ \A i \in DOMAIN nodes' : nodes'[i].block[1] < i
  BY NewNode DEF Id
<1>2. /\ DOMAIN nodes' = DOMAIN nodes \cup {Id}
      /\ nodes'[Id].kind = kind /\ nodes'[Id].block = block /\ nodes'[Id].nested = nested
      /\ block[1] \in Nat
  <2>1. block[1] \in Nat
    BY DEF Blocks, Root
  <2> QED
    BY <1>1, <2>1
<1>3. IsTree(nodes)
  BY DEF TreeOK
<1>4. ASSUME NEW b, BlockIn(nodes, b)
      PROVE  /\ BlockIn(nodes', b) /\ Around(nodes', b) = Around(nodes, b)
  <2>1. BlockIn(nodes', b)
    BY <1>1, <1>2, <1>4 DEF BlockIn
  <2> HIDE DEF Id
  <2>2. Around(nodes', b) = Around(nodes, b)
    BY <1>1, <1>2, <1>3, <1>4, AroundGrows
  <2> QED
    BY <2>1, <2>2
<1>5. IsTree(nodes')
  <2> SUFFICES ASSUME NEW i \in DOMAIN nodes'
               PROVE  /\ i \in Nat /\ BlockIn(nodes', nodes'[i].block)
                      /\ nodes'[i].block[1] \in Nat /\ nodes'[i].block[1] < i
    BY DEF IsTree
  <2>1. i \in Nat /\ nodes'[i].block[1] < i
    BY <1>1
  <2>2. CASE i = Id
    BY <1>2, <1>4, <2>1, <2>2
  <2>3. CASE i \in DOMAIN nodes
    BY <1>1, <1>3, <1>4, <2>1, <2>3 DEF IsTree
  <2> QED
    BY <1>2, <2>2, <2>3
<1>6. ASSUME NEW b, BlockIn(nodes, b) PROVE Branches(nodes', b) = Branches(nodes, b)
  <2>1. \A c \in Around(nodes, b) : nodes'[c[1]] = nodes[c[1]]
    BY <1>1, <1>3, <1>6, AroundFacts
  <2> QED
    BY <1>4, <1>6, <2>1 DEF Branches
<1>7. /\ kind = "leaf" =>
           Leaves(nodes') =
             Leaves(nodes) \cup {[id |-> Len(nodes) + 1, within |-> Branches(nodes, block)]}
      /\ kind # "leaf" => Leaves(nodes') = Leaves(nodes)
  <2> DEFINE L(tree, i) == [id |-> i, within |-> Branches(tree, tree[i].block)]
             D(tree) == {j \in DOMAIN tree : tree[j].kind = "leaf"}
  <2>1. \A i \in DOMAIN nodes : L(nodes', i) = L(nodes, i)
    BY <1>1, <1>3, <1>6 DEF IsTree
  <2>2. L(nodes', Id) = [id |-> Len(nodes) + 1, within |-> Branches(nodes, block)]
    BY <1>1, <1>2, <1>6
  <2>3. D(nodes') = D(nodes) \cup (IF kind = "leaf" THEN {Id} ELSE {})
    BY <1>1, <1>2
  <2>4. D(nodes) \subseteq DOMAIN nodes
    OBVIOUS
  <2>5. \A tree : Leaves(tree) = {L(tree, i) : i \in D(tree)}
    BY DEF Leaves
  <2>6. Leaves(nodes) = {L(nodes', i) : i \in D(nodes)}
    <3> HIDE DEF L, D
    <3> QED
      BY <2>1, <2>4, <2>5
  <2> HIDE DEF L, D
  <2>7. CASE kind = "leaf"
    <3>1. Leaves(nodes') = {L(nodes', i) : i \in D(nodes) \cup {Id}}
      BY <2>3, <2>5, <2>7
    <3> QED
      BY <2>2, <2>6, <2>7, <3>1
  <2>8. CASE kind # "leaf"
    BY <2>3, <2>5, <2>6, <2>8
  <2> QED
    BY <2>7, <2>8
<1> QED
  BY <1>1, <1>5, <1>4, <1>6, <1>7

\* A branch of the new node is inside the branches around its block.
LEMMA BranchOpened ==
  ASSUME TypeOK, TreeOK, NEW kind \in Kinds, NEW block \in Blocks, NEW nested \in BOOLEAN,
         block[1] <= Len(nodes), BlockIn(nodes, block), New(kind, block, nested),
         NEW branch, IsBranch(kind, branch)
  PROVE  LET b == <<Id, branch>>
         IN  /\ BlockIn(nodes', b)
             /\ Branches(nodes', b) =
                  Branches(nodes, block) \cup {Nesting!Branch(Len(nodes) + 1, branch, nested)}
<1> DEFINE b == <<Id, branch>>
<1>1. /\ Len(nodes) \in Nat /\ Id = Len(nodes) + 1 /\ Id \in DOMAIN nodes'
      /\ nodes'[Id] = [kind |-> kind, block |-> block, nested |-> nested]
  BY NewNode DEF Id
<1>2. /\ IsTree(nodes') /\ Branches(nodes', block) = Branches(nodes, block)
  BY NodeAdded
<1>3. b # Root /\ b[1] = Id /\ b[2] = branch
  BY <1>1 DEF Root
<1> HIDE DEF b
<1>4. BlockIn(nodes', b)
  BY <1>1, <1>3 DEF BlockIn
<1>5. Branches(nodes', b) = {BranchOf(nodes', b)} \cup Branches(nodes', nodes'[b[1]].block)
  BY <1>2, <1>3, <1>4, BranchesUp
<1>6. BranchOf(nodes', b) = Nesting!Branch(Len(nodes) + 1, branch, nested)
  BY <1>1, <1>3 DEF BranchOf, Nesting!Branch
<1>7. nodes'[b[1]].block = block
  BY <1>1, <1>3
<1> QED
  BY <1>2, <1>4, <1>5, <1>6, <1>7 DEF b

\* The tags that add a construct.
LEMMA OpenTagMaps ==
  ASSUME TypeOK, TreeOK, proper, Parsing, proper' = proper, status' = status,
         NEW kind \in Kinds, kind # "leaf", NEW branch, IsBranch(kind, branch),
         New(kind, current_block, FALSE), current_block' = <<Id, branch>>
  PROVE  TreeOK' /\ Nesting!OpenTag(branch)
<1>1. /\ current_block \in Blocks /\ current_block[1] <= Len(nodes)
      /\ BlockIn(nodes, current_block)
  BY DEF TypeOK, TreeOK, Kinds
<1>2. /\ IsTree(nodes') /\ Len(nodes') = Len(nodes) + 1 /\ BlockIn(nodes', current_block')
      /\ Branches(nodes', current_block') =
           Branches(nodes, current_block) \cup {Nesting!Branch(Len(nodes) + 1, branch, FALSE)}
      /\ Leaves(nodes') = Leaves(nodes)
  <2>1. /\ IsTree(nodes') /\ Len(nodes') = Len(nodes) + 1 /\ Leaves(nodes') = Leaves(nodes)
    BY <1>1, NodeAdded
  <2>2. /\ BlockIn(nodes', <<Id, branch>>)
        /\ Branches(nodes', <<Id, branch>>) =
             Branches(nodes, current_block) \cup {Nesting!Branch(Len(nodes) + 1, branch, FALSE)}
    BY <1>1, BranchOpened
  <2> QED
    BY <2>1, <2>2
<1> QED
  BY <1>2 DEF TreeOK, Nesting!OpenTag

LEMMA LeafMaps ==
  ASSUME TypeOK, TreeOK, proper, Leaf
  PROVE  TreeOK' /\ Nesting!Leaf
<1>1. /\ current_block \in Blocks /\ current_block[1] <= Len(nodes) /\ "leaf" \in Kinds
      /\ BlockIn(nodes, current_block)
  BY DEF TypeOK, TreeOK, Kinds
<1>2. /\ New("leaf", current_block, FALSE)
      /\ UNCHANGED <<proper, current_block, status>>
  BY DEF Leaf
<1>3. /\ IsTree(nodes') /\ Len(nodes') = Len(nodes) + 1 /\ BlockIn(nodes', current_block)
      /\ Branches(nodes', current_block) = Branches(nodes, current_block)
      /\ Leaves(nodes') =
           Leaves(nodes) \cup {[id |-> Len(nodes) + 1, within |-> Branches(nodes, current_block)]}
  BY <1>1, <1>2, NodeAdded
<1> QED
  BY <1>2, <1>3 DEF TreeOK, Nesting!Leaf

\* What goes wrong only once in a template whose tags nest: a second block of a name,
\* or the end where something is open.  The end of it all to both.
LEMMA EndMaps ==
  ASSUME TreeOK, proper, Parsing, UNCHANGED <<proper, nodes, current_block>>,
         status' \in {"error", "done"}
  PROVE  TreeOK' /\ Nesting!End
BY DEF TreeOK, Parsing, Nesting!End

\* The current block is a branch of an if, and its else is in what that is in.
LEMMA InIf ==
  ASSUME TypeOK, TreeOK, Structure, proper, Fits("if"), if_stack # <<>>
  PROVE  LET e == BranchOf(nodes, current_block)
             f == <<Top(if_stack), "false_statement">>
         IN  /\ e \in Branches(nodes, current_block) /\ Nesting!Innermost(e)
             /\ e.branch \in Nesting!IfBranches
             /\ Branches(nodes, f) = Nesting!InElse(e)
             /\ BlockIn(nodes, f) /\ f \in Blocks /\ f[1] <= Len(nodes)
<1> DEFINE e == BranchOf(nodes, current_block)
           f == <<current_block[1], "false_statement">>
<1>1. current_block # Root /\ Top(if_stack) = current_block[1] /\ nodes[current_block[1]].kind = "if"
  BY FitsTop DEF Fits
<1>2. /\ e \in Branches(nodes, current_block) /\ Nesting!Innermost(e)
      /\ e.branch = current_block[2]
      /\ Branches(nodes, f) = Nesting!InElse(e)
  BY <1>1, InnermostBranch
<1>3. current_block[1] \in DOMAIN nodes /\ BlockIn(nodes, current_block)
  BY <1>1 DEF TreeOK, BlockIn
<1>4. /\ BlockIn(nodes, f) /\ f \in Blocks /\ f[1] <= Len(nodes)
  <2>1. f[1] = current_block[1] /\ f[2] = "false_statement"
    OBVIOUS
  <2>2. BlockIn(nodes, f)
    BY <1>1, <1>3, <2>1 DEF BlockIn, IsBranch
  <2> QED
    BY <1>3, <2>2, BlockOfNode
<1>5. e.branch \in Nesting!IfBranches
  BY <1>1, <1>2, <1>3 DEF BlockIn, IsBranch, Nesting!IfBranches
<1>6. f = <<Top(if_stack), "false_statement">>
  BY <1>1
<1> HIDE DEF e, f
<1> QED
  BY <1>2, <1>4, <1>5, <1>6 DEF e

LEMMA ElseMaps ==
  ASSUME TypeOK, TreeOK, Structure, proper, Else, if_stack # <<>>
  PROVE  TreeOK' /\ \E e \in Branches(nodes, current_block) : Nesting!Else(e)
<1> DEFINE e == BranchOf(nodes, current_block)
           f == <<Top(if_stack), "false_statement">>
<1>1. /\ Parsing /\ Fits("if") /\ current_block' = f
      /\ UNCHANGED <<proper, nodes, status>>
  BY DEF Else
<1>2. /\ e \in Branches(nodes, current_block) /\ Nesting!Innermost(e)
      /\ e.branch \in Nesting!IfBranches
      /\ Branches(nodes, f) = Nesting!InElse(e) /\ BlockIn(nodes, f)
  BY <1>1, InIf
<1> HIDE DEF e, f
<1>3. TreeOK'
  BY <1>1, <1>2 DEF TreeOK
<1>4. Nesting!Else(e)
  BY <1>1, <1>2 DEF Nesting!Else
<1> QED
  BY <1>2, <1>3, <1>4

LEMMA ElseIfMaps ==
  ASSUME TypeOK, TreeOK, Structure, proper, ElseIf, if_stack # <<>>
  PROVE  TreeOK' /\ \E e \in Branches(nodes, current_block) : Nesting!ElseIf(e)
<1> DEFINE e == BranchOf(nodes, current_block)
           f == <<Top(if_stack), "false_statement">>
           b == <<Id, "true_statement">>
<1>1. /\ Parsing /\ Fits("if") /\ New("if", f, TRUE) /\ current_block' = b
      /\ UNCHANGED <<proper, status>>
  BY DEF ElseIf, Room
<1>2. /\ e \in Branches(nodes, current_block) /\ Nesting!Innermost(e)
      /\ e.branch \in Nesting!IfBranches
      /\ Branches(nodes, f) = Nesting!InElse(e)
      /\ BlockIn(nodes, f) /\ f \in Blocks /\ f[1] <= Len(nodes)
  BY <1>1, InIf
<1> HIDE DEF e, f
<1>3. IsBranch("if", "true_statement") /\ "if" \in Kinds /\ "if" # "leaf"
  BY DEF IsBranch, Kinds
<1>4. /\ IsTree(nodes') /\ Len(nodes') = Len(nodes) + 1 /\ Leaves(nodes') = Leaves(nodes)
  BY <1>1, <1>2, <1>3, NodeAdded
<1>5. /\ BlockIn(nodes', b)
      /\ Branches(nodes', b) =
           Branches(nodes, f) \cup {Nesting!Branch(Len(nodes) + 1, "true_statement", TRUE)}
  BY <1>1, <1>2, <1>3, BranchOpened
<1> HIDE DEF b
<1>6. TreeOK'
  BY <1>1, <1>4, <1>5 DEF TreeOK
<1>7. Nesting!ElseIf(e)
  BY <1>1, <1>2, <1>4, <1>5 DEF Nesting!ElseIf, Parsing
<1> QED
  BY <1>2, <1>6, <1>7

\* The end of a loop or a block.
LEMMA EndTagMaps ==
  ASSUME TypeOK, TreeOK, Structure, proper, Parsing, UNCHANGED <<proper, status, nodes>>,
         NEW s, NEW kind \in {"for", "block"}, NEW branch \in {"body", "block"},
         IsBranch(kind, branch), Fits(kind), Top(s) \in Open, \A i \in Open : i <= Top(s),
         current_block' = nodes[Top(s)].block
  PROVE  TreeOK' /\ \E e \in Branches(nodes, current_block) : Nesting!EndTag(e, branch)
<1> DEFINE e == BranchOf(nodes, current_block)
           p == nodes[current_block[1]].block
<1>1. current_block # Root /\ nodes[current_block[1]].kind = kind
  BY DEF Fits
<1>2. current_block[1] \in Open /\ \A i \in Open : i <= current_block[1]
  BY <1>1 DEF Structure, Innermost
<1>3. Top(s) = current_block[1]
  <2>1. Top(s) \in Nat /\ current_block[1] \in Nat
    BY <1>2, OpenFacts
  <2>2. Top(s) <= current_block[1] /\ current_block[1] <= Top(s)
    BY <1>2
  <2> QED
    BY <2>1, <2>2
<1>4. /\ e \in Branches(nodes, current_block) /\ Nesting!Innermost(e)
      /\ e.branch = current_block[2]
      /\ Branches(nodes, p) = Branches(nodes, current_block) \ {e}
  BY <1>1, InnermostBranch
<1>5. e.branch = branch
  <2>1. IsBranch(kind, current_block[2])
    BY <1>1 DEF TreeOK, BlockIn
  <2> HIDE DEF e
  <2> QED
    BY <1>4, <2>1 DEF IsBranch
<1>6. BlockIn(nodes, p) /\ current_block' = p
  BY <1>1, <1>3, BranchesUp DEF TreeOK
<1> HIDE DEF e, p
<1> QED
  BY <1>4, <1>5, <1>6 DEF TreeOK, Nesting!EndTag

LEMMA EndifMaps ==
  ASSUME TypeOK, TreeOK, Structure, proper, Endif, if_stack # <<>>
  PROVE  TreeOK' /\ \E e \in Branches(nodes, current_block) : Nesting!EndIf(e)
<1>1. PICK m \in DOMAIN if_stack :
        /\ ~nodes[if_stack[m]].nested
        /\ \A n \in (m + 1)..Len(if_stack) : nodes[if_stack[n]].nested
        /\ current_block' = nodes[if_stack[m]].block
        /\ UNCHANGED <<proper, nodes, status>>
  BY DEF Endif
<1> DEFINE t == if_stack[m]
<1>2. /\ Len(if_stack) \in DOMAIN if_stack /\ \A i \in Open : i <= if_stack[Len(if_stack)]
  BY FitsTop DEF Endif
<1>3. t \in Open /\ nodes[t].kind = "if" /\ t \in Nat
  <2>1. t \in Open
    BY DEF Open
  <2>2. nodes[t].kind = "if"
    BY DEF Structure, StacksOK, OfKind
  <2> QED
    BY <2>1, <2>2, StackTypes
<1>4. PICK c \in Around(nodes, current_block) : c[1] = t
  BY <1>3, OpenAround
<1> DEFINE e == BranchOf(nodes, c)
           o == Branches(nodes, current_block)
<1>5. /\ e \in o /\ e.id = t /\ e.branch = c[2] /\ e.chained = nodes[t].nested
  BY <1>4 DEF BranchOf, Branches
<1>6. BlockIn(nodes, c) /\ c # Root /\ c[1] \in DOMAIN nodes
  BY AroundFacts DEF TreeOK
<1>7. e.branch \in Nesting!IfBranches /\ ~e.chained
  BY <1>1, <1>3, <1>4, <1>5, <1>6 DEF BlockIn, IsBranch, Nesting!IfBranches
<1>8. ASSUME NEW i \in Open, t < i PROVE nodes[i].kind = "if" /\ nodes[i].nested
  <2>1. m <= Len(if_stack) /\ Len(if_stack) \in Nat /\ DOMAIN if_stack = 1..Len(if_stack)
    BY StackTypes
  <2>2. nodes[i].kind = "if"
    BY <1>1, <1>2, <1>8, <2>1 DEF Structure, RunsOfIfs, Runs
  <2>3. PICK k \in DOMAIN if_stack : i = if_stack[k]
    BY <2>2, OpenFacts DEF Structure, Elements
  <2>4. ~(k < m) /\ k # m
    BY <1>3, <1>8, <2>3, StackTypes DEF Structure, StacksOK, Increasing
  <2>5. k \in (m + 1)..Len(if_stack)
    BY <2>1, <2>4
  <2> QED
    BY <1>1, <2>2, <2>3, <2>5
<1>9. ASSUME NEW d \in o, d.id > e.id PROVE d.branch \in Nesting!IfBranches /\ d.chained
  <2>1. PICK x \in Around(nodes, current_block) : d = BranchOf(nodes, x)
    BY DEF Branches, BranchOf
  <2>2. d.id = x[1] /\ d.branch = x[2] /\ d.chained = nodes[x[1]].nested
    BY <2>1 DEF BranchOf
  <2>3. x[1] \in Open /\ BlockIn(nodes, x) /\ x # Root /\ x[1] \in Nat
    BY OpenAround, AroundFacts, OpenFacts DEF TreeOK
  <2>4. nodes[x[1]].kind = "if" /\ nodes[x[1]].nested
    BY <1>3, <1>5, <1>8, <1>9, <2>2, <2>3
  <2> QED
    BY <2>2, <2>3, <2>4 DEF BlockIn, IsBranch, Nesting!IfBranches
<1>10. Branches(nodes, nodes[t].block) = {d \in o : d.id < e.id}
  <2>1. {x \in Around(nodes, current_block) : x[1] < c[1]} = Around(nodes, nodes[t].block)
    BY <1>4, AroundOuter DEF TreeOK
  <2>2. \A b : Branches(nodes, b) = {BranchOf(nodes, x) : x \in Around(nodes, b)}
    BY DEF Branches, BranchOf
  <2>3. \A x : BranchOf(nodes, x).id = x[1]
    BY DEF BranchOf
  <2>4. e.id = c[1]
    BY <1>4, <1>5
  <2> HIDE DEF e, t
  <2>5. Branches(nodes, nodes[t].block) \subseteq {d \in o : d.id < e.id}
    BY <2>1, <2>2, <2>3, <2>4
  <2>6. ASSUME NEW d \in o, d.id < e.id PROVE d \in Branches(nodes, nodes[t].block)
    BY <2>1, <2>2, <2>3, <2>4, <2>6
  <2> QED
    BY <2>5, <2>6
<1>11. TreeOK'
  <2>1. BlockIn(nodes, nodes[t].block)
    BY <1>4, <1>6 DEF TreeOK, IsTree
  <2> QED
    BY <1>1, <2>1 DEF TreeOK
<1> HIDE DEF e, t
<1>12. Nesting!EndIf(e)
  <2>1. (Branches(nodes, current_block))' = {d \in o : d.id < e.id}
    BY <1>1, <1>10 DEF t
  <2> QED
    BY <1>1, <1>5, <1>7, <1>9, <2>1 DEF Nesting!EndIf
<1> QED
  BY <1>5, <1>11, <1>12

\* A step of a template whose tags nest keeps the tree and is a step of the nesting.
LEMMA StepMaps ==
  ASSUME TypeOK, TreeOK, Structure, proper, Next
  PROVE  TreeOK' /\ Nesting!Next
<1> USE DEF stacks
<1> DEFINE N == Nesting!Leaf \/ Nesting!End
                  \/ (\E b \in {"true_statement", "body", "block"} : Nesting!OpenTag(b))
                  \/ (\E e \in Branches(nodes, current_block) :
                        Nesting!Else(e) \/ Nesting!ElseIf(e) \/ Nesting!EndIf(e)
                          \/ Nesting!EndTag(e, "body") \/ Nesting!EndTag(e, "block"))
<1>1. Parsing
  BY DEF Next, Parsing, Room, Leaf, Malformed, If, Else, ElseIf, Endif, For, Endfor, Block,
         Endblock, Eof
<1>2. ASSUME N PROVE Nesting!Next
  BY <1>1, <1>2 DEF Nesting!Next, Parsing
<1>3. ASSUME Fail PROVE TreeOK' /\ N
  BY <1>1, <1>3, EndMaps DEF Fail
<1>4. ASSUME Leaf PROVE TreeOK' /\ N
  BY <1>4, LeafMaps
<1>5. ASSUME Malformed PROVE TreeOK' /\ N
  BY <1>3, <1>5 DEF Malformed
<1>6. ASSUME If PROVE TreeOK' /\ N
  <2>1. IsBranch("if", "true_statement") /\ "if" \in Kinds /\ "if" # "leaf"
    BY DEF IsBranch, Kinds
  <2>2. TreeOK' /\ Nesting!OpenTag("true_statement")
    BY <1>1, <1>6, <2>1, OpenTagMaps DEF If
  <2> QED
    BY <2>2
<1>7. ASSUME Else PROVE TreeOK' /\ N
  <2>1. CASE if_stack = <<>>
    BY <1>3, <1>7, <2>1 DEF Else
  <2>2. CASE if_stack # <<>>
    BY <1>7, <2>2, ElseMaps
  <2> QED
    BY <2>1, <2>2
<1>8. ASSUME ElseIf PROVE TreeOK' /\ N
  <2>1. CASE if_stack = <<>>
    BY <1>3, <1>8, <2>1 DEF ElseIf
  <2>2. CASE if_stack # <<>>
    BY <1>8, <2>2, ElseIfMaps
  <2> QED
    BY <2>1, <2>2
<1>9. ASSUME Endif PROVE TreeOK' /\ N
  <2>1. CASE if_stack = <<>>
    BY <1>3, <1>9, <2>1 DEF Endif
  <2>2. CASE if_stack # <<>>
    BY <1>9, <2>2, EndifMaps
  <2> QED
    BY <2>1, <2>2
<1>10. ASSUME For PROVE TreeOK' /\ N
  <2>1. IsBranch("for", "body") /\ "for" \in Kinds /\ "for" # "leaf"
    BY DEF IsBranch, Kinds
  <2>2. TreeOK' /\ Nesting!OpenTag("body")
    BY <1>1, <1>10, <2>1, OpenTagMaps DEF For
  <2> QED
    BY <2>2
<1>11. ASSUME Endfor PROVE TreeOK' /\ N
  <2>1. CASE for_stack = <<>>
    BY <1>3, <1>11, <2>1 DEF Endfor
  <2>2. CASE for_stack # <<>>
    <3>1. /\ Fits("for") /\ current_block' = nodes[Top(for_stack)].block
          /\ UNCHANGED <<proper, status, nodes>>
      BY <1>11, <2>2 DEF Endfor
    <3>2. Top(for_stack) \in Open /\ \A i \in Open : i <= Top(for_stack)
      BY <2>2, <3>1, FitsTop
    <3>3. IsBranch("for", "body")
      BY DEF IsBranch
    <3>4. TreeOK' /\ \E e \in Branches(nodes, current_block) : Nesting!EndTag(e, "body")
      BY <1>1, <3>1, <3>2, <3>3, EndTagMaps
    <3> QED
      BY <3>4
  <2> QED
    BY <2>1, <2>2
<1>12. ASSUME NEW name \in BlockNames, Block(name) PROVE TreeOK' /\ N
  <2>1. CASE name \in block_storage
    BY <1>3, <1>12, <2>1 DEF Block
  <2>2. CASE name \notin block_storage
    <3>1. IsBranch("block", "block") /\ "block" \in Kinds /\ "block" # "leaf"
      BY DEF IsBranch, Kinds
    <3>2. TreeOK' /\ Nesting!OpenTag("block")
      BY <1>1, <1>12, <2>2, <3>1, OpenTagMaps DEF Block
    <3> QED
      BY <3>2
  <2> QED
    BY <2>1, <2>2
<1>13. ASSUME Endblock PROVE TreeOK' /\ N
  <2>1. CASE block_stack = <<>>
    BY <1>3, <1>13, <2>1 DEF Endblock
  <2>2. CASE block_stack # <<>>
    <3>1. /\ Fits("block") /\ current_block' = nodes[Top(block_stack)].block
          /\ UNCHANGED <<proper, status, nodes>>
      BY <1>13, <2>2 DEF Endblock
    <3>2. Top(block_stack) \in Open /\ \A i \in Open : i <= Top(block_stack)
      BY <2>2, <3>1, FitsTop
    <3>3. IsBranch("block", "block")
      BY DEF IsBranch
    <3>4. TreeOK' /\ \E e \in Branches(nodes, current_block) : Nesting!EndTag(e, "block")
      BY <1>1, <3>1, <3>2, <3>3, EndTagMaps
    <3> QED
      BY <3>4
  <2> QED
    BY <2>1, <2>2
<1>14. ASSUME Eof PROVE TreeOK' /\ N
  <2>1. UNCHANGED <<proper, nodes, current_block>> /\ status' \in {"error", "done"}
    BY <1>14 DEF Eof, Fail
  <2> QED
    BY <1>1, <2>1, EndMaps
<1> HIDE DEF N
<1> QED
  BY <1>2, <1>4, <1>5, <1>6, <1>7, <1>8, <1>9, <1>10, <1>11, <1>12, <1>13, <1>14 DEF Next

\* For any template whose tags nest, of any length and depth: in the syntax tree every
\* node is in exactly the branches whose tags are open around it in the template.
THEOREM NestingRefinement == Spec => ImplementsNesting
<1> DEFINE NInv == IInv /\ (proper => TreeOK)
<1>1. Init => NInv /\ Nesting!Init
  <2> SUFFICES ASSUME Init PROVE NInv /\ Nesting!Init
    OBVIOUS
  <2>1. IInv
    BY InitStructure
  <2>2. nodes = <<>> /\ current_block = Root /\ status = "parsing" /\ DOMAIN nodes = {}
    BY DEF Init
  <2>3. TreeOK
    BY <2>2 DEF TreeOK, IsTree, BlockIn
  <2>4. Branches(nodes, current_block) = {}
    BY <2>2, AroundRoot DEF Branches
  <2>5. Leaves(nodes) = {} /\ Len(nodes) = 0
    BY <2>2 DEF Leaves
  <2> QED
    BY <2>1, <2>2, <2>3, <2>4, <2>5 DEF Nesting!Init
<1>2. NInv /\ [Next]_vars => NInv' /\ [Nesting!Next]_(Nesting!vars)
  <2> SUFFICES ASSUME NInv, [Next]_vars PROVE NInv' /\ [Nesting!Next]_(Nesting!vars)
    OBVIOUS
  <2>1. IInv' /\ proper' = proper
    BY TypeStep, TemplateStep, StructureStep DEF IInv
  <2>2. CASE ~proper
    BY <2>1, <2>2 DEF Nesting!vars
  <2>3. CASE proper /\ Next
    <3>1. TypeOK /\ Structure /\ TreeOK
      BY <2>3 DEF IInv
    <3> QED
      BY <2>1, <2>3, <3>1, StepMaps
  <2>4. CASE UNCHANGED vars
    BY <2>1, <2>4 DEF vars, Nesting!vars, TreeOK
  <2> QED
    BY <2>2, <2>3, <2>4
<1> QED
  BY <1>1, <1>2, PTL DEF Spec, ImplementsNesting, Nesting!Spec
=============================================================================
