------------------------------ MODULE InjaLexer ------------------------------
(* The scanner of inja, the template engine with which the generator writes  *)
(* the Java classes (inja.hpp, class Lexer).  The parser pulls one token at a *)
(* time; positions count from 0, as in the code, and a token is the slice     *)
(* from..to-1 of the input: what is left of the template after the byte-order *)
(* mark that start skips.                                                     *)
EXTENDS Integers, Sequences, FiniteSets, FiniteSetsExt

CONSTANTS
  Characters,      \* of which templates are made
  Inputs           \* [text, trim_blocks, lstrip_blocks]: a template, as a sequence of
                   \* characters, and the two switches of LexerConfig

ASSUME InputsAssumption ==
  Inputs \subseteq [text : Seq(Characters), trim_blocks : BOOLEAN, lstrip_blocks : BOOLEAN]

VARIABLES
  input,           \* m_in
  config,          \* the two switches
  state,           \* text, an opening sequence, or the body of a tag
  minus_state,     \* what a '-' would be: "Operator" or "Number"
  pos,             \* where the next scan starts
  tokens           \* all the tokens returned so far

lexVars == <<input, config, state, minus_state, pos, tokens>>

-----------------------------------------------------------------------------
(* The input. *)

Size == Len(input)
At(q) == input[q + 1]
StartsWith(q, prefix) ==
  q + Len(prefix) <= Size /\ SubSeq(input, q + 1, q + Len(prefix)) = prefix

(* The first of the positions in stops, or the end of the input. *)
First(stops) == Min(stops \cup {Size})

Spaces == {" ", "\t"}
Blanks == {" ", "\t", "\n", "\r"}
Letters == {"a", "e"}
Digits == {"0", "1"}

(* The opening sequences of the default configuration, the longer ones first, *)
(* with the token and the body they open and whether the line before them is  *)
(* stripped.                                                                  *)
Opener(open, start, token, body, lstrip) ==
  [open |-> open, state |-> start, token |-> token, body |-> body, lstrip |-> lstrip]

Openers == <<
  Opener(<<"{", "{", "-">>, "ExpressionStartForceLstrip", "ExpressionOpen", "Expression", "always"),
  Opener(<<"{", "{">>,      "ExpressionStart",            "ExpressionOpen", "Expression", "never"),
  Opener(<<"{", "%", "+">>, "StatementStartNoLstrip",     "StatementOpen",  "Statement",  "never"),
  Opener(<<"{", "%", "-">>, "StatementStartForceLstrip",  "StatementOpen",  "Statement",  "always"),
  Opener(<<"{", "%">>,      "StatementStart",             "StatementOpen",  "Statement",  "lstrip_blocks"),
  Opener(<<"{", "#", "-">>, "CommentStartForceLstrip",    "CommentOpen",    "Comment",    "always"),
  Opener(<<"{", "#">>,      "CommentStart",               "CommentOpen",    "Comment",    "lstrip_blocks"),
  Opener(<<"#", "#">>,      "LineStart",                  "LineStatementOpen", "LineStatement", "never")>>

Closers == [
  Expression |-> [token |-> "ExpressionClose", close |-> <<"}", "}">>, close_trim |-> <<"-", "}", "}">>],
  Statement  |-> [token |-> "StatementClose",  close |-> <<"%", "}">>, close_trim |-> <<"-", "%", "}">>],
  LineStatement |-> [token |-> "LineStatementClose", close |-> <<"\n">>, close_trim |-> <<>>]]

(* A line statement opens at the start of a line only. *)
Opens(q, o) ==
  /\ StartsWith(q, o.open)
  /\ o.state = "LineStart" => q = 0 \/ At(q - 1) = "\n"

Strips(o) == o.lstrip = "always" \/ (o.lstrip = "lstrip_blocks" /\ config.lstrip_blocks)

Opening(q) == {i \in DOMAIN Openers : Opens(q, Openers[i])}

-----------------------------------------------------------------------------
(* Stripping around tags. *)

\* FALSE: strips the last line, whatever is on it.
ClearFinalLine_WholeLine(q0, q) ==
  Max({i \in q0..q : i = q0 \/ At(i - 1) \in {"\n", "\r"}})

(* clear_final_line_if_whitespace: the end of the text q0..q-1 without the    *)
(* blanks of its last line, if there is nothing else on that line.            *)
ClearFinalLine(q0, q) ==
  LET b == Min({i \in q0..q : \A j \in i..(q - 1) : At(j) \in Spaces})
  IN  IF b = q0 \/ At(b - 1) \in {"\n", "\r"} THEN b ELSE q

SkipWhitespacesAndNewlines(q) == First({i \in q..(Size - 1) : At(i) \notin Blanks})

SkipWhitespacesAndFirstNewline(q) ==
  LET n == First({i \in q..(Size - 1) : At(i) \notin Spaces})
  IN  IF StartsWith(n, <<"\r", "\n">>) THEN n + 2
      ELSE IF n < Size /\ At(n) \in {"\n", "\r"} THEN n + 1
      ELSE n

-----------------------------------------------------------------------------
(* Tokens. *)

IdEnd(q) == First({i \in q..(Size - 1) : At(i) \notin Letters \cup Digits \cup {".", "/", "_", "-"}})

NumberEnd(q) ==
  First({i \in q..(Size - 1) : /\ At(i) \notin Digits \cup {".", "e"}
                                /\ ~(At(i) \in {"+", "-"} /\ (i = 0 \/ At(i - 1) = "e"))})

(* A quote ends a string unless an odd number of backslashes precedes it. *)
Escaped(q0, q) ==
  LET run == Min({i \in q0..q : \A j \in i..(q - 1) : At(j) = "\\"})
  IN  (q - run) % 2 = 1

(* A string that nothing closes ends with the input. *)
StringEnd(q) ==
  LET e == First({i \in q..(Size - 1) : At(i) = "\"" /\ ~Escaped(q, i)})
  IN  IF e = Size THEN Size ELSE e + 1

Punctuation == [c \in {"+", "*", "/", "^", "%", ".", ",", ":", "(", ")", "[", "]", "{", "}"} |->
  CASE c = "+" -> "Plus" [] c = "*" -> "Times" [] c = "/" -> "Slash"
    [] c = "^" -> "Power" [] c = "%" -> "Percent" [] c = "." -> "Dot"
    [] c = "," -> "Comma" [] c = ":" -> "Colon" [] c = "(" -> "LeftParen"
    [] c = ")" -> "RightParen" [] c = "[" -> "LeftBracket"
    [] c = "]" -> "RightBracket" [] c = "{" -> "LeftBrace" [] OTHER -> "RightBrace"]

OrEqual(c) ==
  CASE c = ">" -> "GreaterEqual" [] c = "<" -> "LessEqual" [] c = "=" -> "Equal" [] OTHER -> "NotEqual"

\* FALSE: a character that starts no token is reported and not passed.
TokenAt_UnknownStays(q) ==
  IF At(q) \in Letters \cup Digits
  THEN [kind |-> "Id", from |-> q, to |-> IdEnd(q + 1)]
  ELSE [kind |-> "Unknown", from |-> q, to |-> q]

(* The token that starts at q in the body of a tag. *)
TokenAt(q) ==
  LET c == At(q)
      equals == StartsWith(q + 1, <<"=">>)
      Token(kind, to) == [kind |-> kind, from |-> q, to |-> to]
  IN  CASE c \in Letters \cup {"_", "@", "$"}          -> Token("Id", IdEnd(q + 1))
        [] c \in Digits                                -> Token("Number", NumberEnd(q + 1))
        [] c = "-" /\ minus_state = "Operator"         -> Token("Minus", q + 1)
        [] c = "-" /\ minus_state = "Number"           -> Token("Number", NumberEnd(q + 1))
        [] c = "\""                                    -> Token("String", StringEnd(q + 1))
        [] c \in DOMAIN Punctuation                    -> Token(Punctuation[c], q + 1)
        [] c \in {">", "<", "=", "!"} /\ equals       -> Token(OrEqual(c), q + 2)
        [] c = ">" /\ ~equals                          -> Token("GreaterThan", q + 1)
        [] c = "<" /\ ~equals                          -> Token("LessThan", q + 1)
        [] OTHER                                       -> Token("Unknown", q + 1)

\* FALSE: a closing parenthesis does not end an operand.
MinusAfter_NoParen(c) ==
  IF c \in Letters \cup Digits \cup {"_", "@", "$", "]", "}"} THEN "Operator" ELSE "Number"

(* What a '-' after a token that starts with c is. *)
MinusAfter(c) ==
  IF c \in Letters \cup Digits \cup {"_", "@", "$", ")", "]", "}"} THEN "Operator" ELSE "Number"

-----------------------------------------------------------------------------
(* One scan, by the state that it finds. *)

Finished == tokens # <<>> /\ tokens[Len(tokens)].kind = "Eof"

Return(kind, from, to, next, next_state) ==
  /\ tokens' = Append(tokens, [kind |-> kind, from |-> from, to |-> to])
  /\ pos' = next
  /\ state' = next_state
  /\ UNCHANGED <<input, config>>

OpenTag(o, from, q) ==
  Return(o.token, from, q + Len(o.open), q + Len(o.open), o.body)

ScanEof == pos >= Size /\ Return("Eof", pos, Size, pos, state) /\ UNCHANGED minus_state

(* Text up to the next opening sequence; if stripping leaves none of it, the  *)
(* opening sequence itself.                                                   *)
ScanText ==
  /\ state = "Text" /\ pos < Size
  /\ LET q == First({i \in pos..(Size - 1) : Opening(i) # {}})
         o == Openers[Min(Opening(q))]
         end == IF Strips(o) THEN ClearFinalLine(pos, q) ELSE q
     IN  IF q = Size THEN Return("Text", pos, Size, Size, "Text")
         ELSE IF end > pos THEN Return("Text", pos, end, q, o.state)
         ELSE OpenTag(o, pos, q)
  /\ UNCHANGED minus_state

ScanStart ==
  \E i \in DOMAIN Openers :
    /\ state = Openers[i].state
    /\ OpenTag(Openers[i], pos, pos)
    /\ UNCHANGED minus_state

(* scan_body: newlines are blanks, except where one closes a line statement. *)
ScanBody ==
  /\ state \in DOMAIN Closers /\ pos < Size
  /\ LET c == Closers[state]
         Trims(i) == c.close_trim # <<>> /\ StartsWith(i, c.close_trim)
         Closes(i) == StartsWith(i, c.close)
         q == First({i \in pos..(Size - 1) : At(i) \notin Blanks \/ (At(i) = "\n" /\ Closes(i))})
         t == TokenAt(q)
     IN  \/ /\ q = Size
            /\ Return("Eof", Size, Size, pos, state)
            /\ UNCHANGED minus_state
         \/ /\ q < Size /\ Trims(q)
            /\ LET to == q + Len(c.close_trim)
               IN  Return(c.token, q, to, SkipWhitespacesAndNewlines(to), "Text")
            /\ UNCHANGED minus_state
         \/ /\ q < Size /\ ~Trims(q) /\ Closes(q)
            /\ LET to == q + Len(c.close)
               IN  Return(c.token, q, to,
                          IF state = "Statement" /\ config.trim_blocks
                            THEN SkipWhitespacesAndFirstNewline(to) ELSE to, "Text")
            /\ UNCHANGED minus_state
         \/ /\ q < Size /\ ~Trims(q) /\ ~Closes(q)
            /\ Return(t.kind, t.from, t.to, t.to, state)
            /\ minus_state' = MinusAfter(At(q))

(* The whole comment is in the token that closes it; a comment that nothing   *)
(* closes swallows the rest of the template.                                  *)
ScanComment ==
  /\ state = "Comment" /\ pos < Size
  /\ LET q == First({i \in pos..(Size - 1) : StartsWith(i, <<"#", "}">>)})
         strip == StartsWith(q - 1, <<"-", "#", "}">>) \/ config.trim_blocks
     IN  IF q = Size THEN Return("Eof", pos, Size, Size, state)
         ELSE Return("CommentClose", pos, q + 2,
                     IF strip THEN SkipWhitespacesAndFirstNewline(q + 2) ELSE q + 2, "Text")
  /\ UNCHANGED minus_state

LexInit ==
  /\ \E template \in Inputs :
       /\ input = template.text
       /\ config = [s \in {"trim_blocks", "lstrip_blocks"} |-> template[s]]
  /\ state = "Text" /\ minus_state = "Number" /\ pos = 0
  /\ tokens = <<>>

Scan == ~Finished /\ (ScanEof \/ ScanText \/ ScanStart \/ ScanBody \/ ScanComment)

LexSpec == LexInit /\ [][Scan]_lexVars
-----------------------------------------------------------------------------
(* Properties. *)

IsOpen(t) == t.kind \in {"ExpressionOpen", "StatementOpen", "CommentOpen", "LineStatementOpen"}
IsClose(t) == t.kind \in {"ExpressionClose", "StatementClose", "CommentClose", "LineStatementClose"}
EndsOperand(t) ==
  \/ t.kind \in {"Id", "RightParen", "RightBracket", "RightBrace"}
  \/ t.kind = "Number" /\ At(t.from) # "-"

(* Two neighbouring tokens do not overlap, and what lies between them is      *)
(* lost on purpose: blanks in a tag, or blanks next to a tag that asks for    *)
(* stripping, by a '-' of its own or by the configuration, before it only on   *)
(* its own line.  So no character of a template's text is lost otherwise, or  *)
(* written twice.                                                             *)
LostTextIsAskedFor ==
  \A i \in 1..(Len(tokens) - 1) :
    LET a == tokens[i]
        b == tokens[i + 1]
        InBody == a.kind # "Text" /\ ~IsClose(a)
        StripsLeft == IsOpen(b) /\ (config.lstrip_blocks \/ At(b.from + 2) = "-")
        StripsRight == IsClose(a) /\ (config.trim_blocks \/ (a.to >= 3 /\ At(a.to - 3) = "-"))
    IN  /\ a.to <= b.from
        /\ \A q \in a.to..(b.from - 1) : At(q) \in Blanks
        /\ a.to < b.from => InBody \/ StripsLeft \/ StripsRight
        /\ InBody \/ StripsRight \/ \A q \in a.to..(b.from - 1) : At(q) \in Spaces

BodyToken(t) == ~IsOpen(t) /\ ~IsClose(t) /\ t.kind \notin {"Text", "Eof"}

(* The last token in a body among the first n, in whichever tag, ends an      *)
(* operand.                                                                   *)
OperandBefore(n) ==
  \E j \in 1..n : EndsOperand(tokens[j]) /\ \A k \in (j + 1)..n : ~BodyToken(tokens[k])

(* A '-' in a tag is subtraction exactly if the last token before it in the    *)
(* body of a tag ends an operand, and else a sign; strings, and numbers with a *)
(* sign of their own, do not count as operands.  That token may be in an       *)
(* earlier tag: nothing resets minus_state at the borders of a tag, so that    *)
(* the '-' of {{ -1 }} is a sign in the first tag and subtraction after        *)
(* {{ a }}.                                                                   *)
MinusFollowsOperand ==
  \A i \in DOMAIN tokens :
    tokens[i].kind \in {"Minus", "Number"} /\ At(tokens[i].from) = "-"
      => (tokens[i].kind = "Minus" <=> OperandBefore(i - 1))

(* Every scan passes part of the input, and no more than is there, or reports  *)
(* its end: the parser's loop ends on every template, also on strings and      *)
(* comments that nothing closes and on characters that start no token.         *)
ScanAdvances == [][(pos' > pos \/ Finished') /\ pos' <= Size]_lexVars
=============================================================================
