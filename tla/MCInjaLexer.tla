---------------------------- MODULE MCInjaLexer ----------------------------
EXTENDS InjaLexer, SequencesExt

(* Templates made of pieces: delimiters, blanks, and the characters on which  *)
(* the scanner branches.                                                      *)
Tags == {<<"{", "{">>, <<"{", "%">>, <<"{", "#">>, <<"#", "#">>, <<"}", "}">>, <<"%", "}">>, <<"#", "}">>}
Chars == {<<"-">>, <<"a">>, <<" ">>, <<"\n">>}
Bodies == {<<"-">>, <<"a">>, <<"1">>, <<"\"">>, <<"\\">>, <<"(">>, <<")">>, <<"+">>, <<" ">>, <<"=">>, <<"\r">>, <<"e">>}

Pieces(S, n) == {FlattenSeq(s) : s \in UNION {[1..k -> S] : k \in 0..n}}

Plain ==
  Pieces(Tags \cup Chars, 4)
  \cup {<<"{", "{">> \o s \o <<"}", "}">> : s \in Pieces(Bodies, 3)}
  \cup {<<"{", "{", " ">> \o s \o <<"}", "}">> : s \in Pieces({<<"-">>, <<"1">>, <<")">>, <<"a">>, <<" ">>}, 4)}
  \cup {<<"{", "{", " ">> \o s \o <<"}", "}">> \o u \o <<"{", "%", " ">> \o t \o <<"%", "}">> :
          s \in Pieces({<<"a">>, <<")">>, <<"+">>, <<"-">>}, 2), u \in Pieces({<<"a">>}, 1),
          t \in Pieces({<<"-">>, <<"1">>, <<" ">>}, 3)}
  \cup {<<"a", "\n">> \o s \o <<"{", "%", m, "%", "}">> \o t :
          s \in Pieces({<<" ">>, <<"a">>}, 2), t \in Pieces({<<" ">>, <<"\n">>, <<"\r">>}, 2), m \in {"-", "+", " "}}

Stripped ==
  Pieces({<<"{", "%", "%", "}">>, <<"{", "#", "#", "}">>, <<"{", "%">>, <<"a">>, <<" ">>, <<"\n">>, <<"\r">>}, 4)

Read(S, strip) == {[text |-> s, trim_blocks |-> strip, lstrip_blocks |-> strip] : s \in S}
MCCharacters == UNION {Range(s) : s \in Tags \cup Chars \cup Bodies \cup {<<"%">>}}
MCInputs == Read(Plain, FALSE) \cup Read(Stripped, TRUE)
=============================================================================
