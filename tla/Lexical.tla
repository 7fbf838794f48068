------------------------------ MODULE Lexical ------------------------------
(***************************************************************************)
(* harness/lexical.py, blank: comments and literals of an .npk text made   *)
(* blank, so that a check that reads code is not fooled by a word in a     *)
(* comment.                                                                *)
(*                                                                         *)
(* A text is a sequence of lexemes, each a tuple whose first entry says    *)
(* what it is: a comment's opener or closer, a quote, a backslash, a line  *)
(* end, or a word a check looks for, which the reader sees as any other    *)
(* characters.  The loop takes one comment, literal or lexeme at a time.   *)
(***************************************************************************)
EXTENDS Integers, Sequences, FiniteSetsExt

LineOpener == <<"//">>   BlockOpener == <<"/*">>   BlockCloser == <<"*/">>
Quotes == {<<"double">>, <<"single">>}
Backslash == <<"backslash">>
LineEnd == <<"line end">>
Space == <<"space">>

VARIABLES
  text,   \* the text being read
  at,     \* how much of it is read
  out     \* what is given for that

lexicalVars == <<text, at, out>>

\* The first position from k on that holds x, or the one past the end.
Find(x, k) == Min({j \in k..Len(text) : text[j] = x} \cup {Len(text) + 1})

Upto(end) == IF end > Len(text) THEN Len(text) ELSE end

Starts(opener) == at < Len(text) /\ text[at + 1] = opener

\* The loop goes on after `end`; what it gives for k \in at+1..end is shown[k].
Give(end, shown(_)) ==
  /\ at' = end
  /\ out' = out \o [k \in 1..(end - at) |-> shown(at + k)]
  /\ UNCHANGED text

LineComment ==
  /\ Starts(LineOpener)
  /\ Give(Find(LineEnd, at + 1) - 1, LAMBDA k : Space)

\* Mutant: a block comment's line ends go too.
BlockCommentFlat ==
  /\ Starts(BlockOpener)
  /\ Give(Upto(Find(BlockCloser, at + 2)), LAMBDA k : Space)

BlockComment ==
  /\ Starts(BlockOpener)
  /\ Give(Upto(Find(BlockCloser, at + 2)), LAMBDA k : IF text[k] = LineEnd THEN LineEnd ELSE Space)

\* Mutant: a backslash is a character like another.
LiteralEndUnescaped(quote) == Min({Find(quote, at + 2), Find(LineEnd, at + 2)})

\* Where a literal ends: at its quote or at the line's end, whichever a backslash does not skip.
LiteralEnd(quote) ==
  LET end[j \in (at + 2)..(Len(text) + 2)] ==
        IF j > Len(text) \/ text[j] \in {quote, LineEnd} THEN j
        ELSE IF text[j] = Backslash THEN end[j + 2] ELSE end[j + 1]
  IN end[at + 2]

\* Its first and last positions are given as its quote, whatever stood in the last.
Literal ==
  \E quote \in Quotes :
    /\ Starts(quote)
    /\ LET end == Upto(LiteralEnd(quote))
       IN Give(end, LAMBDA k : IF k \in {at + 1, end} THEN quote ELSE Space)

Code ==
  /\ at < Len(text) /\ text[at + 1] \notin Quotes \cup {LineOpener, BlockOpener}
  /\ Give(at + 1, LAMBDA k : text[k])

Blank == LineComment \/ BlockComment \/ Literal \/ Code

-----------------------------------------------------------------------------
(* The reference: one pass over the lexemes with a mode, and no searching. *)

After(mode, x) ==
  CASE mode = "code" -> (CASE x = LineOpener -> "line" [] x = BlockOpener -> "block"
                           [] x = <<"double">> -> "double" [] x = <<"single">> -> "single"
                           [] OTHER -> "code")
    [] mode = "line" -> IF x = LineEnd THEN "code" ELSE "line"
    [] mode = "block" -> IF x = BlockCloser THEN "code" ELSE "block"
    [] mode \in {"double", "single"} ->
         IF x \in {<<mode>>, LineEnd} THEN "code"
         ELSE IF x # Backslash THEN mode
         ELSE IF mode = "double" THEN "skip double" ELSE "skip single"
    [] OTHER -> IF mode = "skip double" THEN "double" ELSE "single"

\* The mode in which each position of t is met.
Modes(t) ==
  LET mode[k \in 1..(Len(t) + 1)] == IF k = 1 THEN "code" ELSE After(mode[k - 1], t[k - 1])
  IN mode

InCode(t) ==
  {k \in DOMAIN t : Modes(t)[k] \in {"code", "line"} /\ After(Modes(t)[k], t[k]) = "code"}

InLiteral(t) == {k \in DOMAIN t : Modes(t)[k] \notin {"code", "line", "block"}}

\* The line a position is on.
LineOf(t, k) == Cardinality({j \in 1..(k - 1) : t[j] = LineEnd}) + 1
=============================================================================
