---------------------------- MODULE TemplateText ----------------------------
(***************************************************************************)
(* The text of bindings and templates as sequences of tokens.  A token is  *)
(* a piece of text with a type t and a name n.  "$(" is one token: it is   *)
(* what strings.Split, the escaping and all searches of the code look for. *)
(***************************************************************************)
EXTENDS Naturals, Sequences, FiniteSets, SequencesExt

Tok(t, n) == [t |-> t, n |-> n]

Lit(n) == Tok("lit", n)

Open == Tok("$(", "")
Dollar == Tok("$", "")
Paren == Tok("(", "")
Close == Tok(")", "")
Quote == Tok("quote", "")
EscapedQuote == Tok("quote", "escaped")
Backslash == Tok("backslash", "escaped")

\* $(tt.params.NAME)
ParamVariable(name) == <<Open, Tok("tt.params", name), Close>>

\* $(uid)
uidMatch == <<Open, Tok("uid", ""), Close>>

\* text has old at position i
IsAt(text, old, i) ==
    i >= 1 /\ i + Len(old) - 1 <= Len(text) /\ SubSeq(text, i, i + Len(old) - 1) = old

\* strings.ReplaceAll, for an old that cannot overlap itself
ReplaceText(text, old, new) ==
    FlattenSeq([i \in 1..Len(text) |->
        IF IsAt(text, old, i) THEN new
        ELSE IF \E d \in 1..(Len(old) - 1) : IsAt(text, old, i - d) THEN <<>>
        ELSE <<text[i]>>])

\* The pieces of strings.Split(text, "$(") that follow a "$("
Pieces(text) ==
    LET at == SetToSortSeq({i \in DOMAIN text : text[i] = Open}, <)
    IN  [n \in DOMAIN at |->
            SubSeq(text, at[n] + 1, IF n = Len(at) THEN Len(text) ELSE at[n + 1] - 1)]

\* Brackets open after the first k tokens of a piece; the "$(" itself is not counted
numOpenBrackets(piece, k) ==
    Cardinality({i \in 1..k : piece[i] = Paren}) - Cardinality({i \in 1..k : piece[i] = Close})

\* Where the bracket of the "$(" is closed, the first of them if at all
Ends(piece) == {k \in DOMAIN piece : numOpenBrackets(piece, k) < 0}

\* The expression at the start of a piece that has an end
Expression(piece) == SubSeq(piece, 1, Min(Ends(piece)) - 1)
=============================================================================
