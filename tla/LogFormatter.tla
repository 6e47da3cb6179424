------------------------------- MODULE LogFormatter -------------------------------
(***************************************************************************)
(* LogFormatter::init of log.cc: a pattern is cut into text and items.     *)
(* The loop is translated as it is, with its index i and the inner scan;   *)
(* WellFormed says independently which patterns mean something, and        *)
(* SecondBegins what this parser makes of doubled signs.                   *)
(*                                                                         *)
(* A pattern is a sequence of characters, of which only these kinds matter *)
(* to the parser: "%", "{", "}", letters, and the rest.                    *)
(***************************************************************************)
EXTENDS Integers, Sequences, SequencesExt

CONSTANTS
    Letters,  \* characters for which isalpha holds
    Known     \* the letters of s_format_items

Percent == "%"
Open == "{"
Close == "}"

ASSUME LettersAssumption == Known \subseteq Letters /\ Letters \cap {Percent, Open, Close} = {}

\* std::string::substr, from and to inclusive.
Substr(p, from, to) == SubSeq(p, from, to)

\* A member of vec: text (0), or an item (1) with its format.
Piece(str, fmt, type) == [str |-> str, fmt |-> fmt, type |-> type]

-----------------------------------------------------------------------------
(* The inner loop.  It starts behind the "%" at i and answers with the name *)
(* of the item, its format, the status, and where it stopped.               *)

Scan(p, i) ==
    LET size == Len(p)
        \* The name ends at the first character that is no letter and no "}".
        Stops == {k \in i+1 .. size : p[k] \notin Letters \union {Close}}
        n == IF Stops = {} THEN size + 1 ELSE CHOOSE k \in Stops : \A j \in Stops : k <= j
        Closes == {k \in n+1 .. size : p[k] = Close}
        c == CHOOSE k \in Closes : \A j \in Closes : k <= j
        str == Substr(p, i + 1, n - 1)
    IN IF n > size \/ p[n] # Open
       THEN [str |-> str, fmt |-> <<>>, status |-> 0, n |-> n]
       ELSE IF Closes = {}
            THEN [str |-> str, fmt |-> <<>>, status |-> 1, n |-> size + 1]
            ELSE [str |-> str, fmt |-> Substr(p, n + 1, c - 1), status |-> 0, n |-> c + 1]

\* (mutant) the index is left on the character behind the item.
ResumeOff(n) == n + 1

\* i = n - 1, and the ++i of the loop.
Resume(n) == n

\* if (!nstr.empty()) vec.push_back(nstr)
Flush(vec, nstr) == IF nstr = <<>> THEN vec ELSE Append(vec, Piece(nstr, <<>>, 0))

\* One turn of the outer loop, from the character at st.i, if there is one.
CutStep(p, st) ==
    LET i == st.i
        s == Scan(p, i)
    IN IF i > Len(p) THEN st
       ELSE IF p[i] # Percent \/ (i < Len(p) /\ p[i + 1] = Percent)
       THEN [st EXCEPT !.i = i + 1, !.nstr = Append(st.nstr, p[i])]
       ELSE IF s.status = 0
       THEN [st EXCEPT !.i = Resume(s.n), !.nstr = <<>>,
                       !.vec = Append(Flush(st.vec, st.nstr), Piece(s.str, s.fmt, 1))]
       ELSE \* The error text takes the place of the item, before nstr.
            [st EXCEPT !.i = i + 1, !.error = TRUE,
                       !.vec = Append(st.vec, Piece(<<"error">>, <<>>, 0))]

\* The outer loop: each turn takes a character at least.
Turns(p) ==
    LET after[k \in 0 .. Len(p)] ==
            IF k = 0 THEN [i |-> 1, nstr |-> <<>>, vec |-> <<>>, error |-> FALSE]
            ELSE CutStep(p, after[k - 1])
    IN after

\* s_format_items.find
IsKnown(str) == Len(str) = 1 /\ str[1] \in Known

\* LogFormatter::init: m_error is also set by an item nobody knows.
Parse(p) ==
    LET r == Turns(p)[Len(p)]
        vec == Flush(r.vec, r.nstr)
    IN [items |-> vec,
        m_error |-> r.error \/ \E k \in DOMAIN vec : vec[k].type = 1 /\ ~ IsKnown(vec[k].str)]

-----------------------------------------------------------------------------
(* The reference.                                                           *)

\* The pattern a list of pieces is written as.
WriteOne(x) ==
    IF x.type = 0 THEN x.str
    ELSE <<Percent>> \o x.str \o (IF x.fmt = <<>> THEN <<>> ELSE <<Open>> \o x.fmt \o <<Close>>)
Write(items) == FlattenSeq([k \in DOMAIN items |-> WriteOne(items[k])])

\* Position i is inside the braces of an item that began before.
InFormat(p, i) ==
    \E j, k \in 1 .. i - 1 :
        /\ j < k /\ p[j] = Percent /\ p[k] = Open
        /\ \A l \in j+1 .. k-1 : p[l] \in Letters
        /\ \A l \in k .. i-1 : p[l] # Close

\* An item: one known letter, then the end, a character that cannot belong to
\* it, or a format that is closed.
ItemAt(p, i) ==
    /\ i < Len(p) /\ p[i + 1] \in Known
    /\ \/ i + 2 > Len(p)
       \/ p[i + 2] \notin Letters \union {Open, Close}
       \/ p[i + 2] = Open /\ \E k \in i+3 .. Len(p) : p[k] = Close

\* Signs that begin something: those inside a format are part of it.
Signs(p) == {i \in DOMAIN p : p[i] = Percent /\ ~ InFormat(p, i)}

\* Two signs in a row.
Doubled(p, i) == i < Len(p) /\ p[i + 1] = Percent

\* Every sign begins an item.
WellFormed(p) == \A i \in Signs(p) : ItemAt(p, i)

\* What the parser makes of two signs: the first is text, and the second is read
\* again, so that it has to begin an item.  "%%m" is a sign and an item, "%%" alone
\* and "%% " are refused.
SecondBegins(p) == \A i \in Signs(p) : ItemAt(p, i) \/ Doubled(p, i)

\* "{}" is the one thing the pieces do not remember.
NoEmptyFormat(p) == \A i \in 1 .. Len(p) - 1 : ~ (p[i] = Open /\ p[i + 1] = Close)

\* A pattern without doubled signs is refused exactly if it is ill-formed, one with
\* them if a sign that is not doubled begins no item; and a pattern that is accepted
\* is cut without losing, doubling or moving a character.
ParsedRight(p) ==
    LET r == Parse(p)
    IN /\ IF \E i \in Signs(p) : Doubled(p, i) THEN r.m_error <=> ~ SecondBegins(p)
                                               ELSE r.m_error <=> ~ WellFormed(p)
       /\ ~ r.m_error /\ NoEmptyFormat(p) => Write(r.items) = p
================================================================================
