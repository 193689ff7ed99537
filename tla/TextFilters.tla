---------------------------- MODULE TextFilters ----------------------------
(***************************************************************************)
(* What a typed text goes through before it is stored and when it is       *)
(* edited or shown (speller.cpp): FilterHTMLTags replaces the characters   *)
(* HTML gives a meaning and cuts the text at a length in bytes,            *)
(* DefilterHTMLTags puts them back for the form of an edit, FilterBiDi     *)
(* turns direction markers into spans when a page is printed.  A text is a *)
(* sequence of pieces; an ampersand and what is behind it are two, so that *)
(* a text may hold what looks like a replaced character.                   *)
(***************************************************************************)
EXTENDS Naturals, Sequences, SequencesExt

\* Pieces and their bytes.  "<" stands for the three characters that become an
\* entity by name, "lt;" for the rest of such an entity, "#mark;" and "#pdf;"
\* for the rest of the codes of a direction marker and of the terminator,
\* "#big;" for a code beyond Unicode; "part" is a piece that was cut.
Bytes == [piece \in {"x", "<", "&", "part"} |-> 1]
         @@ ("lt;" :> 3) @@ ("amp;" :> 4)
         @@ [piece \in {"#mark;", "#pdf;", "#big;"} |-> 6]

Piece == DOMAIN Bytes \ {"part"}
Markers == {"#mark;"}
Terminators == {"#pdf;"}
Codes == Markers \cup Terminators

Length(s) == FoldLeft(LAMBDA n, piece : n + Bytes[piece], 0, s)

-----------------------------------------------------------------------------
\* unicode_len: an ampersand with the code of a symbol is left alone.
IsCode(s, i) == i \in 1..(Len(s) - 1) /\ s[i] = "&" /\ s[i + 1] \in Codes

\* Mutant: the rest of a code is written as a piece of its own.
UnitOfPiece(s, i) ==
    CASE s[i] = "<" -> <<"&", "lt;">>
      [] s[i] = "&" /\ ~IsCode(s, i) -> <<"&", "amp;">>
      [] s[i] # "<" /\ (s[i] = "&" => IsCode(s, i)) -> <<s[i]>>

\* What the piece at i becomes, with what is written together with it.
Unit(s, i) ==
    CASE s[i] = "<" -> <<"&", "lt;">>
      [] IsCode(s, i) -> <<"&", s[i + 1]>>
      [] IsCode(s, i - 1) -> <<>>
      [] s[i] = "&" /\ ~IsCode(s, i) -> <<"&", "amp;">>
      [] s[i] \notin {"<", "&"} /\ ~IsCode(s, i - 1) -> <<s[i]>>

Units(s, n) == FlattenSeq([i \in 1..n |-> Unit(s, i)])

\* The loop: the first unit for which there is no room ends it, but of an
\* ordinary piece the bytes there is room for are copied.
FilterHTMLTags(s, room) ==
    LET fit == CHOOSE n \in 0..Len(s) :
                  /\ Length(Units(s, n)) <= room
                  /\ n < Len(s) => Length(Units(s, n + 1)) > room
        out == Units(s, fit)
    IN  IF fit < Len(s) /\ Len(Unit(s, fit + 1)) = 1 /\ Length(out) < room
        THEN Append(out, "part") ELSE out

\* decode_and_copy: an entity becomes its character, all else stays.
Decoded(s, i) ==
    CASE i < Len(s) /\ s[i] = "&" /\ s[i + 1] = "amp;" -> <<"&">>
      [] i < Len(s) /\ s[i] = "&" /\ s[i + 1] = "lt;" -> <<"<">>
      [] i > 1 /\ s[i - 1] = "&" /\ s[i] \in {"lt;", "amp;"} -> <<>>
      [] OTHER -> <<s[i]>>

DefilterHTMLTags(s) == FlattenSeq([i \in 1..Len(s) |-> Decoded(s, i)])

\* FilterBiDi: a marker opens a span, a terminator closes the one opened last if
\* there is one, and the others are closed at the end.
BiDiTurn(a, piece) ==
    CASE a.amp /\ piece \in Markers ->
            [out |-> Append(Front(a.out), "<span>"), level |-> a.level + 1, amp |-> FALSE]
      [] a.amp /\ piece \in Terminators ->
            [out |-> IF a.level > 0 THEN Append(Front(a.out), "</span>") ELSE Front(a.out),
             level |-> IF a.level > 0 THEN a.level - 1 ELSE 0, amp |-> FALSE]
      [] OTHER -> [out |-> Append(a.out, piece), level |-> a.level, amp |-> piece = "&"]

FilterBiDi(s) ==
    LET a == FoldLeft(BiDiTurn, [out |-> <<>>, level |-> 0, amp |-> FALSE], s) IN
    a.out \o [i \in 1..a.level |-> "</span>"]

-----------------------------------------------------------------------------
(* Texts are typed piece by piece, and every one of them is a text to store. *)
CONSTANT MaxPieces      \* bound: pieces of a text

\* What the constants are.
TextFiltersConstants == MaxPieces \in Nat

VARIABLE typed

Init == typed = <<>>

Type ==
    /\ Len(typed) < MaxPieces
    /\ \E piece \in Piece : typed' = Append(typed, piece)

Spec == Init /\ [][Type]_typed

Enough == Length(Units(typed, Len(typed)))

\* The form of an edit shows what was typed, even a text that was typed as an
\* entity; of a text that was cut it shows the start.
EditedAsTyped ==
    \A room \in 0..Enough :
        LET shown == DefilterHTMLTags(FilterHTMLTags(typed, room)) IN
        /\ room = Enough => shown = typed
        /\ shown # <<>> =>
              \/ IsPrefix(shown, typed)
              \/ Last(shown) = "part" /\ IsPrefix(Front(shown), typed)

\* Wherever a text is cut to a length, it is no longer than that, no character
\* HTML gives a meaning is left and no entity or code is cut, so that what is
\* appended to it on a page is not read as a part of it.
CutsWhole ==
    \A room \in 0..Enough :
        LET out == FilterHTMLTags(typed, room) IN
        /\ Length(out) <= room
        /\ \A i \in DOMAIN out :
              /\ out[i] # "<"
              /\ out[i] = "&" => i < Len(out) /\ out[i + 1] \in {"lt;", "amp;"} \cup Codes

\* On a page every span that turns the direction is closed within the text, and
\* none is closed that was not opened there.
SpansClosed ==
    LET spans == SelectSeq(FilterBiDi(FilterHTMLTags(typed, Enough)),
                           LAMBDA piece : piece \in {"<span>", "</span>"})
        Opened(n) == Len(SelectSeq(SubSeq(spans, 1, n), LAMBDA piece : piece = "<span>"))
    IN  /\ \A n \in 0..Len(spans) : 2 * Opened(n) >= n
        /\ 2 * Opened(Len(spans)) = Len(spans)
=============================================================================
