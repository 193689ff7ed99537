----------------------------- MODULE BoardTags -----------------------------
(***************************************************************************)
(* Board tags (FilterBoardTags of boardtags.cpp): one pass over a text     *)
(* that either prepares it to be stored, with the tags as they were typed, *)
(* or expands the tags for a page, or cuts them.  A tag is put into the    *)
(* result only when its closing tag comes; then the opening one is         *)
(* inserted where it was, and those never closed are inserted as typed at  *)
(* the end.  Any closing tag closes the tag opened last, of whatever kind. *)
(* A text is a sequence of tokens: each is a letter, a space, a newline, a *)
(* smile, an address, or a tag of the table with valid parameters; what is *)
(* not a tag is letters.  Case, the tags' HTML and the length limit are    *)
(* left out.                                                               *)
(***************************************************************************)
EXTENDS Naturals, Sequences, SequencesExt

CONSTANT MaxNested      \* MAX_NESTED_TAGS

\* What the constants are.
BoardTagsConstants == MaxNested \in Nat \ {0}

Token(what, tag) == [what |-> what, tag |-> tag]
Plain(what) == Token(what, "none")
Typed(tag) == Token("open", tag)
TypedEnd(tag) == Token("close", tag)

\* The table: tags with a parameter that stays to be used by the closing tag,
\* tags that may have one, tags whose inside is not looked at, the only tag
\* that is not closed.
WithParameter == {"color", "url"}
MayTakeParameter == {"color", "url", "q"}
RawTags == {"pre", "pic", "tex"}
ClosesRaw == RawTags \cup {"tub"}
ClosesAddress == {"pic", "tex", "tub", "url"}
NoAddressIn == {"pic", "url"}

\* What is asked for: BOARDTAGS_TAG_PREPARSE, BOARDTAGS_CUT_TAGS or neither, and
\* BOARDTAGS_EXPAND_ENTER, BOARDTAGS_PURL_ENABLE, MESSAGE_ENABLED_SMILES.
Mode(does, enter, url, smiles) ==
    [does |-> does, enter |-> enter, url |-> url, smiles |-> smiles]

Keep == Mode("store", FALSE, FALSE, TRUE)
Show == Mode("expand", TRUE, TRUE, TRUE)
Cut == Mode("cut", FALSE, FALSE, FALSE)

AddressesAllowed(mode) == mode.url /\ mode.does = "expand"

\* The local variables: the result st, OldTag[0..opentag - 1] with the places
\* of the opening tags, the bits 0x01, 0x02 and 0x04 of status, what status was
\* before [pre], and what was read last (ws).
Status(raw, br, url) == [raw |-> raw, br |-> br, url |-> url]

Start(mode) ==
    LET status == Status(FALSE, mode.enter, AddressesAllowed(mode)) IN
    [st |-> <<>>, open |-> <<>>, status |-> status, before |-> status, last |-> "other"]

\* ReparseUrl: an address becomes a link where links are made.
IsLink(a, token) == token.what = "address" /\ a.status.url

\* ParseSmiles_smartstrcat: what a token that is no tag becomes.
Becomes(mode, a, token) ==
    CASE IsLink(a, token) -> Plain("<a>")
      [] token.what = "newline" /\ a.status.br -> Plain("<br>")
      [] token.what = "smile" /\ mode.smiles /\ mode.does # "store" /\ ~a.status.raw ->
            Plain("<img>")
      [] OTHER -> token

\* What was read last.  With smiles the space after a link is put down by a
\* function that does not see it.
LastRead(mode, a, token) ==
    CASE IsLink(a, token) -> "address"
      [] token.what = "space" /\ ~(a.last = "address" /\ mode.smiles) -> "space"
      [] OTHER -> "other"

\* smartstrcat: two spaces become one unless status says raw.
AddText(mode, a, token) ==
    LET twice == token.what = "space" /\ a.last = "space" /\ ~a.status.raw IN
    [a EXCEPT !.st = IF twice THEN @ ELSE Append(@, Becomes(mode, a, token)),
              !.last = LastRead(mode, a, token)]

\* ignore_tag: what looks like a tag stays as it was typed.
AsTyped(a, token) == [a EXCEPT !.st = Append(@, token), !.last = "other"]

\* An opening tag is put aside with its place.
OpenTag(mode, a, token) ==
    LET t == token.tag IN
    [a EXCEPT
        !.open = Append(@, [tag |-> t, at |-> Len(a.st)]),
        !.before = IF t = "pre" THEN a.status ELSE @,
        !.status = Status(@.raw \/ t \in RawTags, @.br /\ t # "pre",
                          @.url /\ t \notin NoAddressIn),
        !.last = "other"]

\* Mutant: a tag that is closed is put at the place where it is closed.
InsertedLate(st, at, token) == Append(st, token)

\* strins: the text with something inserted after its first `at' tokens.
Inserted(st, at, token) == InsertAt(st, at + 1, token)

\* What a pair of tags becomes when it is closed.
Closed(mode, st, last, token) ==
    CASE mode.does = "store" ->
            Append(Inserted(st, last.at, Typed(last.tag)), token)
      [] mode.does = "expand" ->
            Append(Inserted(st, last.at, Token("<open>", last.tag)),
                   Token("<close>", token.tag))
      [] mode.does = "cut" -> st

\* Mutant: [/pre] allows tags again, but leaves newlines as they are in it.
StatusLeft(mode, a, t) ==
    [a.status EXCEPT !.raw = @ /\ t \notin ClosesRaw,
                     !.url = @ \/ (t \in ClosesAddress /\ AddressesAllowed(mode))]

\* The status after a closing tag.
StatusAfter(mode, a, t) ==
    LET status == IF t = "pre" THEN a.before
                  ELSE [a.status EXCEPT !.raw = @ /\ t \notin ClosesRaw]
    IN  [status EXCEPT !.url = @ \/ (t \in ClosesAddress /\ AddressesAllowed(mode))]

CloseTag(mode, a, token) ==
    [a EXCEPT
        !.st = Closed(mode, @, Last(a.open), token),
        !.open = Front(@),
        !.status = StatusAfter(mode, a, token.tag),
        !.last = "other"]

\* ExpandTag of a closing tag: it is valid unless there is a parameter to use and
\* it is of a kind that never has one.
Expands(tag, parameter) == parameter => tag \in MayTakeParameter

\* The parameter is that of the tag opened last.
Closes(a, token) ==
    /\ a.open # <<>>
    /\ Expands(token.tag, Last(a.open).tag \in WithParameter)

\* One turn of the loop.
Turned(mode, a, token) ==
    CASE token.what = "open" /\ token.tag = "hr" ->
            IF a.status.raw \/ mode.does = "store" THEN AsTyped(a, token)
            ELSE AsTyped(a, Token("<open>", "hr"))
      [] token.what = "open" /\ token.tag # "hr" ->
            IF a.status.raw \/ Len(a.open) = MaxNested THEN AsTyped(a, token)
            ELSE OpenTag(mode, a, token)
      [] token.what = "close" ->
            IF Closes(a, token) THEN CloseTag(mode, a, token) ELSE AsTyped(a, token)
      [] token.what \notin {"open", "close"} -> AddText(mode, a, token)

\* What was never closed is inserted as it was typed, the last one first.
Finished(a) ==
    FoldRight(LAMBDA o, st : Inserted(st, o.at, Typed(o.tag)), a.open, a.st)

\* Newlines at both ends are dropped before.
NoNewlines(s) ==
    LET kept == {i \in DOMAIN s : s[i].what # "newline"} IN
    IF kept = {} THEN <<>>
    ELSE SubSeq(s, CHOOSE i \in kept : \A j \in kept : i <= j,
                   CHOOSE i \in kept : \A j \in kept : j <= i)

FilterBoardTags(mode, s) ==
    Finished(FoldLeft(LAMBDA a, token : Turned(mode, a, token),
                      Start(mode), NoNewlines(s)))

-----------------------------------------------------------------------------
(* Texts are typed token by token, and every one of them is a text to store. *)
CONSTANTS
    Alphabets,      \* sets of tokens to type a text of
    MaxLength       \* bound: tokens of a text

VARIABLES alphabet, text
vars == <<alphabet, text>>

Init == alphabet \in Alphabets /\ text = <<>>

Type ==
    /\ Len(text) < MaxLength
    /\ \E token \in alphabet : text' = Append(text, token)
    /\ UNCHANGED alphabet

Spec == Init /\ [][Type]_vars

WithoutSpaces(s) == SelectSeq(s, LAMBDA token : token.what # "space")

\* What is stored is what was typed, every tag at its place, whatever is nested,
\* not closed, closed by another tag or not looked at; only spaces are dropped,
\* and storing it once more (an edit) changes nothing.
StoredAsTyped ==
    LET stored == FilterBoardTags(Keep, text) IN
    /\ WithoutSpaces(stored) = WithoutSpaces(NoNewlines(text))
    /\ FilterBoardTags(Keep, stored) = stored

\* Dropping spaces before storing does not change what else a page shows: the
\* text stored is shown as the text typed would be.
ShownAsTyped ==
    \A mode \in {Show, Cut} :
        WithoutSpaces(FilterBoardTags(mode, FilterBoardTags(Keep, text)))
            = WithoutSpaces(FilterBoardTags(mode, text))

\* The tags of a text that are open behind its first i tokens, the innermost last.
OpenBehind(s) ==
    LET open[i \in 0..Len(s)] ==
            CASE i = 0 -> <<>>
              [] i > 0 /\ s[i].what = "open" /\ s[i].tag # "hr" ->
                    Append(open[i - 1], s[i].tag)
              [] i > 0 /\ s[i].what = "close" /\ open[i - 1] # <<>> -> Front(open[i - 1])
              [] OTHER -> open[i - 1]
    IN  open

\* Every tag is closed by one of its kind, no more are nested than may be, there
\* are none where the inside is not looked at, and in a link none that allows
\* links again when it is closed.
WellTyped(s) ==
    LET open == OpenBehind(s) IN
    /\ open[Len(s)] = <<>>
    /\ \A i \in DOMAIN s : s[i].what = "close" =>
            open[i - 1] # <<>> /\ Last(open[i - 1]) = s[i].tag
    /\ \A i \in DOMAIN s : s[i].what = "open" =>
            /\ s[i].tag # "hr" => Len(open[i - 1]) < MaxNested
            /\ ToSet(open[i - 1]) \cap RawTags = {}
            /\ s[i].tag \in ClosesAddress => "url" \notin ToSet(open[i - 1])

\* What each token of a text is on a page, by the tags it stands in.
Expansion(s) ==
    [i \in DOMAIN s |->
        LET inside == ToSet(OpenBehind(s)[i - 1]) IN
        CASE s[i].what = "open" -> Token("<open>", s[i].tag)
          [] s[i].what = "close" -> Token("<close>", s[i].tag)
          [] s[i].what = "newline" /\ "pre" \notin inside -> Plain("<br>")
          [] s[i].what = "address" /\ inside \cap NoAddressIn = {} -> Plain("<a>")
          [] s[i].what = "smile" /\ inside \cap RawTags = {} -> Plain("<img>")
          [] OTHER -> s[i]]

\* A text whose tags are typed well is printed with each of them expanded where it
\* was typed, so that they nest by kind, and with links, line breaks and smiles
\* wherever the tags around allow them: the places remembered are right although
\* text is inserted before and between them, and the one status carried through the
\* pass, set at an opening tag and reset at a closing one, is that of the tags
\* around (FilterBoardTags).
ExpandedInPlace ==
    LET typed == NoNewlines(text) IN
    WellTyped(typed) =>
        WithoutSpaces(FilterBoardTags(Show, text)) = WithoutSpaces(Expansion(typed))
=============================================================================
