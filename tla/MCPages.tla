------------------------------- MODULE MCPages ------------------------------
(* The index of the messages, and what is made of messages for the reader: the *)
(* index page, the thread below a message, the tags and the other filters of   *)
(* a text.  A behaviour is one of one of them, whichever `which' says.         *)
EXTENDS IndexPage, ThreadPage, MsgIndex, TLC

CONSTANT Parts

VARIABLES which, alphabet, text, typed

pageVars == vars
tagVars == <<alphabet, text>>

Plain(whats) == [what : whats, tag : {"none"}]
Tagged(whats, tags) == [what : whats, tag : tags]
Letters == Plain({"letter", "space"}) \cup Tagged({"open", "close"}, {"b", "color"})
               \cup Tagged({"open"}, {"hr"})
Addresses == Plain({"space", "newline", "address", "smile"})
                 \cup Tagged({"open", "close"}, {"pre", "url"}) \cup Tagged({"close"}, {"b"})
Pictures == Plain({"newline", "address", "smile"})
                \cup Tagged({"open", "close"}, {"pic", "tex", "q"})

\* Texts of up to five tokens, with one tag more than may be nested.
Tags == INSTANCE BoardTags WITH
    MaxNested <- 2, MaxLength <- 5, Alphabets <- {Letters, Addresses, Pictures}

\* Texts of up to four pieces.
Filters == INSTANCE TextFilters WITH MaxPieces <- 4

\* Up to four headers of two bytes: every run can be split and joined.
ASSUME MsgIndexConstants /\ IndexPageConstants /\ ThreadPageConstants
ASSUME Tags!BoardTagsConstants /\ Filters!TextFiltersConstants

PagesInit ==
    /\ which \in Parts
    /\ TableInit
    /\ Init /\ (which # "page" => view = CHOOSE v \in View : TRUE)
    /\ ThreadInit /\ (which # "thread" => super)
    /\ Tags!Init /\ (which # "tags" => alphabet = Letters)
    /\ Filters!Init

PagesNext ==
    \/ which = "index" /\ TableNext /\ UNCHANGED <<which, pageVars, threadVars, tagVars, typed>>
    \/ which = "page" /\ Next /\ UNCHANGED <<which, tableVars, threadVars, tagVars, typed>>
    \/ which = "thread" /\ ThreadNext /\ UNCHANGED <<which, tableVars, pageVars, tagVars, typed>>
    \/ which = "tags" /\ Tags!Type /\ UNCHANGED <<which, tableVars, pageVars, threadVars, typed>>
    \/ which = "text" /\ Filters!Type
       /\ UNCHANGED <<which, tableVars, pageVars, threadVars, tagVars>>

PagesSpec == PagesInit /\ [][PagesNext]_<<which, tableVars, pageVars, threadVars, tagVars, typed>>

\* ShapeIsForest and OrderSpec are the index file's own (MsgIndex), ShownToReader,
\* CountsRight and ListsBalanced the index page's, OthersNotListed the thread page's.

\* A text is stored as it was typed but for spaces, shown as the text typed would
\* be, and offered for editing as it was typed (FilterBoardTags,
\* FilterHTMLTags, DefilterHTMLTags).  Where only other parts change, the texts
\* are the empty ones.
StoredAsTyped == Tags!StoredAsTyped /\ Tags!ShownAsTyped /\ Filters!EditedAsTyped

\* On a page a text whose tags are typed well has each of them expanded in its place,
\* and what is between them by the tags around; in any text the spans of direction
\* that are opened are closed after it, and none else (FilterBoardTags, FilterBiDi).
ExpandedInPlace == Tags!ExpandedInPlace /\ Filters!SpansClosed

\* Cutting a text to a length cuts no entity (FilterHTMLTags).
CutsWhole == Filters!CutsWhole
=============================================================================
