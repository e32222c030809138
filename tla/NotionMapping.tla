---- MODULE NotionMapping ----
(***************************************************************************)
(* What a row looks like as a Notion page and a page as a row:             *)
(* content.mapper.ts, curation.mapper.ts and notion-properties.ts.  A text *)
(* is a sequence of words; a rich text is a sequence of pieces of text,    *)
(* which Notion may cut as it likes.                                       *)
(***************************************************************************)
EXTENDS Calls, Sequences, SequencesExt

CONSTANTS
    Words,          \* what texts are made of
    Texts,          \* sequences of words, the empty one among them
    Topics,         \* lists of topics, the empty one among them
    Dates,
    Labels,         \* names of the options of the column "Etat" in Notion
    LowerCase,      \* of a label
    StatusLabel     \* STATUS_TO_NOTION

CurationStatus == {"TO_REVIEW", "REVIEWED", "SHARED"}

ASSUME MappingAssumption ==
    /\ <<>> \in Texts /\ Texts \subseteq Seq(Words) /\ <<>> \in Topics
    /\ None \notin Texts \cup Labels
    /\ LowerCase \in [Labels -> Labels]
    /\ StatusLabel \in [CurationStatus -> Labels]
    /\ \A s, t \in CurationStatus :
         LowerCase[StatusLabel[s]] = LowerCase[StatusLabel[t]] => s = t

-----------------------------------------------------------------------------
(* notion-properties.ts: null and the empty text or list are falsy.         *)

BuildTitle(text) == <<text>>
BuildRichText(text) == IF text \in {None, <<>>} THEN <<>> ELSE <<text>>
BuildSelect(name) == IF name = <<>> THEN None ELSE name
BuildMultiSelect(names) == IF names = None THEN <<>> ELSE names

FirstPiece(pieces) == IF pieces = <<>> THEN <<>> ELSE pieces[1]     \* wrong: the first piece only
ReadPlainText(pieces) == FlattenSeq(pieces)
ReadRichText(pieces) ==
    IF ReadPlainText(pieces) = <<>> THEN None ELSE ReadPlainText(pieces)

-----------------------------------------------------------------------------
(* curation.mapper.ts.                                                      *)

CurationRow ==
    [title : Texts, sourceUrl : Texts \cup {None}, topics : Topics \cup {None},
     status : CurationStatus, notes : Texts \cup {None}]
CurationPage ==
    [title : Seq(Texts), sourceUrl : Texts \cup {None}, topics : Topics,
     status : Labels \cup {None}, notes : Seq(Texts)]

CurationToPage(row) ==
    [title |-> BuildTitle(row.title), sourceUrl |-> row.sourceUrl,
     topics |-> BuildMultiSelect(row.topics), status |-> StatusLabel[row.status],
     notes |-> BuildRichText(row.notes)]

\* STATUS_FROM_NOTION has the labels in lower case.
ExactStatus(label) ==       \* wrong: the label is not put in lower case
    IF \E s \in CurationStatus : LowerCase[StatusLabel[s]] = label
    THEN CHOOSE s \in CurationStatus : LowerCase[StatusLabel[s]] = label ELSE "TO_REVIEW"
NotionStatusToCuration(label) ==
    IF label # None /\ \E s \in CurationStatus : LowerCase[StatusLabel[s]] = LowerCase[label]
    THEN CHOOSE s \in CurationStatus : LowerCase[StatusLabel[s]] = LowerCase[label]
    ELSE "TO_REVIEW"

CurationFromPage(page) ==
    [title |-> ReadPlainText(page.title), sourceUrl |-> page.sourceUrl,
     topics |-> IF page.topics = <<>> THEN None ELSE page.topics,
     status |-> NotionStatusToCuration(page.status), notes |-> ReadRichText(page.notes)]

-----------------------------------------------------------------------------
(* content.mapper.ts.                                                       *)

ContentRow == [title : Texts, publicationDate : Dates \cup {None}, channel : Texts \cup {None}]
ContentToPage(row) ==
    [title |-> BuildTitle(row.title), publicationDate |-> row.publicationDate,
     category |-> BuildSelect(row.channel)]
ContentFromPage(page) ==
    [title |-> ReadPlainText(page.title), publicationDate |-> page.publicationDate,
     channel |-> page.category]

MappingCalls ==
    [of : {"curation"}, row : CurationRow] \cup [of : {"content"}, row : ContentRow]
        \cup [of : {"page"}, row : CurationRow, label : Labels \cup {None},
              cut : {1, 2}]     \* how many pieces Notion cuts a text into
AskMapping == CallOf(MappingCalls)

MappingSpec == call = None /\ [][AskMapping \/ Return]_call

-----------------------------------------------------------------------------
(* Properties.                                                             *)

OrNull(value) == IF value = <<>> THEN None ELSE value

\* A pull of the page a push wrote gives the row back: of its synchronised
\* columns only an empty note, channel or list of topics comes back as null.
PullGivesPushedRow ==
    /\ Calling("curation") =>
         CurationFromPage(CurationToPage(call.row)) =
             [call.row EXCEPT !.topics = OrNull(@), !.notes = OrNull(@)]
    /\ Calling("content") =>
         ContentFromPage(ContentToPage(call.row)) = [call.row EXCEPT !.channel = OrNull(@)]

\* A push of the row a pull read leaves the page of Notion as it reads, however
\* Notion cuts its texts, except that a state the application does not know, or
\* none, becomes "to review".
Pieces(text, cut) ==
    IF cut = 1 \/ text \in {None, <<>>}
    THEN BuildRichText(text) ELSE <<SubSeq(text, 1, 1), Tail(text)>>
NotionPage ==
    [CurationToPage(call.row) EXCEPT
        !.title = Pieces(call.row.title, call.cut),
        !.notes = Pieces(call.row.notes, call.cut), !.status = call.label]
Reads(page) ==
    [page EXCEPT !.title = FlattenSeq(@), !.notes = FlattenSeq(@),
                 !.status = IF @ = None THEN None ELSE LowerCase[@]]
Known(label) == \E s \in CurationStatus : label # None /\ LowerCase[StatusLabel[s]] = LowerCase[label]
PushKeepsPulledPage ==
    Calling("page") =>
        Reads(CurationToPage(CurationFromPage(NotionPage))) =
            [Reads(NotionPage) EXCEPT
                !.status = IF Known(call.label) THEN @ ELSE LowerCase[StatusLabel["TO_REVIEW"]]]
====
