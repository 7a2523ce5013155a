----------------------------- MODULE PlateMatch -----------------------------
(***************************************************************************)
(* The comparison of two workbooks by plate: run_check_plates_sync of      *)
(* services/check_match.py with the normalisation and the detection of the *)
(* plate column of services/plate_utils.py.                                *)
(*                                                                         *)
(* It runs in one thread; a step reads a header or handles a row, and the  *)
(* workbooks are chosen as they are read.  A cell has its text, a sequence *)
(* of characters, and the plate or word its writer meant, which only the   *)
(* property looks at.  Colours, widths and the columns copied beside the   *)
(* plate are left out.                                                     *)
(***************************************************************************)
EXTENDS Naturals, SequencesExt

CONSTANTS LargeRows,    \* rows of the large sheet, sequences of cells
          SmallRows,    \* rows of the small one
          Headers,      \* header rows, << >> for a sheet without one
          AskedColumns, \* what the form asks for, "" to have it detected
          SampleSize,   \* rows read ahead to detect a column (5)
          BatchSize,    \* rows of an INSERT (2000)
          PreviewSize,  \* PREVIEW_MAX_ROWS (300)
          MaxLarge,     \* bound: rows of the large sheet
          MaxSmall      \* bound: rows of the small sheet

ASSUME MatchAssumption ==
    /\ SampleSize \in Nat \ {0, 1} /\ BatchSize \in Nat \ {0}
    /\ {PreviewSize, MaxLarge, MaxSmall} \subseteq Nat

VARIABLES
    stage,     \* "large", "index", "small", "match" or "done"
    outcome,   \* "", "workbook", "none", "noColumn" or "error"
    large,     \* the rows read of the large sheet
    small,     \* those of the small one
    column,    \* index of the plate column, per sheet
    batch,     \* rows not inserted yet
    plateIdx,  \* the table of the temporary SQLite file
    indexFile, \* the file exists
    sample,    \* first_rows not handled yet
    ended,     \* the small sheet has no more rows
    handled,   \* rows of the small sheet handled
    matches,   \* rows of the new workbook
    preview,
    unmatched  \* unmatched_plates

matchVars == <<stage, outcome, large, small, column, batch, plateIdx, indexFile, sample, ended,
               handled, matches, preview, unmatched>>

-----------------------------------------------------------------------------
(* Characters.  The letters are those of two Saudi letters in either       *)
(* script, with a variant and a tatweel, and two Latin letters that are on *)
(* no Saudi plate; the digits of two kinds.  A Latin letter stands for     *)
(* both its cases.                                                         *)

ToArabic == [A |-> "alef", S |-> "seen"]          \* _SAUDI_LATIN_TO_ARABIC
Foreign  == {"O", "P"}
Latin    == DOMAIN ToArabic \cup Foreign
Arabic   == {"alef", "alefHamza", "seen", "tatweel"}
Western  == {"1", "2"}
ToWestern == [c \in {"indic1", "indic2"} |-> IF c = "indic1" THEN "1" ELSE "2"]
Spaces   == {"space"}
Separators == Spaces \cup {"-"}

Digit    == Western \cup DOMAIN ToWestern
Characters == Latin \cup Arabic \cup Digit \cup Separators

\* The elements of s that are in S.
Keep(s, S) ==
    LET kept[n \in 0..Len(s)] == IF n = 0 THEN << >>
                                 ELSE IF s[n] \in S THEN Append(kept[n - 1], s[n])
                                 ELSE kept[n - 1]
    IN  kept[Len(s)]

Drop(s, S) == Keep(s, ToSet(s) \ S)

Each(Op(_), text) == [i \in DOMAIN text |-> Op(text[i])]

Fold(text) == LET plain == Drop(text, {"tatweel"})
              IN  Each(LAMBDA c : IF c = "alefHamza" THEN "alef" ELSE c, plain)

\* A letter the table does not have is kept.
Mapped(text) == Each(LAMBDA c : IF c \in DOMAIN ToArabic THEN ToArabic[c] ELSE c, text)

\* Mutant: a segment in Latin letters keeps the order of its letters.
LettersAsRead(text) == Fold(Mapped(Keep(text, Latin \cup Arabic)))

\* Mutant: a segment is reversed whatever its script.
LettersReversed(text) == Fold(Reverse(Mapped(Keep(text, Latin \cup Arabic))))

\* _normalize_plate_letters_segment of the letters of a text
Letters(text) ==
    LET letters == Keep(text, Latin \cup Arabic)
    IN  Fold(IF ToSet(letters) \subseteq Latin THEN Reverse(Mapped(letters)) ELSE Mapped(letters))

Digits(text) ==
    Each(LAMBDA c : IF c \in Western THEN c ELSE ToWestern[c], Keep(text, Digit))

\* _plate_from_compact, << >> when it is no plate.  What _SEPARATORS removes is neither a
\* letter nor a digit.
PlateFrom(text) ==
    IF Len(Letters(text)) \in 1..3 /\ Len(Digits(text)) \in 1..4
    THEN Letters(text) \o Digits(text) ELSE << >>

Legacy(text) == Fold(Drop(text, Spaces))

NormalizePlate(text) == IF PlateFrom(text) # << >> THEN PlateFrom(text) ELSE Legacy(text)

FormatDisplay(text) ==
    LET key   == NormalizePlate(text)
        first == SelectInSeq(key, LAMBDA c : c \in Digit)
    IN  IF first < 2 THEN key
        ELSE SubSeq(key, 1, first - 1) \o <<"space">> \o SubSeq(key, first, Len(key))

\* The pattern _looks_like_plate_text tries last: letters, a gap, digits, whatever else is
\* in the cell.  The digits of the Arabic block count as letters there.
ArabicThenDigits(text) ==
    LET alphabet == Arabic \cup DOMAIN ToWestern
        kept     == Each(LAMBDA c : IF c \in alphabet \cup Western THEN c ELSE "space", text)
        visible  == {i \in DOMAIN kept : kept[i] # "space"}
    IN  \E gap \in DOMAIN kept \ visible :
          LET front == {i \in visible : i < gap}
              back  == {i \in visible : i > gap}
          IN  /\ Cardinality(front) \in 1..3 /\ \A i \in front : kept[i] \in alphabet
              /\ Cardinality(back) \in 1..4 /\ \A i \in back : kept[i] \in Western
              /\ \A i, k \in back : i..k \subseteq back

LooksLikePlate(text) == PlateFrom(text) # << >> \/ ArabicThenDigits(text)
-----------------------------------------------------------------------------
(* Columns.  A column is known by its name, and a name by its first        *)
(* column; only "plate" is one of PLATE_COL_PATTERNS.                      *)

TextAt(row, i) == IF i \in DOMAIN row THEN row[i].text ELSE << >>

IndexOf(header, name) == SelectInSeq(header, LAMBDA h : h = name)

AutoDetect(header) == IndexOf(header, "plate")

DetectInRow3(header, rows) ==
    IF Len(rows) < 2 THEN 0
    ELSE LET likely == {i \in DOMAIN header : header[i] # "" /\ LooksLikePlate(TextAt(rows[2], i))}
         IN  IF likely = {} THEN 0
             ELSE IndexOf(header, header[CHOOSE i \in likely : \A k \in likely : i <= k])

DetectInRows(header, rows) ==
    LET Hits(i) == Cardinality({n \in DOMAIN rows : LooksLikePlate(TextAt(rows[n], i))})
        best    == {i \in DOMAIN header : /\ header[i] # "" /\ Hits(i) >= 2
                                          /\ \A k \in DOMAIN header : header[k] # "" => Hits(k) <= Hits(i)}
    IN  IF best = {} THEN 0 ELSE IndexOf(header, header[CHOOSE i \in best : \A k \in best : i <= k])

Detect(header, rows) ==
    CASE AutoDetect(header) > 0         -> AutoDetect(header)
      [] DetectInRow3(header, rows) > 0 -> DetectInRow3(header, rows)
      [] OTHER                          -> DetectInRows(header, rows)

Column(header, asked, detected) == IF asked # "" THEN IndexOf(header, asked) ELSE detected
-----------------------------------------------------------------------------
MatchInit ==
    /\ stage = "large" /\ outcome = "" /\ large = << >> /\ small = << >>
    /\ column = [large |-> 0, small |-> 0]
    /\ batch = << >> /\ plateIdx = << >> /\ indexFile = FALSE
    /\ sample = << >> /\ ended = FALSE /\ handled = 0
    /\ matches = << >> /\ preview = << >> /\ unmatched = 0

\* A return or an exception; the finally clause removes the file.
Leave(result) == stage' = "done" /\ outcome' = result /\ indexFile' = FALSE

ReadLargeHeader ==
    /\ stage = "large"
    /\ \E header \in Headers, asked \in AskedColumns :
         LET found == Column(header, asked, AutoDetect(header)) IN
         IF found > 0
         THEN /\ column' = [column EXCEPT !.large = found]
              /\ indexFile' = TRUE /\ stage' = "index" /\ UNCHANGED outcome
         ELSE /\ Leave(IF header = << >> THEN "error" ELSE "noColumn")
              /\ UNCHANGED column
    /\ UNCHANGED <<large, small, batch, plateIdx, sample, ended, handled, matches, preview, unmatched>>

IndexRow ==
    /\ stage = "index" /\ Len(large) < MaxLarge
    /\ \E row \in LargeRows :
         LET key  == NormalizePlate(TextAt(row, column.large))
             full == Append(batch, [key |-> key, row |-> Len(large) + 1]) IN
         /\ large' = Append(large, row)
         /\ IF key = << >> THEN UNCHANGED <<batch, plateIdx>>
            ELSE IF Len(full) < BatchSize THEN batch' = full /\ UNCHANGED plateIdx
            ELSE batch' = << >> /\ plateIdx' = plateIdx \o full
    /\ UNCHANGED <<stage, outcome, small, column, indexFile, sample, ended, handled, matches,
                   preview, unmatched>>

EndLarge ==
    /\ stage = "index"
    /\ plateIdx' = plateIdx \o batch /\ batch' = << >>
    /\ stage' = "small"
    /\ UNCHANGED <<outcome, large, small, column, indexFile, sample, ended, handled, matches,
                   preview, unmatched>>

ReadSmallHeader ==
    /\ stage = "small"
    /\ \E header \in Headers, asked \in AskedColumns, n \in 0..SampleSize :
       \E rows \in [1..n -> SmallRows] :
         /\ header = << >> => n = 0
         /\ LET found == Column(header, asked, Detect(header, rows)) IN
            IF found > 0
            THEN /\ column' = [column EXCEPT !.small = found]
                 /\ small' = rows /\ sample' = rows /\ ended' = (n < SampleSize)
                 /\ stage' = "match" /\ UNCHANGED <<outcome, indexFile>>
            ELSE /\ Leave(IF header = << >> THEN "error" ELSE "noColumn")
                 /\ UNCHANGED <<column, small, sample, ended>>
    /\ UNCHANGED <<large, batch, plateIdx, handled, matches, preview, unmatched>>

\* The body of the loop, for row handled + 1.
Compare(row) ==
    LET key     == NormalizePlate(TextAt(row, column.small))
        found   == Keep(plateIdx, {e \in ToSet(plateIdx) : e.key = key})
        rowsOut == [i \in DOMAIN found |-> [large |-> found[i].row, small |-> handled + 1,
                                            shown |-> FormatDisplay(key)]]
        seen    == preview \o rowsOut IN
    /\ handled' = handled + 1
    /\ IF key = << >> THEN UNCHANGED <<matches, preview, unmatched>>
       ELSE /\ matches' = matches \o rowsOut
            /\ preview' = IF Len(seen) > PreviewSize THEN SubSeq(seen, 1, PreviewSize) ELSE seen
            /\ unmatched' = IF found = << >> THEN unmatched + 1 ELSE unmatched

CompareRow ==
    /\ stage = "match"
    /\ \/ /\ sample # << >>
          /\ Compare(Head(sample))
          /\ sample' = Tail(sample) /\ UNCHANGED small
       \/ /\ sample = << >> /\ ~ended /\ Len(small) < MaxSmall
          /\ \E row \in SmallRows : Compare(row) /\ small' = Append(small, row)
          /\ UNCHANGED sample
    /\ UNCHANGED <<stage, outcome, large, column, batch, plateIdx, indexFile, ended>>

EndSmall ==
    /\ stage = "match" /\ sample = << >>
    /\ Leave(IF matches = << >> THEN "none" ELSE "workbook")
    /\ UNCHANGED <<large, small, column, batch, plateIdx, sample, ended, handled, matches,
                   preview, unmatched>>

\* A workbook that cannot be opened or read any further, or a full disk.
Raise ==
    /\ stage # "done"
    /\ Leave("error")
    /\ UNCHANGED <<large, small, column, batch, plateIdx, sample, ended, handled, matches,
                   preview, unmatched>>

MatchNext == \/ ReadLargeHeader \/ IndexRow \/ EndLarge
             \/ ReadSmallHeader \/ CompareRow \/ EndSmall \/ Raise

MatchSpec == MatchInit /\ [][MatchNext]_matchVars
-----------------------------------------------------------------------------
(* What a cell means: the reference.                                       *)

NoText == [text |-> << >>, means |-> << >>]
Plate(letters, digits, text) == [text |-> text, means |-> <<letters, digits>>]
Word(word, text) == [text |-> text, means |-> <<word>>]

Meaning(row, i) == IF i \in DOMAIN row THEN row[i].means ELSE << >>

\* word is what the characters of text that have a sound say, read from one end.
Reads(text, sound, word, backwards) ==
    \E at \in [DOMAIN word -> DOMAIN text] :
      /\ {at[n] : n \in DOMAIN word} = {i \in DOMAIN text : text[i] \in DOMAIN sound}
      /\ \A n \in DOMAIN word : word[n] = sound[text[at[n]]]
      /\ \A m, n \in DOMAIN word : m < n => IF backwards THEN at[n] < at[m] ELSE at[m] < at[n]

LetterSound == [c \in (Latin \cup Arabic) \ {"tatweel"} |->
                  IF c \in DOMAIN ToArabic THEN ToArabic[c]
                  ELSE IF c = "alefHamza" THEN "alef" ELSE c]
DigitSound  == [c \in Digit |-> IF c \in Western THEN c ELSE ToWestern[c]]
WordSound   == [c \in Characters \ (Spaces \cup {"tatweel"}) |->
                  IF c = "alefHamza" THEN "alef" ELSE c]

Count(text, sound) == Cardinality({i \in DOMAIN text : text[i] \in DOMAIN sound})

\* A text with one to three letters and one to four digits is a plate, whatever stands
\* between and before them; Latin letters alone are read backwards.  Any other text is a
\* word, up to spaces, or nothing.
Spelled(cell) ==
    IF Count(cell.text, LetterSound) \in 1..3 /\ Count(cell.text, DigitSound) \in 1..4
    THEN /\ Len(cell.means) = 2
         /\ Reads(cell.text, LetterSound, cell.means[1], ToSet(cell.text) \cap Arabic = {})
         /\ Reads(cell.text, DigitSound, cell.means[2], FALSE)
    ELSE IF Count(cell.text, WordSound) = 0 THEN cell.means = << >>
    ELSE /\ Len(cell.means) = 1
         /\ Reads(cell.text, WordSound, cell.means[1], FALSE)

Cells == [text : Seq(Characters), means : Seq(Seq(Characters))]

ASSUME CellsAssumption ==
    \A row \in LargeRows \cup SmallRows :
        row \in Seq(Cells) /\ \A i \in DOMAIN row : Spelled(row[i])

\* The letters of a key, read again: Latin ones alone are turned round once more.
Turned(letters) == IF ToSet(letters) \subseteq Foreign THEN Reverse(letters) ELSE letters

\* A plate is shown with a space between its letters, read again, and its digits, a word as it
\* is up to spaces.
ShownAs(means, shown) ==
    IF Len(means) = 2 THEN shown = Turned(means[1]) \o <<"space">> \o means[2]
    ELSE Drop(shown, Spaces) = means[1]

\* The workbook has each pair of rows that mean one plate exactly once, in the order of the
\* small sheet, however the plates are spelled, whichever rows were read ahead and wherever
\* a batch ended; the counts and the preview agree with it, the plate shown is the plate
\* meant, and the file of the index is gone (check_match.py:226-450).
Pairs == {p \in (DOMAIN small) \X (DOMAIN large) :
            /\ Meaning(small[p[1]], column.small) # << >>
            /\ Meaning(small[p[1]], column.small) = Meaning(large[p[2]], column.large)}

Joined ==
    /\ {<<m.small, m.large>> : m \in ToSet(matches)} = Pairs
    /\ Len(matches) = Cardinality(Pairs)
    /\ \A k \in 2..Len(matches) : matches[k - 1].small <= matches[k].small
    /\ \A m \in ToSet(matches) : ShownAs(Meaning(small[m.small], column.small), m.shown)

Counted ==
    /\ unmatched = Cardinality({i \in DOMAIN small : /\ Meaning(small[i], column.small) # << >>
                                                     /\ \A p \in Pairs : p[1] # i})
    /\ preview = SubSeq(matches, 1, Len(preview))
    /\ Len(preview) = IF Len(matches) < PreviewSize THEN Len(matches) ELSE PreviewSize

MatchSound ==
    /\ outcome \in {"workbook", "none"} => Joined /\ Counted /\ (outcome = "none" <=> Pairs = {})
    /\ stage = "done" => ~indexFile

\* A key stays as it is when it is normalised again, unless it is that of a plate whose letters
\* are all on no Saudi plate, which is turned round (plate_utils.py:57-62).  What the workbook
\* shows is normalised to the key by which its row was found, those plates included, so that
\* the workbook can be compared again (plate_utils.py:112-145).
KeysStable ==
    /\ \A e \in ToSet(plateIdx) :
         \/ NormalizePlate(e.key) = e.key
         \/ PlateFrom(e.key) # << >> /\ ToSet(Letters(e.key)) \subseteq Foreign
    /\ \A m \in ToSet(matches) :
         NormalizePlate(m.shown) = NormalizePlate(TextAt(small[m.small], column.small))
=============================================================================
