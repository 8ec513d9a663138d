------------------------------- MODULE Ingest -------------------------------
(***************************************************************************)
(* What the service makes of a file before it calls anybody: the readers   *)
(* of ingest/extract.py and the windows of ingest/chunk.py.  A text is its *)
(* length; a page, paragraph, row or cell that is blank, or that its       *)
(* reader raises on, has length 0.                                         *)
(***************************************************************************)
EXTENDS Integers, SequencesExt

CONSTANT MinChars       \* _MIN_CHARS: below it a file counts as empty

ASSUME MinCharsAssumption == MinChars \in Nat \ {0}

(* The files: what each format's reader finds in one.  A PDF has two        *)
(* readers, which may disagree on every page; one that cannot open the file *)
(* finds no pages.                                                          *)
PdfFile(plumber, pypdf) == [ext |-> "pdf", plumber |-> plumber, pypdf |-> pypdf]
Docx(paragraphs)        == [ext |-> "docx", parts |-> paragraphs]
Csv(rows)               == [ext |-> "csv", parts |-> rows]
Xlsx(sheets)            == [ext |-> "xlsx", sheets |-> sheets]
Corrupt                 == [ext |-> "corrupt"]

-----------------------------------------------------------------------------
(* Extraction.                                                              *)

Nonblank(parts) == SelectSeq(parts, LAMBDA n : n > 0)

(* len("\n".join(parts)) *)
Joined(parts) == FoldLeft(LAMBDA sum, n : sum + n, 0, parts)
                    + (IF parts = <<>> THEN 0 ELSE Len(parts) - 1)

Extraction(chars, units, scan) ==
    [chars |-> chars, units |-> units, scan |-> scan, empty |-> chars < MinChars]

NoExtraction == Extraction(0, 0, FALSE)

(* pdfplumber first; pypdf only if that opened the file, found pages and no *)
(* text at all on them.                                                     *)
ExtractPdf(f) ==
    LET found == Joined(Nonblank(f.plumber))
        pages == Len(f.plumber)
        chars == IF found = 0 /\ pages > 0 THEN Joined(Nonblank(f.pypdf)) ELSE found
    IN Extraction(chars, pages, pages > 0 /\ chars < MinChars)

ExtractDocx(f) ==
    LET lines == Nonblank(f.parts) IN Extraction(Joined(lines), Len(lines), FALSE)

ExtractCsv(f) ==
    LET rows == Nonblank(f.parts) IN Extraction(Joined(rows), Len(rows), FALSE)

(* A sheet begins with the line "--- Sheet: <name> ---", rows or not.       *)
SheetLines(sheet) == <<15 + sheet.name>> \o Nonblank(sheet.rows)

ExtractXlsx(f) ==
    LET lines == FlattenSeq([i \in DOMAIN f.sheets |-> SheetLines(f.sheets[i])])
    IN Extraction(Joined(lines), Len(lines) - Len(f.sheets), FALSE)

(* A reader that raises, or a format there is no reader for, is no text.    *)
Extract(f) ==
    CASE f.ext = "pdf"  -> ExtractPdf(f)
      [] f.ext = "docx" -> ExtractDocx(f)
      [] f.ext = "csv"  -> ExtractCsv(f)
      [] f.ext = "xlsx" -> ExtractXlsx(f)
      [] OTHER          -> NoExtraction

-----------------------------------------------------------------------------
(* Chunking.  A window [from, to) of the tokens 0 .. total-1; the setting c *)
(* has its size, the overlap asked for and the greatest number of windows,  *)
(* 0 for no limit.                                                          *)

Least(a, b)    == IF a < b THEN a ELSE b
Greatest(a, b) == IF a < b THEN b ELSE a

Overlap(c) == Least(c.overlap, c.size - 1)
Step(c)    == c.size - Overlap(c)

Window(start, total, c) == [from |-> start, to |-> Least(start + c.size, total)]

(* Mutant of Finished: no break when a window ends with the text.           *)
FinishedLate(windows, total, c) ==
    \/ Len(windows) * Step(c) >= total
    \/ c.max # 0 /\ Len(windows) >= c.max

(* The loop of chunk() stops after these windows.                           *)
Finished(windows, total, c) ==
    \/ Len(windows) * Step(c) >= total
    \/ c.max # 0 /\ Len(windows) >= c.max
    \/ windows # <<>> /\ Last(windows).to = total

(* slide[n] is what n turns of the loop leave; it never takes more turns    *)
(* than there are tokens.                                                   *)
Windows(total, c) ==
    LET slide[n \in 0..total] ==
          IF n = 0 THEN <<>>
          ELSE LET w == slide[n - 1]
               IN IF Finished(w, total, c) THEN w
                  ELSE Append(w, Window(Len(w) * Step(c), total, c))
    IN slide[total]

=============================================================================
