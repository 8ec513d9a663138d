----------------------------- MODULE MCDocument -----------------------------
(***************************************************************************)
(* Instances of Document for TLC.                                          *)
(***************************************************************************)
EXTENDS Document

File(data, size) == [data |-> data, size |-> size]

Scan        == File(PdfFile(<<0, 0>>, <<0, 0>>), 1)
LongPdf     == File(PdfFile(<<300, 0, 400>>, <<>>), 2)
PypdfOnly   == File(PdfFile(<<0>>, <<350>>), 1)
Unopenable  == File(PdfFile(<<>>, <<600>>), 1)
Stamped     == File(PdfFile(<<5, 0>>, <<5, 100>>), 1)
Note        == File(Docx(<<10, 0>>), 1)
Report      == File(Docx(<<200, 49, 0>>), 1)
Table       == File(Csv(<<0, 29>>), 1)
EmptyBook   == File(Xlsx(<<[name |-> 6, rows |-> <<>>], [name |-> 6, rows |-> <<0>>]>>), 1)
Book        == File(Xlsx(<<[name |-> 6, rows |-> <<40, 0, 20>>]>>), 1)
Damaged     == File(Corrupt, 1)
Oversize    == File(PdfFile(<<900>>, <<900>>), 3)

AllFiles == {Scan, LongPdf, PypdfOnly, Unopenable, Stamped, Note, Report, Table,
             EmptyBook, Book, Damaged, Oversize}
TwoFiles == {LongPdf, Report}

AllTokens == [f \in AllFiles |->
    CASE f \in {Scan, Unopenable, Damaged} -> 0
      [] f \in {Note, Stamped}             -> 2
      [] f \in {Table, EmptyBook, Book}    -> 3
      [] f \in {PypdfOnly, Report}         -> 4
      [] f \in {LongPdf, Oversize}         -> 6]
TwoTokens == [f \in TwoFiles |-> AllTokens[f]]

Chunks(size, overlap, max) == [size |-> size, overlap |-> overlap, max |-> max]

Config(inSync, reviewing, low, high, key, chunk) ==
    [inSync |-> inSync, reviewing |-> reviewing, judgeLow |-> low, judgeHigh |-> high,
     key |-> key, chunk |-> chunk]

(* The defaults; a service without a key; strict bands, the judge asked     *)
(* below them too, and a limit of two chunks; bands that a capped score     *)
(* reaches, and an overlap that chunk() has to reduce.                      *)
Default == Config(71, 41, 60, 72, TRUE, Chunks(4, 1, 0))
NoKey   == Config(71, 41, 60, 72, FALSE, Chunks(4, 1, 0))
Strict  == Config(80, 70, 60, 85, TRUE, Chunks(3, 1, 2))
Lenient == Config(44, 20, 40, 60, TRUE, Chunks(4, 5, 0))

AllConfigs == {Default, NoKey, Strict, Lenient}
OneConfig  == {Default}

SomeCosines  == {5500, 9500}
SomeNames    == {-2000, 9500}
SomeSiblings == {{}, {3000}}
Identical    == {{0}}

Say(words, score) == [words |-> words, score |-> score]

(* A clear verdict, one off the scale, a null status, a score that is no    *)
(* number.                                                                  *)
SomeReplies == {Say({"compliant"}, {90}), Say({"non", "compliant"}, {120}),
                Say({"non"}, {65}), Say({"sync"}, {})}
OneReply    == {Say({"compliant"}, {90})}

Deep      == {8300, 10000}
AllFaults == Dependencies
NoFaults  == {}
=============================================================================
