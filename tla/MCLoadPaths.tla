----------------------------- MODULE MCLoadPaths -----------------------------
(* Instances of LoadPaths for TLC.  A text is either a sequence of lines, of     *)
(* bytes 1 and 2 and the separators ',', ';' and TAB, or given by the rows it    *)
(* has at ',', the files of MCCsvLoader.                                         *)
EXTENDS LoadPaths, MCCsvLoader

MCMagic == <<4, 5>>
SEMICOLON == 59

\* The row of a line: split at c, any other separator a byte like others.
AsBytes(s) == [n \in DOMAIN s |-> IF s[n] \in Byte THEN s[n] ELSE 1]
SplitLine(s, c, n) ==
  LET at == {m \in DOMAIN s : s[m] = c}
      two == Cardinality(at) = 1
      m == CHOOSE m \in at : TRUE IN
  [ok |-> TRUE, cols |-> Cardinality(at) + 1, line |-> n,
   key |-> IF two THEN AsBytes(SubSeq(s, 1, m - 1)) ELSE <<>>,
   val |-> IF two THEN AsBytes(SubSeq(s, m + 1, Len(s))) ELSE <<>>]

MCRecords(text, c) ==
  IF "rows" \in DOMAIN text THEN text.rows
  ELSE [n \in DOMAIN text.lines |-> SplitLine(text.lines[n], c, n)]

\* One column or two or three, at one separator, at another, or at both.
TextLines ==
  {<<1, COMMA, 1, 1>>, <<1, SEMICOLON, 1, COMMA, 2>>, <<COMMA, 2>>, <<1, SEMICOLON, 1>>,
   <<1, TAB, 2>>, <<1, COMMA, COMMA, 1>>}

OneLine == [lines : {<<a>> : a \in TextLines}]
LineTexts == [lines : {<<>>}] \cup OneLine \cup [lines : {<<a, b>> : a, b \in TextLines}]
RowTexts == [rows : MCFiles]
MCTexts == LineTexts \cup RowTexts

\* ',', TAB and ';', U+012C and U+0109 whose last bytes are ',' and TAB, none and two.
Delimiters ==
  {NotGiven, <<>>, <<COMMA>>, <<TAB>>, <<SEMICOLON>>, <<300>>, <<265>>, <<COMMA, COMMA>>}

\* The bytes of a text behind the magic: nothing, a part of a header, lengths beyond
\* the file, an artifact without entries, one with an entry, one out of bounds.
Behind ==
  {<<>>, <<0>>, <<5, 5, 5, 5>>, <<0, 0, 0, 0, 1>>, <<1, 1, 1, 0, 0, 1, 1, 0, 1>>,
   <<0, 1, 1, 0, 1, 1, 0, 0, 1>>}

BeginWithMagic == [lines : {<<a>> : a \in {b \in TextLines : b[1] # COMMA}}]

\* Every file of MCCsvLoader is built, with and without its options; the texts are
\* built or served under every command line, some of them beginning with the magic.
MCInvocations ==
  [path : {"build"}, text : RowTexts, cells : {<<>>},
   delimiter : {NotGiven}, ext : {"other"}, header : BOOLEAN, allow_binary : BOOLEAN]
  \cup
  [path : {"serve", "build"}, text : LineTexts, cells : {<<>>},
   delimiter : Delimiters, ext : {"tsv", "other"}, header : BOOLEAN, allow_binary : BOOLEAN]
  \cup
  [path : {"serve", "build"}, text : BeginWithMagic, cells : {MCMagic \o b : b \in Behind},
   delimiter : Delimiters, ext : {"tsv", "other"}, header : BOOLEAN, allow_binary : BOOLEAN]

LineFiles == {MCRecords(t, c) : t \in LineTexts, c \in {COMMA, TAB, SEMICOLON}}
AllFiles == MCFiles \cup LineFiles

\* One good row, JUSTKV01xyz, and 12 NULs: flags of any kind, and no entries.
MagicInvocations ==
  [path : {"serve", "build"}, text : [lines : {<<<<1, COMMA, 1, 1>>>>}],
   cells : {MCMagic \o <<f, 0, 0, 0>> : f \in U32 \ {0}},
   delimiter : {NotGiven, <<COMMA>>}, ext : {"other"}, header : BOOLEAN, allow_binary : BOOLEAN]
==============================================================================
