---------------------------- MODULE OperatorKeys ----------------------------
(***************************************************************************)
(* cmd/artifact-store/token.go: the operator keys that upload tokens are   *)
(* checked with, from ARTIFACT_OPERATOR_PUBKEYS or from a directory.       *)
(*                                                                         *)
(* A text is a sequence of symbols: Begin and End stand for a PEM block's  *)
(* first and last line, a member of KeyTexts for the encoding of a key,    *)
(* and any other symbol that is no mark for a word.                        *)
(*                                                                         *)
(* What is loaded is [ok, keys]: whether err == nil, and the map from kid  *)
(* to key.                                                                 *)
(***************************************************************************)
EXTENDS Sequences, Integers, FiniteSets

CONSTANTS
    Words,    \* what may stand between two marks
    KeyTexts  \* those of them that decode to 32 bytes

Comma == ","
Colon == ":"
Space == " "
Begin == "BEGIN"
End == "END"
Marks == {Comma, Colon, Space, Begin, End}

Symbol == Words \cup Marks

\* The word of no letters, which is not written, and a word for the others.
NoWord == ""
Filler == "word"

NoKeys == [kid \in {} |-> NoWord]
Loaded(keys) == [ok |-> TRUE, keys |-> keys]
LoadError == [ok |-> FALSE, keys |-> NoKeys]

BadKey == "bad"

ASSUME WordsAssumption ==
    /\ Words \cap Marks = {}
    /\ {NoWord, Filler} \subseteq Words
    /\ KeyTexts \subseteq Words \ {NoWord, Filler, BadKey}

Positions(text, symbol) == {i \in DOMAIN text : text[i] = symbol}

Least(S) == CHOOSE i \in S : \A j \in S : i <= j

\* strings.TrimSpace
TrimSpace(text) ==
    LET solid == DOMAIN text \ Positions(text, Space) IN
    IF solid = {} THEN <<>>
    ELSE SubSeq(text, Least(solid), CHOOSE i \in solid : \A j \in solid : j <= i)

\* The first PEM block, whatever headers it has and whatever follows it.
PemDecode(text) ==
    LET ends == Positions(text, End)
        body == IF ends = {} THEN {} ELSE {text[i] : i \in 2..(Least(ends) - 1)}
    IN  IF body \cap KeyTexts = {} THEN BadKey ELSE CHOOSE k \in body : k \in KeyTexts

\* A key in PEM, or else in hex or base64 and nothing beside it.
decodePubKey(raw) ==
    LET text == TrimSpace(raw) IN
    IF text = <<>> THEN BadKey
    ELSE IF text[1] = Begin THEN PemDecode(text)
    ELSE IF Len(text) = 1 /\ text[1] \in KeyTexts THEN text[1]
    ELSE BadKey

\* The texts between these positions, without the blank ones, each at the
\* position it follows.
Between(spec, cuts) ==
    LET next(i) == Least({j \in cuts : j > i} \cup {Len(spec) + 1})
        entry(i) == SubSeq(spec, i + 1, next(i) - 1)
    IN  [i \in {i \in cuts \cup {0} : TrimSpace(entry(i)) # <<>>} |-> entry(i)]

\* Mutant: a comma separates wherever it stands.
splitInlineEntries_Plain(spec) == Between(spec, Positions(spec, Comma))

\* In a text with PEM blocks, only the commas separate that stand outside them;
\* in one where none begins, every comma does.
splitInlineEntries(spec) ==
    LET before(i, symbol) == Cardinality({j \in Positions(spec, symbol) : j < i})
        depth(i) == before(i, Begin) - before(i, End)
        hasPEM == Positions(spec, Begin) # {}
    IN  Between(spec, {i \in Positions(spec, Comma) : hasPEM => depth(i) = 0})

\* "kid:<encoded>".  The kid may be empty.
KidOf(entry) ==
    LET kid == TrimSpace(SubSeq(entry, 1, Least(Positions(entry, Colon)) - 1)) IN
    IF kid = <<>> THEN NoWord ELSE kid[1]

KeyOf(entry) ==
    decodePubKey(SubSeq(entry, Least(Positions(entry, Colon)) + 1, Len(entry)))

\* Any entry that is wrong, or a kid that comes again, is an error.
parseInlinePubKeys(spec) ==
    LET entries == splitInlineEntries(spec)
        wrong(i) == Positions(entries[i], Colon) = {} \/ KeyOf(entries[i]) = BadKey
        kids == {KidOf(entries[i]) : i \in DOMAIN entries}
        entry(kid) == entries[CHOOSE i \in DOMAIN entries : KidOf(entries[i]) = kid]
    IN  IF \/ \E i \in DOMAIN entries : wrong(i)
           \/ \E i, j \in DOMAIN entries : i # j /\ KidOf(entries[i]) = KidOf(entries[j])
        THEN LoadError
        ELSE Loaded([kid \in kids |-> KeyOf(entry(kid))])

\* A directory is [path, files]; its files are [name, kind, text], with kind
\* "pem" for NAME.pem, "unreadable" for such a file that cannot be read, and
\* "other" for anything else, subdirectories included.
loadPubKeysDir(dir) ==
    LET pems == {f \in dir.files : f.kind # "other"}
        file(kid) == CHOOSE f \in pems : f.name = kid
    IN  IF \/ dir.path = "missing"
           \/ \E f \in pems : f.kind = "unreadable" \/ decodePubKey(f.text) = BadKey
        THEN LoadError
        ELSE Loaded([kid \in {f.name : f \in pems} |-> decodePubKey(file(kid).text)])

-----------------------------------------------------------------------------
(* What an operator lists, and how it is written *)

\* An entry is [kid, key, form]: its key raw, as a PEM block, as one that has
\* a header with a comma in it, or "bare", without the colon; or "blank",
\* nothing at all.
Entry ==
    {e \in [kid : Words, key : Words, form : {"raw", "pem", "header", "bare", "blank"}] :
        e.form = "bare" => e.kid # NoWord \/ e.key # NoWord}

\* A list is [entries, style]: with or without spaces around the entries.
KeyList == [entries : Seq(Entry), style : {"tight", "spaced"}]

KeyText(e) ==
    CASE e.form = "pem"    -> <<Begin, e.key, End>>
      [] e.form = "header" -> <<Begin, Filler, Colon, Filler, Comma, e.key, End>>
      [] OTHER             -> IF e.key = NoWord THEN <<>> ELSE <<e.key>>

EntryText(e) ==
    IF e.form = "blank" THEN <<>>
    ELSE (IF e.kid = NoWord THEN <<>> ELSE <<e.kid>>)
         \o (IF e.form = "bare" THEN <<>> ELSE <<Colon>>)
         \o KeyText(e)

\* The text of an entry, with its spaces.
Piece(list, i) ==
    LET space == IF list.style = "spaced" THEN <<Space>> ELSE <<>> IN
    space \o EntryText(list.entries[i]) \o space

\* The pieces, with commas in between.
Text(list) ==
    LET text[i \in 0..Len(list.entries)] ==
          IF i = 0 THEN <<>>
          ELSE text[i - 1] \o ((IF i = 1 THEN <<>> ELSE <<Comma>>) \o Piece(list, i))
    IN  text[Len(list.entries)]

\* The keys of the list, unless an entry is not one or a kid has two.
Listed(list) ==
    LET entries == list.entries
        lines == {i \in DOMAIN entries : entries[i].form # "blank"}
        kids == {entries[i].kid : i \in lines}
        line(kid) == CHOOSE i \in lines : entries[i].kid = kid
    IN  IF /\ \A i \in lines : entries[i].form # "bare" /\ entries[i].key \in KeyTexts
           /\ \A i, j \in lines : entries[i].kid = entries[j].kid => i = j
        THEN Loaded([kid \in kids |-> entries[line(kid)].key])
        ELSE LoadError
=============================================================================
