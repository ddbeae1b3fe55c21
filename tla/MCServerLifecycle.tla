------------------------- MODULE MCServerLifecycle -------------------------
(***************************************************************************)
(* Instances of ServerLifecycle for TLC.                                   *)
(***************************************************************************)
EXTENDS ServerLifecycle

\* Key names and texts.
SomeKeyTexts == {"K1", "K2"}

SomeWords == {"", "word", "a", "b", "short"} \cup SomeKeyTexts

SomeKEKNames == {"projects/k"}

Line(kid, form, key) == [kid |-> kid, form |-> form, key |-> key]

\* One key under one kid, written in hex.
OneKey == [entries |-> <<Line("a", "raw", "K1")>>, style |-> "tight"]

NoList == [entries |-> <<>>, style |-> "tight"]

\* Every list of at most two entries, right and wrong.
Lists ==
    LET good == {Line(kid, form, key) : kid \in {"", "a"}, form \in {"raw", "header"},
                                         key \in {"K1", "K2"}}
        bad == {Line("b", "raw", ""), Line("b", "pem", "short"), Line("b", "bare", "K1")}
        blank == {Line("", "blank", "")}
    IN  [entries : UNION {[1..n -> good \cup bad \cup blank] : n \in 0..2},
         style : {"tight", "spaced"}]

NoDir == [path |-> "", files |-> {}]

File(name, kind, text) == [name |-> name, kind |-> kind, text |-> text]

OneFile == [path |-> "keys", files |-> {File("a", "pem", <<"BEGIN", "K1", "END", " ">>)}]

\* Directories with files that are right, wrong, unreadable and besides.
Dirs ==
    LET files == OneFile.files \cup
                 {File("b", "pem", <<"K2">>),
                  File("c", "pem", <<"BEGIN", "short", "END">>),
                  File("d", "unreadable", <<>>), File("e", "other", <<"K1">>)}
    IN  {[path |-> "missing", files |-> {}]}
        \cup {[path |-> "keys", files |-> fs] : fs \in SUBSET files}

\* A sound production environment.
Sound ==
    [backend |-> "gcs", mirror |-> "", mode |-> "", verify |-> "", env |-> "production",
     policy |-> "required", inline |-> OneKey, dir |-> NoDir, maxBody |-> "",
     keyservice |-> "", token |-> "t", kek |-> "", project |-> "", label |-> "", pin |-> ""]

\* What else each variable may be set to.
Others ==
    [backend |-> {"", "ipfs"}, mirror |-> {"rustfs", "memory"}, mode |-> {"async_pin"},
     verify |-> {"false", "FALSE", "T", "yes"}, env |-> {"dev"}, policy |-> {"", "optional", "on"},
     inline |-> {NoList}, dir |-> {OneFile}, maxBody |-> {"-1", "0", "1", "lots"},
     keyservice |-> {"memory", "none"}, token |-> {""}]

\* The sound environment with a variable or two set to something else.
Deviations ==
    LET with(e, v) == {[e EXCEPT ![v] = x] : x \in Others[v]}
        once == UNION {with(Sound, v) : v \in DOMAIN Others}
    IN  {Sound} \cup once \cup UNION {with(e, v) : e \in once, v \in DOMAIN Others}

\* The other key services, with and without what they need.
KeyServices ==
    {[Sound EXCEPT !.keyservice = "gcpkms", !.kek = k, !.project = p] :
        k \in {"", "k", "projects/k"}, p \in {"", "p"}}
    \cup {[Sound EXCEPT !.keyservice = "pkcs11", !.label = l, !.pin = n] :
        l \in {"", "l"}, n \in {"", "n"}}

KeySources ==
    {[Sound EXCEPT !.inline = list] : list \in Lists}
    \cup {[Sound EXCEPT !.inline = NoList, !.dir = dir] : dir \in Dirs}

SomeEnvironments == Deviations \cup KeyServices \cup KeySources

\* The sound environment, with and without verification.
SoundEnvironments == {Sound, [Sound EXCEPT !.verify = "false"]}
=============================================================================
