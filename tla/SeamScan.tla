------------------------------ MODULE SeamScan ------------------------------
(***************************************************************************)
(* The seam check of tools/sos_runner.py: _check_arch_free looks for the   *)
(* names of architectures in the arch-free kernel, and lets a token pass   *)
(* that is buried in a longer English word.                                *)
(*                                                                         *)
(* A line is a sequence of characters, already lower case; the tokens and  *)
(* the alphabet are parameters. A path of ARCH_FREE_DIRS is one file or a  *)
(* directory, walked for its .saw files.                                   *)
(***************************************************************************)
EXTENDS Naturals, Sequences, FiniteSets

CONSTANTS
    Alpha,       \* the letters
    Other,       \* the characters that are not letters: digits, `_', blanks
    Blank,       \* those of them that part one word from the next
    ARCH_WORDS,  \* the sequence of tokens
    MaxLine,     \* bound on the length of the line of the file in kernel/core
    MaxMain      \* bound on the length of the line of kernel/main.saw

SeamAssumption ==
    /\ Alpha \cap Other = {}
    /\ Blank \subseteq Other
    /\ \A w \in DOMAIN ARCH_WORDS : ARCH_WORDS[w] /= <<>>

VARIABLES
    tree,   \* file -> [saw: its name ends in .saw, line: what it says]
    todo,   \* the sources still to scan
    file,   \* the source being scanned, or none
    word,   \* the token being looked for
    at,     \* where it was found last, 0 when not at all
    bad     \* the (source, token) pairs reported

vars == <<tree, todo, file, word, at, bad>>

\* One file of kernel/core and kernel/main.saw, which ARCH_FREE_DIRS names itself.
InCore == 1
Main == 2
Files == {InCore, Main}
NoFile == 0
Lines(max) == UNION {[1..n -> Alpha \cup Other] : n \in 0..max}

-----------------------------------------------------------------------------
\* str.find from a place on, 0 for nothing.
FindWord(line, w, from) ==
    LET hits == {p \in from..(Len(line) - Len(w) + 1) :
                    SubSeq(line, p, p + Len(w) - 1) = w}
    IN IF hits = {} THEN 0 ELSE CHOOSE p \in hits : \A q \in hits : p <= q

\* _is_english_embedding: a letter on both sides.
IsEnglishEmbedding(line, w, p) ==
    /\ p > 1 /\ line[p - 1] \in Alpha
    /\ p + Len(w) <= Len(line) /\ line[p + Len(w)] \in Alpha

\* _sources_under: a path that is a file is scanned whatever its name.
Sources(t) == {Main} \cup {f \in {InCore} : t[f].saw}

Init ==
    /\ \E core \in [saw : BOOLEAN, line : Lines(MaxLine)],
          main \in [saw : {TRUE}, line : Lines(MaxMain)] :
         tree = [f \in Files |-> IF f = Main THEN main ELSE core]
    /\ todo = Sources(tree)
    /\ file = NoFile
    /\ word = 1
    /\ at = 0
    /\ bad = {}

Open ==
    /\ file = NoFile
    /\ \E f \in todo :
          /\ file' = f
          /\ todo' = todo \ {f}
          /\ at' = FindWord(tree[f].line, ARCH_WORDS[1], 1)
    /\ word' = 1
    /\ UNCHANGED <<tree, bad>>

\* The next token of the line, or the end of the source.
NextWord ==
    IF word < Len(ARCH_WORDS)
    THEN /\ word' = word + 1
         /\ at' = FindWord(tree[file].line, ARCH_WORDS[word + 1], 1)
         /\ UNCHANGED file
    ELSE file' = NoFile /\ at' = 0 /\ UNCHANGED word

\* One turn of the while loop: an embedded token is passed over and the search
\* goes on one character further, the first that is not embedded is reported.
StepsOver ==
    /\ file /= NoFile
    /\ at /= 0
    /\ IF IsEnglishEmbedding(tree[file].line, ARCH_WORDS[word], at)
       THEN /\ at' = FindWord(tree[file].line, ARCH_WORDS[word],
                              at + Len(ARCH_WORDS[word]))
            /\ UNCHANGED <<file, word, bad>>
       ELSE bad' = bad \cup {<<file, word>>} /\ NextWord
    /\ UNCHANGED <<tree, todo>>

Hit ==
    /\ file /= NoFile
    /\ at /= 0
    /\ IF IsEnglishEmbedding(tree[file].line, ARCH_WORDS[word], at)
       THEN /\ at' = FindWord(tree[file].line, ARCH_WORDS[word], at + 1)
            /\ UNCHANGED <<file, word, bad>>
       ELSE bad' = bad \cup {<<file, word>>} /\ NextWord
    /\ UNCHANGED <<tree, todo>>

Miss ==
    /\ file /= NoFile
    /\ at = 0
    /\ NextWord
    /\ UNCHANGED <<tree, todo, bad>>

Next == Open \/ Hit \/ Miss

Spec == Init /\ [][Next]_vars /\ WF_vars(Next)

-----------------------------------------------------------------------------
\* The characters lo..hi are one English word with token w in the middle of it:
\* letters around the token, and no blank that would make it several words.
IsWordAround(line, w, p, lo, hi) ==
    /\ lo < p /\ p + Len(w) <= hi
    /\ \A i \in lo..hi :
         /\ line[i] \notin Blank
         /\ i \in p..(p + Len(w) - 1) \/ line[i] \in Alpha

\* A token stands somewhere in a line and is not buried in a longer English word:
\* a word of its own, or an end of an identifier such as mtimecmp or gicd_ctlr.
Leaks(line, w) ==
    \E p \in 1..(Len(line) - Len(w) + 1) :
        /\ \A i \in 1..Len(w) : line[p + i - 1] = w[i]
        /\ \A lo, hi \in 1..Len(line) : ~IsWordAround(line, w, p, lo, hi)

Leaking ==
    {<<f, w>> \in Files \X DOMAIN ARCH_WORDS :
        tree[f].saw /\ Leaks(tree[f].line, ARCH_WORDS[w])}

HasBlank(w) == \E i \in DOMAIN ARCH_WORDS[w] : ARCH_WORDS[w][i] \in Blank

Done == todo = {} /\ file = NoFile

\* The scan ends, reports nothing but leaks, and every leak of a token that is a
\* single word, an English word earlier in the line hiding nothing.
ReportsEveryWord ==
    <>(Done /\ bad \subseteq Leaking
            /\ \A leak \in Leaking : HasBlank(leak[2]) \/ leak \in bad)

\* What the comments of _check_arch_free promise of every token: a name of an
\* architecture that is not buried in a longer English word fails the run.
LeaksAreReported == Done => Leaking \subseteq bad

=============================================================================
