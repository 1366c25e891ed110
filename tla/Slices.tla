------------------------------- MODULE Slices -------------------------------
(***************************************************************************)
(* What a mail or a page shows of a document: its lines, those around a    *)
(* mention or a pane, and the slices that changed since a revision.        *)
(*                                                                         *)
(* A document is a sequence of characters of length one.  A word stands    *)
(* for text that is apart from its neighbours.  Who inserted a character   *)
(* and when tells it from all others.                                      *)
(***************************************************************************)
EXTENDS Naturals, Sequences, FiniteSetsExt

LineEnds == {"newline", "bullet"}          \* bullet ends the line of a list
Blocks == {"image", "service", "broken"}   \* block embeds, by what can be drawn of them
Embeds == Blocks \cup {"pane"}

Char(kind, from, by) == [kind |-> kind, from |-> from, by |-> by]

EndsLine(doc, i) == doc[i].kind \in LineEnds
IsEmbed(doc, i) == doc[i].kind \in Embeds
IsPane(doc, i) == doc[i].kind = "pane"

Ascending(set) ==
    [k \in 1..Cardinality(set) |-> CHOOSE i \in set : Cardinality({j \in set : j <= i}) = k]
Through(doc, first, last) == SubSeq(doc, first, last)

-----------------------------------------------------------------------------
\* eachLine: a line ends with its newline, with a block or pane embed, or with the
\* document.
Lines(doc) ==
    LET lasts == Ascending({i \in DOMAIN doc :
                                EndsLine(doc, i) \/ IsEmbed(doc, i) \/ i = Len(doc)})
    IN  [k \in DOMAIN lasts |->
            [first |-> IF k = 1 THEN 1 ELSE lasts[k - 1] + 1, last |-> lasts[k]]]

\* A line with the lines before and after it.
WithNeighbours(doc, k) ==
    LET lines == Lines(doc)
        before == IF k = 1 THEN k ELSE k - 1
        after == IF k = Len(lines) THEN k ELSE k + 1
    IN  Through(doc, lines[before].first, lines[after].last)

EmbedLinesBefore(doc, k) == Cardinality({j \in 1..(k - 1) : IsEmbed(doc, Lines(doc)[j].last)})

\* Text is one operation until its author or a newline changes.
StartsOp(doc, i) ==
    \/ i = 1 \/ doc[i].kind # "word" \/ doc[i - 1].kind # "word"
    \/ doc[i - 1].by # doc[i].by

\* Mutant: newlines are not counted.
CountedNoNewlines(doc, k, i) == i - k

\* The length that getSurroundingDelta has counted before the i-th character, on the
\* k-th line: one more for the newline of every line, and embeds have none.
Counted(doc, k, i) == i - 1 + EmbedLinesBefore(doc, k)

\* getSurroundingDelta: the line that has an operation at the position.
SurroundingDelta(doc, retain) ==
    LET lines == Lines(doc)
        found == {k \in DOMAIN lines :
                     \E i \in lines[k].first..lines[k].last :
                         ~EndsLine(doc, i) /\ StartsOp(doc, i) /\ Counted(doc, k, i) = retain}
    IN  IF found = {} THEN << >> ELSE WithNeighbours(doc, Min(found))

\* getPaneSurroundingDelta: the pane is found when nothing precedes it on its line.
PaneSurroundingDelta(doc) ==
    LET lines == Lines(doc)
        found == {k \in DOMAIN lines : IsPane(doc, lines[k].first)}
    IN  IF found = {} THEN << >> ELSE WithNeighbours(doc, Min(found))

-----------------------------------------------------------------------------
\* What the word diff compares: newlines are alike, and so are embeds and
\* mentions.  A run of newlines is one token, and a run of embeds.
Plain(char) ==
    CASE char.kind \in LineEnds -> <<"newline">>
      [] char.kind = "word" -> <<"word", char.from>>
      [] OTHER -> <<"null">>

Tokens(doc) ==
    LET firsts == Ascending({i \in DOMAIN doc :
                      i = 1 \/ doc[i].kind = "word" \/ Plain(doc[i]) # Plain(doc[i - 1])})
    IN  [k \in DOMAIN firsts |->
            firsts[k]..(IF k = Len(firsts) THEN Len(doc) ELSE firsts[k + 1] - 1)]

Pick(seq, set) == LET kept == Ascending(set) IN [k \in DOMAIN kept |-> seq[kept[k]]]
Spelled(doc, tokens) ==
    [k \in DOMAIN tokens |->
        LET chars == Pick(doc, tokens[k]) IN [i \in DOMAIN chars |-> Plain(chars[i])]]

\* The shortest ways to get from one text to the other: the tokens of the old one
\* that go and those of the new one that come.
Ways(old, new) ==
    LET this == Spelled(old, Tokens(old))
        other == Spelled(new, Tokens(new))
        Going(n) ==
            {way \in kSubset(n, DOMAIN this) \X kSubset(n + Len(other) - Len(this), DOMAIN other) :
                Pick(this, DOMAIN this \ way[1]) = Pick(other, DOMAIN other \ way[2])}
        Possible(n) == n + Len(other) >= Len(this) /\ Going(n) # {}
    IN  Going(CHOOSE n \in 0..Len(this) : Possible(n) /\ \A m \in 0..(n - 1) : ~Possible(m))

\* Mutant: embeds that take each other's place are equal.
AddedPlain(old, new, updated, way) ==
    UNION {Tokens(new)[k] : k \in way[2]}

\* getDiff: the positions of the new contents that it marks as added, for one of
\* the ways.  An embed that is not the one it is compared with is added, and so is
\* the pane with updates.
Added(old, new, updated, way) ==
    LET come == UNION {Tokens(new)[k] : k \in way[2]}
        gone == UNION {Tokens(old)[k] : k \in way[1]}
        before == Ascending(DOMAIN old \ gone)
        after == Ascending(DOMAIN new \ come)
    IN  come
        \cup {after[n] : n \in {m \in DOMAIN after :
                 \/ Plain(new[after[m]]) = <<"null">> /\ old[before[m]] # new[after[m]]
                 \/ updated /\ IsPane(new, after[m])}}

-----------------------------------------------------------------------------
\* separateIntoLines: embeds are lines of their own, the header is left out, and of
\* newlines only those of empty lines are kept.
InHeader(doc, i) == \A j \in 1..(i - 1) : ~EndsLine(doc, j)

IsText(doc, i) == ~IsEmbed(doc, i) /\ ~EndsLine(doc, i)

StartsPiece(doc, i) ==
    /\ ~InHeader(doc, i)
    /\ CASE IsEmbed(doc, i) -> TRUE
         [] EndsLine(doc, i) -> EndsLine(doc, i - 1)
         [] OTHER -> ~IsText(doc, i - 1)

\* A piece that stands before an embed on its line counts as a pane if that is one.
Pieces(doc) ==
    LET firsts == Ascending({i \in DOMAIN doc : StartsPiece(doc, i)})
        LastOf(i) == IF ~IsText(doc, i) THEN i
                   ELSE Min({j \in i..Len(doc) : j = Len(doc) \/ ~IsText(doc, j + 1)})
        Follows(i) == i < Len(doc) /\ IsPane(doc, i + 1)
    IN  [k \in DOMAIN firsts |->
            LET last == LastOf(firsts[k])
            IN  [chars |-> firsts[k]..last,
                 pane |-> IF IsText(doc, last) THEN Follows(last) ELSE IsPane(doc, last)]]

\* isUpdatedOp: of added newlines only those of lists count.
IsUpdated(doc, added, piece) ==
    \E i \in piece.chars : i \in added /\ doc[i].kind # "newline"

\* The lines that are updated, and those next to one, where neither is a pane.
Important(doc, added) ==
    LET pieces == Pieces(doc)
        updated == {k \in DOMAIN pieces : IsUpdated(doc, added, pieces[k])}
    IN  {k \in DOMAIN pieces :
            \/ k \in updated
            \/ /\ ~pieces[k].pane
               /\ \E j \in updated : ~pieces[j].pane /\ (j = k + 1 \/ k = j + 1)}

\* getSlices: the runs of important lines, each with those who added to it.
SlicesOf(doc, added) ==
    LET pieces == Pieces(doc)
        important == Important(doc, added)
        starts == Ascending({k \in important : k - 1 \notin important})
        Run(k) == {j \in important : k <= j /\ k..j \subseteq important}
        Slice(k) == UNION {pieces[j].chars : j \in Run(k)}
    IN  [n \in DOMAIN starts |->
            [chars |-> {doc[i] : i \in Slice(starts[n])},
             authors |-> {doc[i].by : i \in Slice(starts[n]) \cap added}]]
=============================================================================
