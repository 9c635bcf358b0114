-------------------------------- MODULE Text --------------------------------
(***************************************************************************)
(* Texts as src/parser.rs, src/router.rs and src/tls.rs take them apart.   *)
(* A text is a sequence of atoms: a punctuation character, a blank, a line *)
(* end, or a run of other characters that no code looks into (a directive, *)
(* a host, a numeral, a unit).  No atom is a proper prefix of another, so  *)
(* that a prefix of atoms is a prefix of characters.  A tab is a blank.    *)
(***************************************************************************)
EXTENDS Naturals, Sequences, FiniteSetsExt, SequencesExt

CONSTANT None       \* Option::None

NL == "\n"

\* str::split by a character.
Split(s, c) ==
    LET from[i \in 1..Len(s) + 1] ==
          LET cuts == {j \in i..Len(s) : s[j] = c} IN
          IF cuts = {} THEN <<SubSeq(s, i, Len(s))>>
          ELSE <<SubSeq(s, i, Min(cuts) - 1)>> \o from[Min(cuts) + 1]
    IN  from[1]

NonEmpty(s) == s # <<>>

\* str::split_whitespace, within a line.
Words(s) == SelectSeq(Split(s, " "), NonEmpty)

\* str::trim, within a line.
Trim(s) ==
    LET ink == {i \in 1..Len(s) : s[i] # " "} IN
    IF ink = {} THEN <<>> ELSE SubSeq(s, Min(ink), Max(ink))

\* str::trim_end_matches(';')
TrimSemicolons(s) == SubSeq(s, 1, Max({0} \cup {i \in 1..Len(s) : s[i] # ";"}))

\* str::contains, for a pattern of atoms.
Has(s, pattern) == \E i \in 0..Len(s) - Len(pattern) :
    SubSeq(s, i + 1, i + Len(pattern)) = pattern

Http  == <<"http", ":", "/", "/">>
Https == <<"http", "s", ":", "/", "/">>
=============================================================================
