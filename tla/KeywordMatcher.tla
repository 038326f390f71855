---------------------------- MODULE KeywordMatcher ----------------------------
(***************************************************************************)
(* Which comments a campaign's keywords match                              *)
(* (lib/utils/keyword-matcher.ts).                                         *)
(*                                                                         *)
(* A text is a sequence of characters, one for each of the cases the code  *)
(* tells apart: "e acute" stands for every precomposed Latin letter, "acute" *)
(* for the combining mark alone, "yeh" for the Arabic letters that have a  *)
(* Persian form, "yeh fa" for those forms, "haraka" for the optional marks *)
(* and the tatweel, "zwnj" for what renders as nothing, "0 fa" for a digit *)
(* of the eastern blocks, "ka" and "i sign" for a letter and a vowel sign  *)
(* of a script whose marks bear meaning, "dot" for the rest.               *)
(***************************************************************************)
EXTENDS Naturals, SequencesExt

CONSTANTS
    Texts,      \* comments
    Keywords    \* lists of keywords of campaigns

VARIABLES
    text,       \* the comment
    asked,      \* the campaign's keywords and wholeWordMatch, or None
    answer      \* the keyword found, or None

vars == <<text, asked, answer>>

None == [none |-> TRUE]

Latin == {"e", "E", "e acute", "o", "O"}
Letters == Latin \union {"yeh", "yeh fa", "ka"}
Numbers == {"0", "0 fa"}
Marks == {"acute", "haraka", "i sign"}

\* Each character of t by what of has for it, itself if nothing.
Rewritten(t, of) ==
    FlattenSeq([i \in DOMAIN t |-> IF t[i] \in DOMAIN of THEN of[t[i]] ELSE <<t[i]>>])

-----------------------------------------------------------------------------
\* The steps a text goes through.

NormalizeArabicScript(t) ==
    Rewritten(t, [c \in {"yeh", "haraka", "zwnj", "0 fa"} |->
                    CASE c = "yeh" -> <<"yeh fa">> [] c = "0 fa" -> <<"0">> [] OTHER -> <<>>])

\* Emoji are deleted, and everything else that is not part of a word is a space; of
\* several spaces one stays, of those at the ends none.
Spaced(t, kept) ==
    [i \in DOMAIN t |-> IF t[i] \in kept THEN t[i] ELSE " "]

Trimmed(t) ==
    LET keep == {i \in DOMAIN t :
                    t[i] # " " \/ (i > 1 /\ t[i - 1] # " " /\ \E j \in i .. Len(t) : t[j] # " ")}
    IN  FlattenSeq([i \in DOMAIN t |-> IF i \in keep THEN <<t[i]>> ELSE <<>>])

\* A bug: combining marks are special characters too.
StripWithMarks(t) ==
    Trimmed(Spaced(SelectSeq(t, LAMBDA c : c # "emoji"), Letters \union Numbers))

StripSpecialCharacters(t) ==
    Trimmed(Spaced(SelectSeq(t, LAMBDA c : c # "emoji"), Letters \union Numbers \union Marks))

\* Decomposed, and a mark is dropped if the last character that is none is Latin.
FoldDiacritics(t) ==
    LET s == Rewritten(t, [c \in {"e acute"} |-> <<"e", "acute">>])
        base(i) == SelectLastInSubSeq(s, 1, i, LAMBDA c : c \notin Marks)
        dropped(i) == s[i] \in Marks /\ base(i) # 0 /\ s[base(i)] \in Latin
    IN  FlattenSeq([i \in DOMAIN s |-> IF dropped(i) THEN <<>> ELSE <<s[i]>>])

ToLowerCase(t) ==
    Rewritten(t, [c \in {"E", "O"} |-> IF c = "E" THEN <<"e">> ELSE <<"o">>])

Cleaned(t) == ToLowerCase(FoldDiacritics(StripSpecialCharacters(NormalizeArabicScript(t))))

IsNumericLike(k) == k # <<>> /\ ToSet(k) \subseteq {"0", "o", "O"}

FoldNumericHomoglyphs(t) == Rewritten(t, [c \in {"o", "O"} |-> <<"0">>])

-----------------------------------------------------------------------------
\* Matching.

\* Where k begins in t.
Found(k, t) ==
    {i \in 1 .. Len(t) : i + Len(k) - 1 <= Len(t) /\ SubSeq(t, i, i + Len(k) - 1) = k}

\* Not flanked by a letter or a number.
Standalone(i, k, t) ==
    /\ i = 1 \/ t[i - 1] \notin Letters \union Numbers
    /\ i + Len(k) > Len(t) \/ t[i + Len(k)] \notin Letters \union Numbers

Matches(keyword, t, whole) ==
    LET k == Cleaned(keyword)
        fold(s) == IF IsNumericLike(k) THEN FoldNumericHomoglyphs(s) ELSE s
    IN  /\ k # <<>>
        /\ \E i \in Found(fold(k), fold(t)) : whole => Standalone(i, fold(k), fold(t))

\* The first of the list that matches.
MatchKeywords(t, keywords, whole) ==
    LET matching == {n \in DOMAIN keywords : Matches(keywords[n], Cleaned(t), whole)}
    IN  IF Cleaned(t) = <<>> \/ matching = {} THEN None
        ELSE [keyword |-> keywords[CHOOSE n \in matching : \A m \in matching : n <= m]]

Init == text = <<>> /\ asked = None /\ answer = None

\* A comment comes, and is held against the campaigns.
Comment(t) ==
    /\ asked = None /\ text = <<>>
    /\ text' = t
    /\ UNCHANGED <<asked, answer>>

Match(keywords, whole) ==
    /\ asked = None
    /\ asked' = [keywords |-> keywords, whole |-> whole]
    /\ answer' = MatchKeywords(text, keywords, whole)
    /\ UNCHANGED text

Next ==
    \/ \E t \in Texts : Comment(t)
    \/ \E keywords \in Keywords, whole \in BOOLEAN : Match(keywords, whole)

Spec == Init /\ [][Next]_vars

-----------------------------------------------------------------------------
\* What is expected of the matching: a reader's idea of the words of a text.

\* What a reader sees of a character: its sign, no matter how it was typed.
Sign(c) ==
    CASE c \in {"e", "E", "e acute"} -> "e" [] c \in {"o", "O"} -> "o"
      [] c \in {"yeh", "yeh fa"} -> "yeh" [] c \in Numbers -> "0" [] OTHER -> c

\* What no reader sees, or takes for an accent: the accents of Latin letters, alone or
\* piled up, and what is optional.
Unseen(t, i) ==
    \/ t[i] \in {"haraka", "zwnj", "emoji"}
    \/ /\ t[i] \in Marks
       /\ \E j \in 1 .. (i - 1) :
            t[j] \in Latin /\ \A l \in (j + 1) .. i : t[l] \in Marks \union {"zwnj", "emoji"}

Seen(t) ==
    FlattenSeq([i \in DOMAIN t |-> IF Unseen(t, i) THEN <<>> ELSE <<Sign(t[i])>>])

Between == {" ", "dot"}

\* The words of a text, in order: the stretches between what is no part of a word.
Words(t) ==
    LET s == Seen(t)
        stretch == {w \in (DOMAIN s) \X (DOMAIN s) :
                      /\ w[1] <= w[2] /\ \A i \in w[1] .. w[2] : s[i] \notin Between
                      /\ w[1] = 1 \/ s[w[1] - 1] \in Between
                      /\ w[2] = Len(s) \/ s[w[2] + 1] \in Between}
        inOrder == SetToSortSeq(stretch, LAMBDA v, w : v[1] < w[1])
    IN  [n \in DOMAIN inOrder |-> SubSeq(s, inOrder[n][1], inOrder[n][2])]

Zeroed(words) == [n \in DOMAIN words |-> [i \in DOMAIN words[n] |->
                    IF words[n][i] = "o" THEN "0" ELSE words[n][i]]]

\* A keyword of zeros and os reads like zeros.
Reads(keyword, t) ==
    LET k == Words(keyword)
        zeros == Len(k) = 1 /\ ToSet(k[1]) \subseteq {"0", "o"}
    IN  IF zeros THEN <<Zeroed(k), Zeroed(Words(t))>> ELSE <<k, Words(t)>>

\* Whole words of the text, in a row, read like those of the keyword.
AsWords(keyword, t) ==
    LET r == Reads(keyword, t) IN r[1] # <<>> /\ Found(r[1], r[2]) # {}

\* Somewhere in the text, its words one space apart, the keyword reads.
Joined(words) ==
    FlattenSeq([n \in DOMAIN words |-> IF n = 1 THEN words[n] ELSE <<" ">> \o words[n]])
AsPart(keyword, t) ==
    LET r == Reads(keyword, t) IN r[1] # <<>> /\ Found(Joined(r[1]), Joined(r[2])) # {}

\* The keyword, or the text next to it, has a mark where its word begins or ends.
AtMark(keyword, t) ==
    LET r == Reads(keyword, t)
        s == Joined(r[2])  k == Joined(r[1])
    IN  \E i \in Found(k, s) : \E j \in {i - 1, i + Len(k)} \intersect DOMAIN s : s[j] \in Marks

\* A campaign answers a comment exactly if the comment says one of its keywords, as
\* whole words or anywhere, whichever way the two were typed: on which keyboard, with
\* or without accents, composed or not, with emoji and punctuation around, zeros or
\* os; and the keyword it names is the first that is said.  Next to a mark that bears
\* meaning a part of a word may pass for the whole: the code takes such a mark for
\* the end of a word.
MatchesAsMeant ==
    asked # None =>
        LET said == {n \in DOMAIN asked.keywords :
                        IF asked.whole THEN AsWords(asked.keywords[n], text)
                                       ELSE AsPart(asked.keywords[n], text)}
        IN  IF answer = None THEN said = {}
            ELSE \E n \in DOMAIN asked.keywords :
                    /\ answer.keyword = asked.keywords[n]
                    /\ \A m \in said : n <= m
                    /\ n \in said \/ (asked.whole /\ AsPart(answer.keyword, text)
                                                  /\ AtMark(answer.keyword, text))
=============================================================================
