------------------------------- MODULE Detect -------------------------------
(* internal/detect/detect.go: what is left of a snippet once comments and the *)
(* contents of literals are blanked out, which is all that the detector's     *)
(* patterns see. A snippet is a sequence of characters, as far as stripNonCode *)
(* tells them apart; it grows by one at a time, so that all of them occur.   *)
EXTENDS Naturals, Sequences, SequencesExt, FiniteSetsExt

CONSTANT MaxLength   \* bound: characters of a snippet

VARIABLE code

Quotes == {"\"", "'"}
Characters == Quotes \union {"/", "*", "\\", "\n", "x"}

DetectInit == code = <<>>
Type == Len(code) < MaxLength /\ \E c \in Characters : code' = Append(code, c)

DetectSpec == DetectInit /\ [][Type]_code

HasPrefix(text, i, prefix) ==
  i + Len(prefix) <= Len(text) + 1 /\ \A k \in DOMAIN prefix : text[i + k - 1] = prefix[k]

indexFrom(text, i, sub) ==
  Min({k \in i..Len(text) : HasPrefix(text, k, sub)} \union {Len(text) + 1})

\* The end of a block comment, which may have others in it.
CommentEnd(text, start) ==
  LET n == Len(text)
      end[j \in 1..(n + 1)] == [depth \in Nat |->
        IF depth = 0 \/ j > n THEN j
        ELSE IF HasPrefix(text, j, <<"/", "*">>) THEN end[j + 2][depth + 1]
        ELSE IF HasPrefix(text, j, <<"*", "/">>) THEN end[j + 2][depth - 1]
        ELSE end[j + 1][depth]]
  IN  end[start + 2][1]

\* Mutant of LiteralEnd: a literal goes on for as long as it takes.
LiteralEndAnywhere(text, start) == indexFrom(text, start + 1, <<text[start]>>)

\* Where the quote's line or literal ends; an escape hides what follows it.
LiteralEnd(text, start) ==
  LET n == Len(text)
      end[j \in 1..(n + 2)] ==
        IF j > n \/ text[j] \in {text[start], "\n"} THEN Min({j, n + 1})
        ELSE IF text[j] = "\\" THEN end[j + 2]
        ELSE end[j + 1]
  IN  end[start + 1]

\* One round of the scan, at i: what it blanks out, and where it goes on.
Round(text, i) ==
  LET n == Len(text)
      triple == [k \in 1..3 |-> text[i]]
      line == indexFrom(text, i, <<"\n">>)
      comment == CommentEnd(text, i)
      three == indexFrom(text, i + 3, triple)
      literal == LiteralEnd(text, i)
      quoted == text[i] \in Quotes
  IN  IF HasPrefix(text, i, <<"/", "/">>) THEN [blank |-> i..(line - 1), next |-> line]
      ELSE IF HasPrefix(text, i, <<"/", "*">>)
      THEN [blank |-> i..(comment - 1), next |-> comment]
      ELSE IF quoted /\ HasPrefix(text, i, triple)
      THEN [blank |-> (i + 3)..(three - 1), next |-> Min({three + 3, n + 1})]
      ELSE IF quoted /\ literal <= n /\ text[literal] = text[i]
      THEN [blank |-> (i + 1)..(literal - 1), next |-> literal + 1]
      ELSE [blank |-> {}, next |-> i + 1]   \* a lone quote included

stripNonCode(text) ==
  LET n == Len(text)
      blank[i \in 1..(n + 1)] ==   \* from i on, where the scan is between two lexemes
        IF i > n THEN {} ELSE Round(text, i).blank \union blank[Round(text, i).next]
  IN  [i \in 1..n |-> IF i \in blank[1] /\ text[i] # "\n" THEN " " ELSE text[i]]

-----------------------------------------------------------------------------
(* What comes after a line does not change what is left of it: a lone quote  *)
(* never pairs with one of a later line, whatever is there. An escape at the *)
(* end of a line hides the line break from the scanner.                      *)
LinesAreFinal(text) ==
  \A k \in DOMAIN text :
    text[k] = "\n" /\ (k > 1 => text[k - 1] # "\\") =>
      SubSeq(stripNonCode(text), 1, k) = stripNonCode(SubSeq(text, 1, k))

(* A literal that is closed on its line hides what is in it, comment openers *)
(* and the other quote included, and what follows it is read as if it were   *)
(* not there. Here it comes after ordinary characters.                       *)
LiteralsAreOpaque(text) ==
  \A i, j \in DOMAIN text :
    LET body == SubSeq(text, i + 1, j - 1)
        after == SubSeq(text, j + 1, Len(text))
        ordinary == \A k \in 1..(i - 1) : text[k] \in {"x", "\n"}
        closed == text[i] \in Quotes /\ text[j] = text[i]
                    /\ ToSet(body) \intersect {text[i], "\\", "\n"} = {}
    IN  i + 1 < j /\ ordinary /\ closed =>
          stripNonCode(text) = SubSeq(text, 1, i) \o [k \in DOMAIN body |-> " "]
                                 \o <<text[j]>> \o stripNonCode(after)

(* The comment at detect.go:329-335: line breaks stay where the patterns     *)
(* expect them, and strings are tracked so that a literal such as            *)
(* @WebFilter("/*") does not open a comment that swallows the rest.          *)
StrippingIsLocal == LinesAreFinal(code) /\ LiteralsAreOpaque(code)
=============================================================================
