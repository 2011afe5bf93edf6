---------------------------- MODULE TokenWindows ----------------------------
(***************************************************************************)
(* How the text of a section is cut into windows of tokens                 *)
(* (app/indexing/tokenization.py), each of which is embedded and searched  *)
(* on its own.                                                             *)
(*                                                                         *)
(* A text is what matters of it here: its number of tokens, and the tokens *)
(* each of its characters has bytes in.  A token holds at least one byte   *)
(* and a character has at most four, so a character lies in one to four    *)
(* adjacent tokens, and a token may hold parts of several characters.      *)
(* Tokens are numbered from 0; a window is [start, end) in tokens.  White  *)
(* space at the edges of a window is stripped and is not counted as a      *)
(* character.                                                              *)
(***************************************************************************)
EXTENDS Integers

\* A character of UTF-8 has at most four bytes.
MaxBytes == 4

\* Slip: an overlap of two tokens is accepted.
ShortOverlap == 2

MIN_LOSSLESS_OVERLAP == 3

\* The arguments split_token_windows does not raise a ValueError for.
Splits(limit, overlap) ==
  limit > 0 /\ overlap >= MIN_LOSSLESS_OVERLAP /\ overlap < limit

\* Where the characters of a text of n tokens may lie: any of the pairs
\* [first, last] is possible for some text.
Characters(n) ==
  {c \in [first : 0 .. n - 1, last : 0 .. n - 1] :
     c.first <= c.last /\ c.last < c.first + MaxBytes}

Smaller(a, b) == IF a <= b THEN a ELSE b

\* The k-th window of a text of n tokens.
Window(k, n, limit, overlap) ==
  LET start == k * (limit - overlap)
  IN  [start |-> start, end |-> Smaller(n, start + limit)]

\* The windows of a text: one window follows another until one reaches the
\* end.  No text, no window.
Windows(n, limit, overlap) ==
  {Window(k, n, limit, overlap) :
     k \in {i \in 0 .. n - 1 : i = 0 \/ (i - 1) * (limit - overlap) + limit < n}}

\* _safe_decode drops the bytes of a character that is cut by an edge.
Decodes(window, c) == window.start <= c.first /\ c.last < window.end

\* Every character of the text is read in full from one of the windows.
Lossless(n, limit, overlap) ==
  \A c \in Characters(n) : \E w \in Windows(n, limit, overlap) : Decodes(w, c)

\* No window is longer than the limit, and none repeats what another holds.
Tight(n, limit, overlap) ==
  \A w \in Windows(n, limit, overlap) :
     /\ w.start < w.end /\ w.end <= w.start + limit
     /\ \A v \in Windows(n, limit, overlap) :
           v.start <= w.start /\ w.end <= v.end => v = w
=============================================================================
