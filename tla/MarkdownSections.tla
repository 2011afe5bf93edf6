-------------------------- MODULE MarkdownSections --------------------------
(***************************************************************************)
(* How a Markdown document is cut into sections, and how each section gets *)
(* the slug it is cited and stored by                                      *)
(* (app/indexing/markdown_parser.py).                                      *)
(*                                                                         *)
(* A line is a record: its kind, and what the parser tells apart within    *)
(* the kind.  "heading" has a level and the slug of its text; "fence" a    *)
(* marker, the number of them, whether the line holds nothing else, and    *)
(* whether it may open a block, which an indented one may not; "rule" is a *)
(* line ---; "meta" is "key: value" with a known key; "blank" is an empty  *)
(* line, "space" one of white space, "text" any other.  A slug is the      *)
(* sequence of its words: the code joins them with "-", which no word      *)
(* contains, so slugs are equal when the sequences are.  A word is an      *)
(* integer: the numeral of a number that number, any other word a negative *)
(* one.                                                                    *)
(***************************************************************************)
EXTENDS Integers, Sequences, FiniteSets, SequencesExt

Heading(level, slug) == [kind |-> "heading", level |-> level, slug |-> slug]
Fence(marker, length, bare, opens) ==
  [kind |-> "fence", marker |-> marker, length |-> length, bare |-> bare, opens |-> opens]
Plain(kind) == [kind |-> kind]

NoFence == Fence("none", 0, FALSE, FALSE)
NoHeading == Heading(0, << >>)

\* What strip leaves nothing of.
Empty(line) == line.kind \in {"blank", "space"}

HasContent(lines) == \E i \in DOMAIN lines : ~Empty(lines[i])

----------------------------------------------------------------------------
(* The metadata block at the head of a document. *)

\* The lines between the first line, a rule, and the next rule are metadata
\* when there are some and each has a known key.
MetadataEnd(lines) ==
  LET rules == {i \in 2 .. Len(lines) : lines[i].kind = "rule"}
      close == CHOOSE i \in rules : \A j \in rules : i <= j
      block == SelectSeq(SubSeq(lines, 2, close - 1), LAMBDA l : ~Empty(l))
  IN  IF /\ lines # << >> /\ lines[1].kind = "rule" /\ rules # {}
         /\ block # << >> /\ \A i \in DOMAIN block : block[i].kind = "meta"
      THEN close ELSE 0

\* Slip: what stands between two rules at the head is metadata, whatever it is.
HeadDropped(lines) ==
  LET rules == {i \in 2 .. Len(lines) : lines[i].kind = "rule"}
  IN  IF lines # << >> /\ lines[1].kind = "rule" /\ rules # {}
      THEN SubSeq(lines, (CHOOSE i \in rules : \A j \in rules : i <= j) + 1, Len(lines))
      ELSE lines

\* Leading empty lines go with the metadata, one of white space does not.
StripFrontmatter(lines) ==
  LET rest == SubSeq(lines, MetadataEnd(lines) + 1, Len(lines))
      first == {i \in DOMAIN rest : rest[i].kind # "blank"}
  IN  IF MetadataEnd(lines) = 0 THEN lines
      ELSE IF first = {} THEN << >>
      ELSE SubSeq(rest, CHOOSE i \in first : \A j \in first : i <= j, Len(rest))

----------------------------------------------------------------------------
(* The cut into sections. *)

Start == [fence |-> NoFence, heading |-> NoHeading, lines |-> << >>, raw |-> << >>]

Section(heading, lines) ==
  [slug |-> heading.slug, level |-> heading.level, lines |-> lines]

\* What comes before the first heading becomes a section named after the
\* file, under a heading and an empty line made for it.
Synthetic(stem, lines) ==
  Section(Heading(1, stem), <<Plain("made"), Plain("made")>> \o lines)

\* The section that is open ends; a preamble of empty lines makes none.
Closed(stem, s) ==
  IF s.heading # NoHeading THEN Append(s.raw, Section(s.heading, s.lines))
  ELSE IF HasContent(s.lines) THEN Append(s.raw, Synthetic(stem, s.lines))
  ELSE s.raw

\* A line of nothing but the marker, as many as opened the fence or more.
Closes(fence, line) ==
  /\ line.kind = "fence" /\ line.bare
  /\ line.marker = fence.marker /\ line.length >= fence.length

\* One line: part of a fenced block, the opening of one, a heading, or text.
Read(stem, s, line) ==
  LET kept == [s EXCEPT !.lines = Append(@, line)]
  IN  CASE s.fence # NoFence ->
             IF Closes(s.fence, line) THEN [kept EXCEPT !.fence = NoFence] ELSE kept
        [] s.fence = NoFence /\ line.kind = "fence" /\ line.opens -> [kept EXCEPT !.fence = line]
        [] s.fence = NoFence /\ line.kind = "heading" ->
             [s EXCEPT !.heading = line, !.lines = <<line>>, !.raw = Closed(stem, s)]
        [] OTHER -> kept

\* The parser after n lines of the body.
Reading(stem, body) ==
  LET after[n \in 0 .. Len(body)] ==
        IF n = 0 THEN Start ELSE Read(stem, after[n - 1], body[n])
  IN  after

RawSections(stem, lines) ==
  LET body == StripFrontmatter(lines)
  IN  Closed(stem, Reading(stem, body)[Len(body)])

----------------------------------------------------------------------------
(* The slugs. *)

\* Slip: the second of a name is numbered, whether or not the number is free.
NumberedTwo(slug, used) == IF slug \notin used THEN slug ELSE Append(slug, 2)

\* The slug, or the slug and the first number from 2 on that is free.
UniqueSlug(slug, used) ==
  IF slug \notin used THEN slug
  ELSE Append(slug, CHOOSE n \in 2 .. Cardinality(used) + 2 :
         Append(slug, n) \notin used /\ \A m \in 2 .. n - 1 : Append(slug, m) \in used)

\* The headings a section of this level stands under: while the last of the
\* stack is of this level or deeper it is taken off.
Ancestors(stack, level) ==
  LET shallow == {i \in DOMAIN stack : stack[i].level < level}
      last == IF shallow = {} THEN 0 ELSE CHOOSE i \in shallow : \A j \in shallow : j <= i
  IN  SubSeq(stack, 1, last)

\* A name that occurs twice in the document is prefixed with its ancestors'.
NamedBy(raw, stack, section) ==
  LET repeated == Cardinality({i \in DOMAIN raw : raw[i].slug = section.slug}) > 1
  IN  IF repeated
      THEN FlattenSeq([i \in DOMAIN stack |-> stack[i].slug]) \o section.slug
      ELSE section.slug

Assign(raw, state, section) ==
  LET stack == Ancestors(state.stack, section.level)
      slug  == UniqueSlug(NamedBy(raw, stack, section), state.used)
      named == [section EXCEPT !.slug = slug]
  IN  [used |-> state.used \cup {slug}, stack |-> Append(stack, named),
       sections |-> Append(state.sections, named)]

\* What is assigned after n sections.
Naming(raw) ==
  LET after[n \in 0 .. Len(raw)] ==
        IF n = 0 THEN [used |-> {}, stack |-> << >>, sections |-> << >>]
        ELSE Assign(raw, after[n - 1], raw[n])
  IN  after

ParseSections(stem, lines) ==
  LET raw == RawSections(stem, lines)
  IN  Naming(raw)[Len(raw)].sections

----------------------------------------------------------------------------
(* What is expected of the sections. *)

\* A section is stored and cited by its slug: no two of a document share one.
SlugsDistinct(stem, lines) ==
  LET sections == ParseSections(stem, lines)
  IN  \A i, j \in DOMAIN sections : sections[i].slug = sections[j].slug => i = j

\* What a section holds of the document: all but a heading made for it.
OwnLines(section) ==
  LET made == Cardinality({i \in DOMAIN section.lines : section.lines[i].kind = "made"})
  IN  SubSeq(section.lines, made + 1, Len(section.lines))

\* The sections hold every line of the document in its order, but for the
\* metadata with the empty lines after it, and a preamble of empty lines.
NothingLost(stem, lines) ==
  LET sections == ParseSections(stem, lines)
      read    == FlattenSeq([i \in DOMAIN sections |-> OwnLines(sections[i])])
      skipped == Len(lines) - Len(read)
  IN  /\ read = SubSeq(lines, skipped + 1, Len(lines))
      /\ \A i \in MetadataEnd(lines) + 1 .. skipped : Empty(lines[i])
=============================================================================
