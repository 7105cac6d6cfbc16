----------------------------- MODULE ReportText -----------------------------
(***************************************************************************)
(* The text of a workflow's report on its way to the detail page: the      *)
(* backend normalises it (_normalize_report_markdown of report_provider),  *)
(* and the page takes it apart (parseRemoteReport, parseDetailGroups,      *)
(* parseDetailEntries, parseMarkdownTable of AnalysisReportDetail).        *)
(*                                                                         *)
(* A text is a sequence of kinds of lines, and what the page shows of it   *)
(* is a set of line numbers.  Blank lines are left out: every parser drops *)
(* them.  The kinds, as the page's tests of a line tell them apart:        *)
(*   title       # ...                                                     *)
(*   overview, levels, details, advice   the four sections the page reads  *)
(*   subsection  any other ## ...                                          *)
(*   group, entry   ### ... and #### ...                                   *)
(*   sql, risk, result   the bullets that name a statement, its risk, and  *)
(*                       its analysis                                      *)
(*   bullet      any other - ...                                           *)
(*   point       1. ...                                                    *)
(*   none        *(...)*, which says that a group is empty                 *)
(*   row, rule   a line of a table, and the one under its header           *)
(*   plain       anything else, a single # too                             *)
(***************************************************************************)
EXTENDS Naturals, FiniteSets, FiniteSetsExt, SequencesExt

Heading == {"overview", "levels", "details", "advice", "subsection"}
Kind == Heading \cup {"title", "group", "entry", "sql", "risk", "result", "bullet",
                   "point", "none", "row", "rule", "plain"}

\* What the workflow writes: a heading may be glued to the end of a line.
Written == [kind : Kind, glued : BOOLEAN]

\* Mutant: without the test of what is before, each heading loses a #.
CutAny(l) ==
    IF l.kind \notin {"group", "entry"} THEN <<l.kind>>
    ELSE <<"plain", IF l.kind = "group" THEN "subsection" ELSE "group">>

\* The substitution that puts a glued heading on a line of its own looks one
\* character back: in a heading of three or four #s that is already on a line
\* of its own it finds the second #, and cuts the first one off.
Cut(l) ==
    IF l.glued \/ l.kind \notin {"group", "entry"} THEN <<l.kind>>
    ELSE <<"plain", IF l.kind = "group" THEN "subsection" ELSE "group">>

Normalize(w) == FlattenSeq([i \in DOMAIN w |-> Cut(w[i])])

----------------------------------------------------------------------------
Lines(text, K) == {i \in DOMAIN text : text[i] \in K}
Latest(S) == IF S = {} THEN 0 ELSE Max(S)
Above(i, S) == Latest({j \in S : j < i})

\* The elements of S that stand under the element s of "starts".
Under(S, s, starts) == {i \in S \ starts : Above(i, starts) = s}

\* sectionMap: the lines under a heading, the last one of its name.
Section(text, name) ==
    LET named == Lines(text, {name})
    IN  IF named = {} THEN {}
        ELSE Under(DOMAIN text, Max(named), Lines(text, Heading))

\* The lines of each group of the details.  Those before the first group
\* belong to none and are forgotten.
Groups(text) ==
    LET details == Section(text, "details")
        heads == details \cap Lines(text, {"group"})
    IN  [g \in heads |-> Under(details, g, heads)]

\* The lines that say that a group is empty, and empty it.
Says(text, lines) == lines \cap Lines(text, {"none"})

\* Mutant: a heading of the fourth level does not start a new item.
ItemsByGroup(text) ==
    LET groups == Groups(text)
    IN  [g \in {h \in DOMAIN groups : groups[h] # {} /\ Says(text, groups[h]) = {}} |->
            groups[g]]

\* The lines of each item of the groups that are not empty: an item starts at
\* a heading of the fourth level, or at the group itself, if lines follow it.
Items(text) ==
    LET groups == Groups(text)
        full == {g \in DOMAIN groups : Says(text, groups[g]) = {}}
        lines == UNION {groups[g] : g \in full}
        entries == lines \cap Lines(text, {"entry"})
        starts == entries \cup {g \in full : g + 1 \in lines \ entries}
    IN  [s \in starts |-> Under(lines, s, starts)]

\* The lines of an item that its points leave: a point takes every line up to
\* the next point, bullets too.
Left(text, body) ==
    LET points == body \cap Lines(text, {"point"})
    IN  {i \in body : Above(i, points) = 0}

\* Of several statements, or risks, the last one remains.
Field(text, body, kind) == Latest(Left(text, body) \cap Lines(text, {kind}))

\* Mutant: what follows the first point is lost.
ItemFirstLines(text, body) ==
    ({Field(text, body, "sql"), Field(text, body, "risk")} \ {0})
    \cup (Left(text, body) \ Lines(text, {"sql", "risk", "result"}))

\* What an item shows: its statement, its risk, its other bullets, its points.
Item(text, body) ==
    ({Field(text, body, "sql"), Field(text, body, "risk")} \ {0})
    \cup (Left(text, body) \ Lines(text, {"sql", "risk", "result"}))
    \cup (body \ Left(text, body))

\* The page's groups: an empty one shows only the line that says so.
GroupsShown(text) ==
    LET groups == Groups(text)
        items == Items(text)
    IN  DOMAIN groups \cup DOMAIN items
        \cup {Min(Says(text, groups[g])) :
                g \in {h \in DOMAIN groups : Says(text, groups[h]) # {}}}
        \cup UNION {Item(text, items[i]) : i \in DOMAIN items}

TableShown(text) ==
    LET table == Section(text, "advice") \cap Lines(text, {"row", "rule"})
        body == table \ {Min(table)}
    IN  IF Cardinality(table) < 3 THEN {} ELSE table \ {Min(body)}

\* A text without any section is shown as it is.
Structured(text) == Lines(text, Heading) # {}

\* The lines of the text that can be read on the page.  A list beside it, with the
\* statements stored with the task, does not come from this text.
Shown(text) ==
    IF ~Structured(text) THEN DOMAIN text
    ELSE {i \in Lines(text, {"title"}) : Above(i, Lines(text, {"title"})) = 0}
         \cup Section(text, "overview")
         \cup (Section(text, "levels") \cap
                 Lines(text, {"sql", "risk", "result", "bullet"}))
         \cup GroupsShown(text)
         \cup TableShown(text)
=============================================================================
