--------------------------- MODULE MCReportDetail ---------------------------
(***************************************************************************)
(* ReportDetail with the reports of two tasks.  The first one's workflow   *)
(* keeps to its format, with headings on lines of their own or glued to    *)
(* the line before.  The second one's keeps to nothing: any two lines      *)
(* after the first statement.                                              *)
(***************************************************************************)
EXTENDS ReportDetail, TLC

CONSTANTS t1, t2

MCTask == {t1, t2}

OwnLine(kinds) == [i \in DOMAIN kinds |-> [kind |-> kinds[i], glued |-> FALSE]]
OnOneLine(kinds) ==
    [i \in DOMAIN kinds |-> [kind |-> kinds[i],
                             glued |-> kinds[i] \in {"group", "entry"}]]

Start == <<"title", "overview", "plain", "levels", "bullet", "details">>
Statement == <<"entry", "sql", "risk", "result", "point", "point">>
End4 == <<"advice", "row", "rule", "row">>

Short == Start \o <<"group">> \o Statement \o End4
Long == Start \o <<"group", "none", "group">> \o Statement \o Statement \o End4

Loose == {"group", "entry", "sql", "risk", "point", "none", "subsection"}

MCReportsOf ==
    (t1 :> {OwnLine(Short), OnOneLine(Long)}) @@
    (t2 :> {OnOneLine(<<"details", "group", "entry", "sql">> \o rest) :
              rest \in [1..2 -> Loose]})
=============================================================================
