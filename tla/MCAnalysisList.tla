--------------------------- MODULE MCAnalysisList ---------------------------
EXTENDS AnalysisList, TLC

About(severity, confidence, services, signal, words) ==
    [severity |-> severity, confidence |-> confidence, services |-> services,
     evidence |-> {[signal |-> signal, provider |-> "loki"]}, words |-> words]

MCContents == {About("high", "low", {1, 2}, "logs", {"timeout"}),
               About("info", "low", {2}, "traces", {})}

\* A collation that sorts the names the other way round.
MCCollation == [s \in {1, 2} |-> 3 - s]

Asking(limit, offset, sort, order, filter) ==
    [limit |-> limit, offset |-> offset, sort |-> sort, order |-> order, filter |-> filter]

\* The defaults; every order and filter; a limit above the greatest; offsets
\* past the end, past 32 and at the end of 64 bits.
MCQueries ==
    {Asking(0, 0, "createdAt", "desc", NoFilter),
     Asking(1, 0, "severity", "asc", [NoFilter EXCEPT !.from = 0, !.to = 1]),
     Asking(5, 0, "confidence", "desc", [NoFilter EXCEPT !.service = 2, !.provider = "loki"]),
     Asking(1, 1, "severity", "desc",
            [NoFilter EXCEPT !.severity = "high", !.text = "timeout", !.signal = "logs"]),
     Asking(1, 4, "createdAt", "asc", [NoFilter EXCEPT !.text = Wild]),
     Asking(1, 15, "createdAt", "asc", NoFilter)}
=============================================================================
