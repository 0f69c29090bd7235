---------------------------- MODULE MCDiagnosis -----------------------------
EXTENDS Diagnosis

MCTrimmed == [s \in Service |-> CASE s = "Cart " -> "Cart" [] s = " " -> "" [] OTHER -> s]

MCFolded == [s \in Service |-> IF s \in {"Cart", "Cart "} THEN "cart" ELSE s]

\* Elasticsearch is asked for a count, New Relic for a duration and a count of
\* errors, each as often as a service is named; Jaeger once for each service.
MCCollectors == <<"elasticsearch", "newrelic", "jaeger">>

Asking(services, signals, start, end) ==
    [services |-> services, signals |-> signals, start |-> start, end |-> end]

\* Two services; one named twice and a blank, with gaps; none, with a gap; a
\* window that ends before it starts.
MCRequests ==
    {Asking(<<"cart", "pay">>, <<>>, 2, 4),
     Asking(<<"cart", " ", "cart">>, <<"traces", "metrics", "logs", "apm">>, 0, 0),
     Asking(<<>>, <<"logs">>, 2, 0),
     Asking(<<"cart">>, <<>>, 3, 2)}

Row(value, service) == [value |-> value, service |-> service, time |-> 0]

Spans(duration, errors, start) == [duration |-> duration, errors |-> errors, start |-> start]

\* None or one; nothing, a row of another service or two rows, one of which
\* spells a service its own way; nothing, a trace from before the window or the
\* longer one of two.
MCAnswers ==
    [elasticsearch |-> {0, 1},
     newrelic |-> {<<>>, <<Row(3, "mail")>>, <<Row(0, ""), Row(2, "Cart ")>>},
     jaeger   |-> {<<>>, <<Spans(5, FALSE, 1)>>, <<Spans(5, FALSE, 3), Spans(7, TRUE, 3)>>}]

Do(kind, priority, ids) ==
    [action |-> [kind |-> kind, about |-> ""], priority |-> priority, ids |-> ids]

\* All it could invent; modest and right; nothing.
MCPayloads ==
    {[severity |-> "none", services |-> {"cart", "ghost"},
      causes |-> {{"error_rate", "ghost_rate"}, {"ghost_rate"}},
      actions |-> <<Do("restart", 2, {1, 99}), Do("", 1, {1}), Do("restart", 1, {2}),
                    Do("scale", 5, {99})>>],
     [severity |-> "critical", services |-> {"pay"}, causes |-> {{"jaeger_trace_sample"}},
      actions |-> <<Do("inspect", 1, {2})>>],
     [severity |-> "low", services |-> {}, causes |-> {}, actions |-> <<>>]}
=============================================================================
