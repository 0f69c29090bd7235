----------------------------- MODULE Providers ------------------------------
(***************************************************************************)
(* The observability providers and the LLMs as an analysis meets them: what *)
(* each is asked, what it makes evidence of, and which of its failures its  *)
(* client tries again.                                                      *)
(***************************************************************************)
EXTENDS Policies

CONSTANT Now    \* the clock, of a request without an end

ASSUME ProvidersAssumption == Now \in Nat \ {0}

\* What a call comes to when it does not succeed: no answer, a status, or an
\* answer that cannot be used.
Failure == {"lost", "429", "5xx", "4xx", "garbled"}

-----------------------------------------------------------------------------
(* The collectors.  A template is asked for each service; every one here is *)
(* the default of its provider.  error: the name of the evidence or the     *)
(* summary made of it mentions an error, whatever the value is.             *)

Template(name, unit, error) == [name |-> name, unit |-> unit, error |-> error]

Prometheus ==
    [signal |-> "metrics", templates |-> <<Template("service_up", "ratio", FALSE)>>]

Loki ==
    [signal |-> "logs", templates |-> <<Template("error_log_volume", "other", TRUE)>>]

Elasticsearch ==
    [signal |-> "logs", templates |-> <<Template("error_log_count", "other", TRUE)>>]

Datadog ==
    [signal |-> "metrics",
     templates |-> <<Template("service_request_latency_avg", "other", FALSE),
                     Template("service_error_rate", "other", TRUE)>>]

Dynatrace ==
    [signal |-> "metrics",
     templates |-> <<Template("service_response_time_avg", "other", FALSE),
                     Template("service_error_rate", "other", TRUE)>>]

NewRelic ==
    [signal |-> "metrics",
     templates |-> <<Template("transaction_duration_p95", "other", FALSE),
                     Template("error_rate", "errors", TRUE)>>]

Jaeger ==
    [signal |-> "traces", templates |-> <<Template("jaeger_trace_sample", "other", FALSE)>>]

Collector == [prometheus |-> Prometheus, loki |-> Loki, elasticsearch |-> Elasticsearch,
              datadog |-> Datadog, dynatrace |-> Dynatrace, newrelic |-> NewRelic,
              jaeger |-> Jaeger]

Templates == UNION {Range(Collector[p].templates) : p \in DOMAIN Collector}

\* id is the number in ev_1, ev_2, ..., zero before it is assigned; error says
\* that a name, summary or attribute mentions an error; a severity may be of
\* no known kind; zero is a time that is not given.
Evidence ==
    [id : Nat, name : {t.name : t \in Templates}, signal : Signal, service : Service,
     provider : DOMAIN Collector, severity : Severity \cup {"none"}, score : Nat,
     unit : {"errors", "ratio", "other"}, error : BOOLEAN, observed : Nat]

\* What the clients make of an answer: a count, the traces found, or samples.
Trace == [duration : Nat, errors : BOOLEAN, start : Nat]

Sample == [value : Nat, service : Service \cup {""}, time : Nat]

Answer(provider) ==
    CASE provider = "jaeger"        -> Seq(Trace)
      [] provider = "elasticsearch" -> Nat
      [] OTHER                      -> Seq(Sample)

\* shouldCollect.
Asks(request, signal) == request.signals = <<>> \/ signal \in Range(request.signals)

\* nonEmpty.
NonEmpty(services) ==
    LET trimmed == [i \in DOMAIN services |-> Trimmed[services[i]]]
    IN  Items(trimmed, InOrder({i \in DOMAIN services : trimmed[i] # ""}))

\* uniqueServices.  The others ask for a service as often as it is named.
UniqueServices(services) ==
    Items(services, InOrder({i \in DOMAIN services :
                               \A j \in 1..(i - 1) : services[j] # services[i]}))

Query == [service : Service, template : Templates]

\* The queries of one collector, in the order they are made.
Queries(provider, request) ==
    LET asked == NonEmpty(request.services)
        services == IF provider = "jaeger" THEN UniqueServices(asked) ELSE asked
        templates == Collector[provider].templates
        n == Len(templates)
    IN  IF ~Asks(request, Collector[provider].signal) THEN <<>>
        ELSE [i \in 1..(n * Len(services)) |->
                [service |-> services[((i - 1) \div n) + 1],
                 template |-> templates[((i - 1) % n) + 1]]]

End(request) == IF request.end = 0 THEN Now ELSE request.end

Item(provider, query, service, severity, score, error, observed) ==
    [id |-> 0, name |-> query.template.name, signal |-> Collector[provider].signal,
     service |-> service, provider |-> provider, severity |-> severity, score |-> score,
     unit |-> query.template.unit, error |-> query.template.error \/ error,
     observed |-> observed]

\* A sample of Prometheus, Loki, Datadog or Dynatrace.
SampleToEvidence(provider, query, sample, request) ==
    Item(provider, query, query.service, "none", sample.value, FALSE,
         IF sample.time = 0 THEN End(request) ELSE sample.time)

\* A row of New Relic may name a service of its own, blanks and all.
RowToEvidence(query, row, request) ==
    Item("newrelic", query, IF row.service \in Service THEN row.service ELSE query.service,
         "none", row.value, FALSE, IF row.time = 0 THEN End(request) ELSE row.time)

\* Elasticsearch counts; nothing found is no evidence.
CountToEvidence(query, count, request) ==
    IF count = 0 THEN <<>>
    ELSE <<Item("elasticsearch", query, query.service, "none", count, FALSE, End(request))>>

\* Of the traces Jaeger finds, the longest speaks for the service.
TraceEvidence(query, traces) ==
    IF traces = <<>> THEN <<>>
    ELSE LET longest == CHOOSE i \in DOMAIN traces :
                            \A j \in DOMAIN traces :
                                \/ traces[i].duration > traces[j].duration
                                \/ traces[i].duration = traces[j].duration /\ i <= j
             trace == traces[longest]
         IN  <<Item("jaeger", query, query.service, IF trace.errors THEN "high" ELSE "low",
                    1, trace.errors, trace.start)>>

\* What a collector makes of one answer.
ToEvidence(provider, query, answer, request) ==
    CASE provider = "jaeger"        -> TraceEvidence(query, answer)
      [] provider = "elasticsearch" -> CountToEvidence(query, answer, request)
      [] provider = "newrelic"      ->
            [i \in DOMAIN answer |-> RowToEvidence(query, answer[i], request)]
      [] OTHER                      ->
            [i \in DOMAIN answer |-> SampleToEvidence(provider, query, answer[i], request)]

-----------------------------------------------------------------------------
(* The clients: the failures each calls transient.                          *)

PrometheusRetries == {"lost", "5xx"}
LokiRetries == {"lost", "5xx"}
ElasticsearchRetries == {"lost", "5xx"}
DatadogRetries == {"lost", "5xx"}
DynatraceRetries == {"lost", "5xx"}
NewRelicRetries == {"lost", "5xx"}
JaegerRetries == {"lost", "5xx"}
OpenAIRetries == {"lost", "429", "5xx"}
AnthropicRetries == {"lost", "429", "5xx"}
OllamaRetries == {"lost", "5xx"}

\* isRetryable.
Retried == [prometheus |-> PrometheusRetries, loki |-> LokiRetries,
            elasticsearch |-> ElasticsearchRetries, datadog |-> DatadogRetries,
            dynatrace |-> DynatraceRetries, newrelic |-> NewRelicRetries,
            jaeger |-> JaegerRetries, openai |-> OpenAIRetries,
            anthropic |-> AnthropicRetries, ollama |-> OllamaRetries]
=============================================================================
