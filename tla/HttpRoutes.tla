----------------------------- MODULE HttpRoutes -----------------------------
(***************************************************************************)
(* The HTTP surface of internal/adapters/inbound/http: what each handler    *)
(* does (router.go, auth_handlers.go, admin_handlers.go, setup_handlers.go, *)
(* webhook_delivery_handlers.go, provider_config_handlers.go) and where the *)
(* router puts it.  What the handlers answer, and what their use cases do   *)
(* to jobs, chats, webhooks and configurations, is told apart only by its   *)
(* kind; accounts and API keys, on which later requests depend, are the     *)
(* state of HttpGateway.                                                    *)
(***************************************************************************)

\* What a handler does once it runs:
\*   answer     cannot fail
\*   read       may refuse its input, or fail to read
\*   write      may refuse, change something, or fail before or after it did
\*   stream     as write, but the status is sent before anything is done
\*   logout     changes what it can and answers well whatever happens
\*   login      signs an access token
\*   bootstrap  creates the first administrator, then signs a token
\*   user, key  change an account, an API key
Effect == {"answer", "read", "write", "stream", "logout", "login", "bootstrap",
           "user", "key"}

\* The handlers of a name that behave alike; annotates: on success they leave
\* an annotation for the audit entry.
Handlers(names, effect, annotates) ==
    [name : names, effect : {effect}, annotates : {annotates}]

-----------------------------------------------------------------------------
(* The handlers, in the order of the source.                                *)

Probes == Handlers({"health", "liveness", "readiness"}, "answer", FALSE)

Unrouted == Handlers({"notFound", "methodNotAllowed", "capabilities"}, "answer", FALSE)

Submission == Handlers({"submitAnalysis"}, "write", FALSE)

Cancellation == Handlers({"cancelAnalysisJob"}, "write", FALSE)

JobReads == Handlers({"getAnalysisJob", "servicesAutocomplete", "analysisStats"},
                     "read", FALSE)

AnalysisReads == Handlers({"listAnalyses", "getAnalysis", "exportAnalysis", "getTraces"},
                          "read", FALSE)

\* The client chooses with its Accept header.
Questions == Handlers({"chat"}, "write", FALSE) \cup Handlers({"chatStream"}, "stream", FALSE)

History == Handlers({"chatHistory"}, "read", FALSE)

Regeneration == Handlers({"chatRegenerate"}, "write", TRUE)

Feedback == Handlers({"chatFeedback"}, "write", FALSE)

Telemetry == Handlers({"telemetry"}, "read", FALSE)

Setup == Handlers({"setupStatus"}, "read", FALSE)
         \cup Handlers({"bootstrapAdmin"}, "bootstrap", TRUE)

\* A refusal of the credentials is annotated as well.
Logins == Handlers({"login"}, "login", TRUE)

Logout == Handlers({"logout"}, "logout", TRUE)

Refreshes == Handlers({"refresh"}, "login", FALSE)

OwnProfile == Handlers({"me"}, "read", FALSE)
              \cup Handlers({"updateMe", "changePassword"}, "write", FALSE)

OwnPreferences == Handlers({"getPreferences"}, "read", FALSE)
                  \cup Handlers({"updatePreferences"}, "write", FALSE)

OwnSessions == Handlers({"listSessions"}, "answer", FALSE)

OwnKeys == Handlers({"listMyKeys"}, "answer", FALSE)

UserAdministration ==
    Handlers({"listUsers", "getUser"}, "read", FALSE)
    \cup Handlers({"createUser", "updateUser", "deleteUser"}, "user", TRUE)

KeyAdministration == Handlers({"listAPIKeys"}, "read", FALSE)
                     \cup Handlers({"issueAPIKey", "revokeAPIKey"}, "key", TRUE)

WebhookAdministration ==
    Handlers({"listWebhooks"}, "read", FALSE)
    \cup Handlers({"createWebhook", "updateWebhook", "deleteWebhook"}, "write", TRUE)

AuditReads == Handlers({"listAudit"}, "read", FALSE)

Deletion == Handlers({"deleteAnalysis"}, "write", TRUE)

Retention == Handlers({"purgeAnalyses"}, "write", TRUE)
             \cup Handlers({"retentionPolicy"}, "answer", FALSE)
             \cup Handlers({"retentionPreview"}, "read", FALSE)

DeliveryAdministration ==
    Handlers({"listWebhookDeliveries"}, "read", FALSE)
    \cup Handlers({"testWebhook", "retryWebhookDelivery", "replayWebhookDelivery"},
                  "write", TRUE)

\* A connection test changes no row; it is annotated like a change.
ProviderAdministration ==
    Handlers({"listProviderConfigs", "getProviderConfig"}, "read", FALSE)
    \cup Handlers({"testProviderConfig"}, "read", TRUE)
    \cup Handlers({"createProviderConfig", "updateProviderConfig", "deleteProviderConfig",
                   "activateProviderConfig", "deactivateProviderConfig"}, "write", TRUE)

LLMAdministration ==
    Handlers({"listLLMConfigs", "getLLMConfig"}, "read", FALSE)
    \cup Handlers({"testLLMConfig"}, "read", TRUE)
    \cup Handlers({"createLLMConfig", "updateLLMConfig", "deleteLLMConfig",
                   "activateLLMConfig"}, "write", TRUE)

ProviderTypes == Handlers({"listProviderTypes"}, "answer", FALSE)

-----------------------------------------------------------------------------
(* The routes: what must be configured for one, who may use it ("skipped":  *)
(* the request is not authenticated; "own": a user, of any role), and       *)
(* whether its method is one the CSRF check covers.                         *)

Routed(handlers, needs, guard, unsafe) ==
    {[name |-> h.name, effect |-> h.effect, annotates |-> h.annotates,
      needs |-> needs, guard |-> guard, unsafe |-> unsafe] : h \in handlers}

Reading(handlers) == {h \in handlers : h.effect \in {"answer", "read"}
                                       /\ ~h.annotates}

Other(handlers) == handlers \ Reading(handlers)

OperationalRoutes ==
    Routed(Probes, "nothing", "skipped", FALSE)
    \cup Routed(Unrouted, "nothing", "none", FALSE)

AnalysisRoutes ==
    Routed(JobReads \cup AnalysisReads \cup History, "nothing", "reader", FALSE)
    \cup Routed(Telemetry, "nothing", "reader", TRUE)
    \cup Routed(Submission \cup Cancellation \cup Questions \cup Feedback
                \cup Regeneration, "nothing", "writer", TRUE)

SessionRoutes ==
    Routed(Reading(Setup), "sessions", "skipped", FALSE)
    \cup Routed(Other(Setup) \cup Logins \cup Refreshes, "sessions", "skipped", TRUE)
    \cup Routed(Logout, "sessions", "none", TRUE)
    \cup Routed(Reading(OwnProfile \cup OwnPreferences \cup OwnSessions),
                "sessions", "own", FALSE)
    \cup Routed(Other(OwnProfile \cup OwnPreferences), "sessions", "own", TRUE)
    \cup Routed(OwnKeys, "postgres", "reader", FALSE)

AdminRoutes ==
    LET stored == KeyAdministration \cup WebhookAdministration \cup AuditReads
                  \cup Retention \cup DeliveryAdministration
                  \cup ProviderAdministration \cup LLMAdministration
    IN  Routed(Reading(stored), "postgres", "admin", FALSE)
        \cup Routed(Other(stored), "postgres", "admin", TRUE)
        \cup Routed(Deletion, "postgres", "writer", TRUE)
        \cup Routed(Reading(UserAdministration), "sessions", "admin", FALSE)
        \cup Routed(Other(UserAdministration), "sessions", "admin", TRUE)
        \cup Routed(ProviderTypes, "nothing", "admin", FALSE)

Routes == OperationalRoutes \cup AnalysisRoutes \cup SessionRoutes \cup AdminRoutes
=============================================================================
