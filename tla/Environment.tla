---------------------------- MODULE Environment ----------------------------
(***************************************************************************)
(* .env as a process reads it when it starts: validateEnv, the defaults,   *)
(* and what AppConfigService derives from it.  An environment maps the     *)
(* names of the variables to values; Absent is a variable that is not set, *)
(* or set to a value without the form the schema asks for where there is   *)
(* no default (a URL, a uuid, a non-empty string).  A secret is the set of *)
(* its parts, in lower case: none if it is empty or blank.                 *)
(***************************************************************************)
EXTENDS Naturals

CONSTANT Absent

Required == {"META_VERIFY_TOKEN", "META_APP_SECRET", "META_PHONE_NUMBER_ID", "DATABASE_URL",
             "SQS_JOBS_QUEUE_URL", "SQS_JOBS_DLQ_URL", "SQS_AUDIT_QUEUE_URL",
             "SQS_AUDIT_DLQ_URL", "DEFAULT_TENANT_ID"}
Default == [PORT |-> 8000, LOG_LEVEL |-> "info", OPENAI_MODE |-> "auto", META_MODE |-> "auto",
            OPENAI_API_KEY |-> {}, META_TOKEN |-> {},
            META_API_BASE_URL |-> "http://localhost:8001",
            AWS_ENDPOINT_URL |-> "http://localhost:4566", ORDER_STATUS_BASE_URL |-> "",
            SQS_MAX_RECEIVE_COUNT |-> 3, SQS_VISIBILITY_TIMEOUT |-> 30,
            THROTTLE_TTL |-> 60000, THROTTLE_LIMIT |-> 100]

\* zod's default is for a variable that is not set; an empty one is validated.
Get(e, name) == IF e[name] = Absent THEN Default[name] ELSE e[name]

\* validateEnv; a process throws on another environment and exits with 1.
Valid(e) ==
  /\ \A name \in Required : e[name] # Absent
  /\ \A name \in {"OPENAI_MODE", "META_MODE"} : Get(e, name) \in {"auto", "real", "simulated"}
  /\ Get(e, "LOG_LEVEL") \in {"fatal", "error", "warn", "info", "debug", "trace", "silent"}
  /\ \A name \in {"META_API_BASE_URL", "AWS_ENDPOINT_URL"} : Get(e, name) \notin {"", "no url"}
  /\ \A name \in {"PORT", "SQS_MAX_RECEIVE_COUNT", "SQS_VISIBILITY_TIMEOUT", "THROTTLE_TTL",
                  "THROTTLE_LIMIT"} : Get(e, name) \in Nat \ {0}

PlaceholderMarkers == {"troque", "mock-token", "changeme", "your-key"}
IsMeaningfulSecret(secret) == secret # {} /\ secret \cap PlaceholderMarkers = {}

ResolveMode(configured, hasCredential) ==
  IF configured = "real" \/ (configured = "auto" /\ hasCredential) THEN "real" ELSE "simulated"

\* The two providers are chosen independently.
OpenAiMode(e) == ResolveMode(Get(e, "OPENAI_MODE"), IsMeaningfulSecret(Get(e, "OPENAI_API_KEY")))
MetaMode(e)   == ResolveMode(Get(e, "META_MODE"), IsMeaningfulSecret(Get(e, "META_TOKEN")))

\* Without ORDER_STATUS_BASE_URL a process asks itself, on its own PORT.
OrderStatusBaseUrl(e) ==
  IF Get(e, "ORDER_STATUS_BASE_URL") = "" THEN "localhost" ELSE Get(e, "ORDER_STATUS_BASE_URL")
=============================================================================
