------------------------------- MODULE Config -------------------------------
(***************************************************************************)
(* Start-up configuration: what config.Load makes of the process           *)
(* environment and what Config.Validate accepts.  An environment is a      *)
(* record of the settings that decide something later; values that only    *)
(* have to parse, or to be positive or not blank whatever the deployment,  *)
(* are one flag each.                                                      *)
(***************************************************************************)
EXTENDS FiniteSets

Settings ==
    [ENV: {"", "staging", "prod", "production"},
     parses: BOOLEAN,        \* numbers, durations, booleans, level and audience list
     positive: BOOLEAN,      \* addresses not blank; timeout, rate and burst positive
     ADMIN_AUTH_MODE: {"", "static", "oidc"},
     ADMIN_TOKEN: {"none", "given"},
     OIDC: BOOLEAN,          \* issuer, audience and role are all there
     DATABASE_URL: {"none", "tls", "plain"},
     DB_ALLOW_INSECURE: BOOLEAN,
     AUTO_MIGRATE: {"", "true", "false"},
     AUDIT_SALT: {"none", "fixture", "own"},
     SIGNING_KEY_FILE: BOOLEAN,
     AUDIENCES: BOOLEAN,
     TOOL_BOOTSTRAP_FILE: {"none", "valid", "malformed"},
     AUTHZ_TLS: SUBSET {"cert", "key", "client_ca"},
     HTTP_TLS: SUBSET {"cert", "key"}]

\* normalizeEnvironment; any other label means nothing to the code.
Environment(s) ==
    CASE s.ENV = "" -> "development"
      [] s.ENV = "prod" -> "production"
      [] OTHER -> s.ENV

IsProduction(s) == Environment(s) = "production"

AdminAuthMode(s) ==
    IF s.ADMIN_AUTH_MODE # "" THEN s.ADMIN_AUTH_MODE
    ELSE IF IsProduction(s) THEN "oidc" ELSE "static"

AutoMigrate(s) ==
    IF s.AUTO_MIGRATE = "" THEN ~IsProduction(s) ELSE s.AUTO_MIGRATE = "true"

\* Load leaves a token it was not given blank, except for a static one outside production.
AdminToken(s) ==
    IF ~IsProduction(s) /\ AdminAuthMode(s) = "static" /\ s.ADMIN_TOKEN = "none"
    THEN "generated" ELSE s.ADMIN_TOKEN

\* Mutant of ProductionRequirements: the certificate is enough for the authz listener.
ProductionWithoutClientCA(s) ==
    /\ s.DATABASE_URL = "tls" \/ (s.DATABASE_URL = "plain" /\ s.DB_ALLOW_INSECURE)
    /\ s.AUDIT_SALT = "own" /\ AdminAuthMode(s) = "oidc" /\ AdminToken(s) = "none"
    /\ s.SIGNING_KEY_FILE /\ s.OIDC /\ s.AUDIENCES
    /\ {"cert", "key"} \subseteq s.AUTHZ_TLS
    /\ s.HTTP_TLS = {"cert", "key"}

\* Config.Validate, the checks made in production only.
ProductionRequirements(s) ==
    /\ \/ s.DATABASE_URL = "tls"
       \/ s.DATABASE_URL = "plain" /\ s.DB_ALLOW_INSECURE
    /\ s.AUDIT_SALT = "own"
    /\ AdminAuthMode(s) = "oidc" /\ AdminToken(s) = "none"
    /\ s.SIGNING_KEY_FILE
    /\ s.OIDC
    /\ s.AUDIENCES
    /\ s.AUTHZ_TLS = {"cert", "key", "client_ca"}
    /\ s.HTTP_TLS = {"cert", "key"}

\* Config.Validate, the checks made whatever the environment.
TLSSettingsFit(s) ==
    /\ "cert" \in s.AUTHZ_TLS <=> "key" \in s.AUTHZ_TLS
    /\ "client_ca" \in s.AUTHZ_TLS => {"cert", "key"} \subseteq s.AUTHZ_TLS
    /\ "cert" \in s.HTTP_TLS <=> "key" \in s.HTTP_TLS

Validate(s) ==
    /\ s.positive
    /\ IF IsProduction(s) THEN ProductionRequirements(s)
       ELSE AdminAuthMode(s) = "oidc" => s.OIDC
    /\ TLSSettingsFit(s)

\* Load and then Validate let the process go on.
Accepted(s) == s.parses /\ Validate(s)

=============================================================================
