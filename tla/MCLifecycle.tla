---------------------------- MODULE MCLifecycle ----------------------------
(* Lifecycle on small instances: see the cfg files for the other constants. *)
EXTENDS Lifecycle, TLC

CONSTANTS t1, t2, d1, d2, blank, p1, p2

SeedBoth == (t1 :> d1) @@ (t2 :> d1)

\* Two requests for one tool: a new definition, one that cannot be loaded or a DELETE,
\* against a DELETE.
TwoRequests == (p1 :> {<<t1, d2>>, <<t1, blank>>, <<t1, NoDef>>}) @@ (p2 :> {<<t1, NoDef>>})

Production ==
    [ENV |-> "prod", parses |-> TRUE, positive |-> TRUE, ADMIN_AUTH_MODE |-> "",
     ADMIN_TOKEN |-> "none", OIDC |-> TRUE, DATABASE_URL |-> "tls",
     DB_ALLOW_INSECURE |-> FALSE, AUTO_MIGRATE |-> "", AUDIT_SALT |-> "own",
     SIGNING_KEY_FILE |-> TRUE, AUDIENCES |-> TRUE, TOOL_BOOTSTRAP_FILE |-> "valid",
     AUTHZ_TLS |-> {"cert", "key", "client_ca"}, HTTP_TLS |-> {"cert", "key"}]

Demo ==
    [Production EXCEPT !.ENV = "", !.OIDC = FALSE, !.DATABASE_URL = "none",
                       !.AUDIT_SALT = "fixture", !.SIGNING_KEY_FILE = FALSE,
                       !.AUDIENCES = FALSE, !.AUTHZ_TLS = {}, !.HTTP_TLS = {}]

\* Production with one setting changed: refused, every one of them.
AlmostProduction ==
    {[Production EXCEPT !.parses = FALSE], [Production EXCEPT !.positive = FALSE],
     [Production EXCEPT !.ADMIN_AUTH_MODE = "static"], [Production EXCEPT !.ADMIN_TOKEN = "given"],
     [Production EXCEPT !.OIDC = FALSE], [Production EXCEPT !.DATABASE_URL = "none"],
     [Production EXCEPT !.DATABASE_URL = "plain"], [Production EXCEPT !.AUDIT_SALT = "none"],
     [Production EXCEPT !.AUDIT_SALT = "fixture"], [Production EXCEPT !.SIGNING_KEY_FILE = FALSE],
     [Production EXCEPT !.AUDIENCES = FALSE], [Production EXCEPT !.AUTHZ_TLS = {"cert", "key"}],
     [Production EXCEPT !.AUTHZ_TLS = {}], [Production EXCEPT !.HTTP_TLS = {"cert"}],
     [Production EXCEPT !.HTTP_TLS = {}]}

AllEnvironments ==
    AlmostProduction \cup
    {Production, Demo, [Demo EXCEPT !.TOOL_BOOTSTRAP_FILE = "malformed"],
     [Demo EXCEPT !.ADMIN_AUTH_MODE = "oidc"],
     [Demo EXCEPT !.AUTHZ_TLS = {"cert", "key"}, !.ENV = "staging", !.DATABASE_URL = "plain"]}

=============================================================================
