-------------------------- MODULE CloudSqlSidecar --------------------------
(***************************************************************************)
(* The Cloud SQL Auth Proxy that runs beside a container (cloudsql/         *)
(* auth-proxy-sidecar.ts): the four ways to its credentials, the resources *)
(* each registers, the container, its volume, and the database url.        *)
(*                                                                         *)
(* credentials: [mode |-> "existing-secret" | "inline-key" | "managed-key" *)
(* | "ambient-iam", value |-> the Secret's name, the key, the account].    *)
(* A url is [host, database]; images, resources and extra arguments are    *)
(* left out.                                                               *)
(***************************************************************************)
EXTENDS Resources

Local == "127.0.0.1"

\* A bug: the url is passed through.
RewriteDatabaseUrlForProxy_Not(url) == url

RewriteDatabaseUrlForProxy(url) == [url EXCEPT !.host = Local]

\* The two modes in which the component makes the Secret itself.
MakesSecret(credentials) == credentials.mode \in {"inline-key", "managed-key"}

\* Its name is given: secretName, or one made from the component's name.
InlineKeyGoals(credentials, namespace) ==
    New(<<"credentials">>, Named(credentials.value, {namespace}, {}))

ManagedKeyGoals(credentials, namespace) ==
    AllGoals(<< New(<<"service-account">>, Named(credentials.value, {}, {})),
                New(<<"cloudsql-client">>, Named(credentials.value, {<<"service-account">>}, {})),
                New(<<"service-account-key">>,
                    AutoNamed("key", {<<"service-account">>}, {<<"cloudsql-client">>})),
                New(<<"credentials">>, Named(credentials.value, {namespace, <<"service-account-key">>},
                                             {<<"cloudsql-client">>})) >>)

SidecarGoals(credentials, namespace) ==
    CASE credentials.mode = "inline-key"  -> InlineKeyGoals(credentials, namespace)
      [] credentials.mode = "managed-key" -> ManagedKeyGoals(credentials, namespace)
      [] OTHER -> NoGoals

\* What the container and its volume read: a Secret of the component, one
\* that somebody else keeps, or none.
CredentialRefs(credentials) == IF MakesSecret(credentials) THEN {<<"credentials">>} ELSE {}

BuildContainer(credentials) ==
    [credentialsFile |-> credentials.mode # "ambient-iam",
     volume          |-> CASE MakesSecret(credentials) -> <<"credentials">>
                           [] credentials.mode = "existing-secret" -> credentials.value
                           [] OTHER -> <<"none">>]
=============================================================================
