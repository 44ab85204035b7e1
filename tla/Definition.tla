----------------------------- MODULE Definition -----------------------------
(***************************************************************************)
(* The way of a credential: from the definition an administrator enters    *)
(* (src/control-plane/src/model.rs) through CREATE SERVER (sql.rs, db.rs)  *)
(* into the options of a foreign server, and from there, each time the     *)
(* server is used, into the requests of the wrapper (src/src/options.rs).  *)
(* On the way definitions are previewed, recorded, exported, completed and *)
(* applied again, and the environment of PostgreSQL changes.               *)
(*                                                                         *)
(* One source; ControlPlane has several, and their transactions.           *)
(***************************************************************************)
EXTENDS Sequences, SequencesExt

CONSTANTS
  None,         \* an absent value
  Empty,        \* the empty text
  Redacted,     \* the marker that takes the place of a literal
  Literals,     \* secrets entered literally
  Vars, Values, \* environment variables of PostgreSQL, and what they may hold
  Spellings,    \* header names as they are written, in byte order
  Lower,        \* their normal form
  Controlled,   \* normal names of the headers only the HTTP client may set
  BuiltIn,      \* normal names of user-agent and accept
  Definitions,  \* what administrators may enter: see Definition
  SqlServers    \* options SQL users may create a server with: see Options

Authorization == "authorization"

Names == ToSet(Spellings)

Secret == [value : Literals \cup {Empty, Redacted, None}, env : Vars \cup {Empty, None}, configured : BOOLEAN]

Auth ==
  [type : {"none", "bearer", "api_key"}, secret : Secret, name : Names,
   location : {"header", "query"}, prefix : {"key", None}]

HeaderMaps(values) == UNION {[names -> values] : names \in SUBSET Names}

\* `plain` is FALSE when an identifier, an URL, a method, a name or a setting is
\* not what its validator asks for; `spec` and `base_url` are the locations given.
Definition ==
  [plain : BOOLEAN, spec : SUBSET {"url", "json"}, base_url : BOOLEAN,
   headers : HeaderMaps(Literals \cup {Redacted}), headers_env : HeaderMaps(Vars),
   auth : Auth, spec_with_auth : BOOLEAN]

\* Options of a foreign server, None where one is not given.
Options ==
  [spec : SUBSET {"url", "json"}, base_url : BOOLEAN,
   headers : HeaderMaps(Literals \cup {Redacted}), headers_env : HeaderMaps(Vars),
   bearer_token : Literals \cup {Empty, Redacted, None}, bearer_token_env : Vars \cup {Empty, None},
   api_key : Literals \cup {Empty, Redacted, None}, api_key_env : Vars \cup {Empty, None},
   api_key_name : Names \cup {None}, api_key_location : {"header", "query", None},
   api_key_prefix : {"key", None}, spec_with_auth : BOOLEAN]

\* No authentication has no secret, and no secret is the marker.
ASSUME DefinitionsAssumption ==
  /\ Definitions \subseteq Definition
  /\ \A definition \in Definitions :
       /\ definition # None
       /\ definition.auth.secret.value # Redacted
       /\ definition.auth.type = "none" =>
            definition.auth.secret = [value |-> None, env |-> None, configured |-> FALSE]
ASSUME SqlServersAssumption == SqlServers \subseteq Options /\ None \notin Options
ASSUME NamesAssumption ==
  Spellings \in Seq(STRING) /\ None \notin Names /\ "x-api-key" \in Names /\ Lower \in [Names -> STRING]
ASSUME TextsAssumption == {None, Empty, Redacted} \cap (Literals \cup Values) = {} /\ None # Redacted

VARIABLES
  environment,  \* of the PostgreSQL process
  server,       \* options of the foreign server, or None
  record,       \* its row in openapi_fdw_control.sources, or None
  bundle,       \* an exported definition in an administrator's hands, or None
  calls,        \* requests the last step has made
  shown,        \* secrets its preview, state, export or error has shown
  entered,      \* history: the definition the server is made from, or None
  exported,     \* history: the server the bundle was exported from, secrets masked, or None
  imported      \* history: the server was made from the bundle

history == <<entered, exported, imported>>
vars == <<environment, server, record, bundle, calls, shown, history>>

Init ==
  /\ environment \in [Vars -> Values \cup {None}]
  /\ server = None /\ record = None /\ bundle = None
  /\ calls = {} /\ shown = {}
  /\ entered = None /\ exported = None /\ imported = FALSE

Present(text) == text \notin {None, Empty}

Texts(maps) == {maps[name] : name \in DOMAIN maps}

-----------------------------------------------------------------------------
\* Definitions (model.rs).

\* The headers authentication uses, in normal form.
AuthHeaders(auth) ==
  CASE auth.type = "bearer" -> {Authorization}
    [] auth.type = "api_key" /\ auth.location = "header" -> {Lower[auth.name]}
    [] OTHER -> {}

SecretValid(secret, required) ==
  /\ ~(Present(secret.value) /\ Present(secret.env))
  /\ required => Present(secret.value) \/ Present(secret.env)

\* Seeded fault: a marker left in a header is taken for a value.
FaultMarkerValid(definition, required) ==
  definition.plain /\ SecretValid(definition.auth.secret, required)

Valid(definition, required) ==
  LET custom == DOMAIN definition.headers \cup DOMAIN definition.headers_env
  IN  /\ definition.plain
      /\ definition.spec \in {{"url"}, {"json"}}
      /\ \A h \in DOMAIN definition.headers, e \in DOMAIN definition.headers_env : Lower[h] # Lower[e]
      /\ required => Redacted \notin Texts(definition.headers)
      /\ \A h \in custom : Lower[h] \notin AuthHeaders(definition.auth)
      /\ definition.auth.type # "none" => SecretValid(definition.auth.secret, required)

\* Seeded fault: the environment reference is redacted like a literal.
FaultForget(secret) ==
  [value |-> None, env |-> None, configured |-> secret.configured \/ Present(secret.value)]

RedactedSecret(secret) ==
  [value |-> None, env |-> secret.env, configured |-> secret.configured \/ Present(secret.value)]

RedactedDefinition(definition) ==
  [definition EXCEPT
     !.headers = [h \in DOMAIN definition.headers |-> Redacted],
     !.auth.secret = IF definition.auth.type = "none" THEN @ ELSE RedactedSecret(@)]

-----------------------------------------------------------------------------
\* CREATE SERVER (sql.rs).

Covered(text, redact) == IF redact /\ text # None THEN Redacted ELSE text

\* An environment reference, even an empty one, takes precedence.
CreateServer(definition, redact) ==
  LET auth == definition.auth
      literal == IF auth.secret.env = None THEN Covered(auth.secret.value, redact) ELSE None
      If(type, value) == IF auth.type = type THEN value ELSE None
  IN  [spec |-> definition.spec, base_url |-> definition.base_url,
       headers |-> [h \in DOMAIN definition.headers |-> Covered(definition.headers[h], redact)],
       headers_env |-> definition.headers_env,
       bearer_token |-> If("bearer", literal), bearer_token_env |-> If("bearer", auth.secret.env),
       api_key |-> If("api_key", literal), api_key_env |-> If("api_key", auth.secret.env),
       api_key_name |-> If("api_key", auth.name), api_key_location |-> If("api_key", auth.location),
       api_key_prefix |-> If("api_key", auth.prefix), spec_with_auth |-> definition.spec_with_auth]

SecretsIn(options) == Texts(options.headers) \cup {options.bearer_token, options.api_key}

-----------------------------------------------------------------------------
\* ServerConfig::from_options (options.rs), in the environment of the moment.

SecretOption(literal, variable) ==
  IF Present(variable) THEN environment[variable] ELSE IF Present(literal) THEN literal ELSE None

BearerOf(options) == SecretOption(options.bearer_token, options.bearer_token_env)

ApiKeyOf(options) == SecretOption(options.api_key, options.api_key_env)

KeyName(options) == IF options.api_key_name = None THEN "x-api-key" ELSE options.api_key_name

\* A credential: where it goes, under which name, behind which scheme.
AuthOf(options) ==
  CASE BearerOf(options) # None -> {<<"header", Authorization, "Bearer", BearerOf(options)>>}
    [] BearerOf(options) = None /\ ApiKeyOf(options) # None /\ options.api_key_location = "query" ->
         {<<"query", KeyName(options), options.api_key_prefix, ApiKeyOf(options)>>}
    [] BearerOf(options) = None /\ ApiKeyOf(options) # None /\ options.api_key_location # "query" ->
         {<<"header", Lower[KeyName(options)], options.api_key_prefix, ApiKeyOf(options)>>}
    [] OTHER -> {}

\* Of two spellings of a literal header the last one in byte order is kept.
LastSpelling(headers, name) ==
  Spellings[CHOOSE i \in DOMAIN Spellings :
    /\ Spellings[i] \in DOMAIN headers /\ Lower[Spellings[i]] = name
    /\ \A j \in DOMAIN Spellings :
         Spellings[j] \in DOMAIN headers /\ Lower[Spellings[j]] = name => j <= i]

CustomHeaders(options) ==
  {<<"header", name, None, options.headers[LastSpelling(options.headers, name)]>> :
     name \in {Lower[h] : h \in DOMAIN options.headers}}
    \cup {<<"header", Lower[e], None, environment[options.headers_env[e]]>> : e \in DOMAIN options.headers_env}

Usable(variable) == Present(variable) => environment[variable] # None

\* Seeded fault: a variable that is not set counts as no credential.
FaultUnsetIsNone(options) ==
  /\ options.spec # {"url", "json"} /\ (options.spec # {} \/ options.base_url)
  /\ \A h \in DOMAIN options.headers \cup DOMAIN options.headers_env : Lower[h] \notin Controlled
  /\ \A e \in DOMAIN options.headers_env : environment[options.headers_env[e]] # None

Accepted(options) ==
  /\ options.spec # {"url", "json"} /\ (options.spec # {} \/ options.base_url)
  /\ \A h \in DOMAIN options.headers \cup DOMAIN options.headers_env : Lower[h] \notin Controlled
  /\ \A e \in DOMAIN options.headers_env :
       /\ environment[options.headers_env[e]] # None
       /\ \A h \in DOMAIN options.headers \cup (DOMAIN options.headers_env \ {e}) : Lower[h] # Lower[e]
  /\ ~(Present(options.api_key) /\ Present(options.api_key_env)) /\ Usable(options.api_key_env)
  /\ ~(Present(options.bearer_token) /\ Present(options.bearer_token_env)) /\ Usable(options.bearer_token_env)
  /\ ~(ApiKeyOf(options) # None /\ BearerOf(options) # None)
  /\ \A credential \in AuthOf(options) : credential[1] = "header" =>
       /\ credential[2] \notin BuiltIn
       /\ \A custom \in CustomHeaders(options) : custom[2] # credential[2]

\* What every request carries.
Credentials(options) == CustomHeaders(options) \cup AuthOf(options)

\* Seeded fault: only the credential is left out, custom headers are sent.
FaultKeepHeaders(options) == IF options.spec_with_auth THEN Credentials(options) ELSE CustomHeaders(options)

\* for_spec_fetch: of what requests carry, the request for a document has the headers
\* user-agent and accept only, also when an administrator has set them.
SpecCredentials(options) ==
  IF options.spec_with_auth THEN Credentials(options)
  ELSE {credential \in CustomHeaders(options) : credential[2] \in BuiltIn}

Sent(options, to) == IF to = "api" THEN Credentials(options) ELSE SpecCredentials(options)

ValuesIn(credentials) == {credential[4] : credential \in credentials}

\* Seeded fault: custom headers are not among the secrets.
FaultHidden(options, to) == ValuesIn(AuthOf(options))

\* `secrets`: what the marker takes the place of in the errors of a request.  With the
\* authentication, for_spec_fetch clears the secrets.
Hidden(options, to) == IF to = "api" \/ options.spec_with_auth THEN ValuesIn(Credentials(options)) ELSE {}

\* An error may repeat all that the host got.
Repeated(options, to) == ValuesIn(Sent(options, to)) \ Hidden(options, to)

\* A request; `trusted` is what the administrator says of the host of the document.
Call(options, trusted, to) == [to |-> to, trusted |-> trusted, credentials |-> Sent(options, to)]

\* fetch_spec, when the document is not inline.
SpecCalls(options, trusted) == {Call(options, trusted, "spec") : location \in options.spec \cap {"url"}}

-----------------------------------------------------------------------------
\* The control plane (db.rs, web.rs) and its administrators.

Secrets == Literals \cup Values

Show(texts) == shown' = texts \cap Secrets

\* plan_bundle: POST /plan and /import/plan; nothing is stored.
Plan(definition) ==
  /\ Valid(definition, FALSE)
  /\ Show(SecretsIn(CreateServer(definition, TRUE)))
  /\ calls' = {}
  /\ UNCHANGED <<environment, server, record, bundle, history>>

\* discover: the server exists inside a transaction that is rolled back.
Discover(definition) ==
  LET options == CreateServer(definition, FALSE)
  IN  /\ Valid(definition, TRUE) /\ Accepted(options)
      /\ calls' = SpecCalls(options, definition.spec_with_auth)
      /\ \/ Show(SecretsIn(CreateServer(definition, TRUE)))
         \/ calls' # {} /\ Show(Repeated(options, "spec"))
      /\ UNCHANGED <<environment, server, record, bundle, history>>

\* apply_bundle for one source; IMPORT FOREIGN SCHEMA fetches the document, and
\* what goes wrong then takes CREATE SERVER back.
Apply(definition) ==
  LET options == CreateServer(definition, FALSE)
  IN  /\ Valid(definition, TRUE) /\ Accepted(options)
      /\ calls' = SpecCalls(options, definition.spec_with_auth)
      /\ \/ /\ server' = options
            /\ record' = RedactedDefinition(definition)
            /\ entered' = definition
            /\ imported' = (definition = bundle)
            /\ Show(SecretsIn(CreateServer(definition, TRUE)))
         \/ /\ Show(IF calls' = {} THEN {} ELSE Repeated(options, "spec"))
            /\ UNCHANGED <<server, record, entered, imported>>
      /\ UNCHANGED <<environment, bundle, exported>>

Gone == server' = None /\ entered' = None /\ imported' = FALSE

\* delete_source, or moving to another instance with an exported bundle.
Delete ==
  /\ server # None
  /\ Gone /\ record' = None
  /\ calls' = {} /\ shown' = {}
  /\ UNCHANGED <<environment, bundle, exported>>

\* Options as the catalog query of `state` shows them.
Masked(options) ==
  [options EXCEPT !.headers = [h \in DOMAIN @ |-> Redacted],
     !.api_key = Covered(@, TRUE), !.bearer_token = Covered(@, TRUE)]

\* What is on record of a definition shows the literals it still has.
TextsOf(definition) == Texts(definition.headers) \cup {definition.auth.secret.value}

State ==
  /\ server # None
  /\ Show(SecretsIn(Masked(server)) \cup IF record = None THEN {} ELSE TextsOf(record))
  /\ calls' = {}
  /\ UNCHANGED <<environment, server, record, bundle, history>>

\* `managed`: records are found by the name of the server.
Managed == server # None /\ record # None

\* export_bundle: servers without a definition on record are left out.
Export ==
  /\ Managed
  /\ bundle' = record
  /\ exported' = IF entered = None THEN None ELSE Masked(server)
  /\ imported' = FALSE
  /\ Show(TextsOf(record))
  /\ calls' = {}
  /\ UNCHANGED <<environment, server, record, entered>>

\* An administrator enters some of the literals an export left out.
Reenter(literal) ==
  /\ bundle # None /\ ~imported
  /\ \/ bundle' = [bundle EXCEPT !.headers = [h \in DOMAIN @ |-> IF @[h] = Redacted THEN literal ELSE @[h]]]
     \/ bundle.auth.secret.configured /\ bundle' = [bundle EXCEPT !.auth.secret.value = literal]
  /\ calls' = {} /\ shown' = {}
  /\ UNCHANGED <<environment, server, record, history>>

-----------------------------------------------------------------------------
\* PostgreSQL and its users.

\* Variables are read by the running process: a change takes a restart.
SetEnvironment ==
  /\ environment' \in [Vars -> Values \cup {None}]
  /\ calls' = {} /\ shown' = {}
  /\ UNCHANGED <<server, record, bundle, history>>

\* CREATE, ALTER and DROP SERVER: options are validated, and the control plane's records
\* are left alone.
SqlCreate(options) ==
  /\ server = None /\ Accepted(options)
  /\ server' = options
  /\ calls' = {} /\ shown' = {}
  /\ UNCHANGED <<environment, record, bundle, entered, exported, imported>>

SqlAlter(options) ==
  /\ server # None /\ Accepted(options)
  /\ server' = options /\ entered' = None /\ imported' = FALSE
  /\ calls' = {} /\ shown' = {}
  /\ UNCHANGED <<environment, record, bundle, exported>>

SqlDrop ==
  /\ server # None
  /\ Gone
  /\ calls' = {} /\ shown' = {}
  /\ UNCHANGED <<environment, record, bundle, exported>>

\* A query: the document when no base_url is set, then the API; each may answer with an
\* error that repeats what it got.
ScanServer ==
  LET trusted == IF entered = None THEN server.spec_with_auth ELSE entered.spec_with_auth
      document == IF server.base_url THEN {} ELSE SpecCalls(server, trusted)
  IN  /\ server # None /\ Accepted(server)
      /\ \/ document # {} /\ calls' = document /\ Show(Repeated(server, "spec"))
         \/ calls' = document \cup {Call(server, trusted, "api")} /\ Show(Repeated(server, "api"))
      /\ UNCHANGED <<environment, server, record, bundle, history>>

\* Its configuration fails in today's environment: no request is made.
ScanFails ==
  /\ server # None /\ ~Accepted(server)
  /\ calls' = {} /\ shown' = {}
  /\ UNCHANGED <<environment, server, record, bundle, history>>

Next ==
  \/ \E definition \in Definitions : Plan(definition) \/ Discover(definition) \/ Apply(definition)
  \/ bundle # None /\ (Plan(bundle) \/ Apply(bundle))
  \/ Delete \/ State \/ Export \/ \E literal \in Literals : Reenter(literal)
  \/ SetEnvironment
  \/ \E options \in SqlServers : SqlCreate(options) \/ SqlAlter(options)
  \/ SqlDrop
  \/ ScanServer \/ ScanFails

Spec == Init /\ [][Next]_vars

-----------------------------------------------------------------------------
\* Properties.

Untrusted(call) == call.to = "spec" /\ ~call.trusted

IsAgentHeader(credential) == credential[1] = "header" /\ credential[2] \in BuiltIn

\* No preview, state, export or error shows a secret.  The exception: an error of a host
\* that gives the document may repeat a user-agent or accept header it was sent, which
\* for_spec_fetch neither drops nor hides.
NothingShown ==
  \A text \in shown : \E call \in calls :
    Untrusted(call) /\ \E credential \in call.credentials : IsAgentHeader(credential) /\ credential[4] = text

\* "API credentials and custom headers are not sent while fetching specUrl by default": the
\* host of the document gets none unless the definition says so, with the same exception.
SpecHostGetsLittle ==
  \A call \in calls : Untrusted(call) => \A credential \in call.credentials : IsAgentHeader(credential)

\* The marker of an export never becomes an option: "literal secret values are
\* replaced ... and must be re-entered before applying the bundle".
OnlyEnteredSecrets == server # None /\ entered # None => Redacted \notin SecretsIn(server)

\* What a definition asks requests to carry, in today's environment.
Value(secret) == IF Present(secret.value) THEN secret.value ELSE environment[secret.env]

Asked(definition) ==
  LET auth == definition.auth
  IN  {<<"header", Lower[h], None, definition.headers[h]>> : h \in DOMAIN definition.headers}
        \cup {<<"header", Lower[e], None, environment[definition.headers_env[e]]>> : e \in DOMAIN definition.headers_env}
        \cup (CASE auth.type = "none" -> {}
               [] auth.type = "bearer" -> {<<"header", Authorization, "Bearer", Value(auth.secret)>>}
               [] auth.type = "api_key" /\ auth.location = "header" ->
                    {<<"header", Lower[auth.name], auth.prefix, Value(auth.secret)>>}
               [] OTHER -> {<<"query", auth.name, auth.prefix, Value(auth.secret)>>})

\* A literal next to an empty environment reference is dropped by CreateServer.
Dropped(definition) == Present(definition.auth.secret.value) /\ definition.auth.secret.env = Empty

\* Through both translations, any number of exports and any change of the
\* environment, a request to the API carries what the definition asks for, each
\* under its name, or is not made.
CredentialAsDefined ==
  \A call \in calls : call.to = "api" /\ entered # None /\ ~Dropped(entered) =>
    /\ call.credentials \subseteq Asked(entered)
    /\ \A asked \in Asked(entered) :
         \E credential \in call.credentials : <<asked[1], asked[2]>> = <<credential[1], credential[2]>>

\* A bundle applied again gives the server it was exported from, literals apart, whatever
\* happened in between: "environment references remain portable".  The exception: what is
\* on record describes the server no longer, because SQL has altered it, or has dropped it
\* and created another one, which then counts as managed although "servers created only
\* with SQL ... are marked unmanaged".
ExportReproduces == imported /\ exported # None => Masked(server) = exported
=============================================================================
