------------------------- MODULE Definition_proofs --------------------------
(***************************************************************************)
(* That secrets stay where they belong on the way of a definition, and the *)
(* credentials arrive, for any definitions, environments and servers of    *)
(* SQL users, and any sequence of previews, exports, completions and       *)
(* applies.                                                                *)
(***************************************************************************)
EXTENDS Definition, WellFoundedInduction, TLAPS

\* A definition somebody may hold.
Sound(definition) ==
  /\ definition \in Definition
  /\ definition.auth.secret.value # Redacted
  /\ definition.auth.type = "none" =>
       definition.auth.secret = [value |-> None, env |-> None, configured |-> FALSE]

\* The server as one sees it, from the definition alone: a literal was asked for when
\* there is no reference.
Seen(definition) ==
  LET auth == definition.auth
      If(type, value) == IF auth.type = type THEN value ELSE None
      literal == IF auth.secret.env = None THEN Redacted ELSE None
  IN  [spec |-> definition.spec, base_url |-> definition.base_url,
       headers |-> [h \in DOMAIN definition.headers |-> Redacted],
       headers_env |-> definition.headers_env,
       bearer_token |-> If("bearer", literal), bearer_token_env |-> If("bearer", auth.secret.env),
       api_key |-> If("api_key", literal), api_key_env |-> If("api_key", auth.secret.env),
       api_key_name |-> If("api_key", auth.name), api_key_location |-> If("api_key", auth.location),
       api_key_prefix |-> If("api_key", auth.prefix), spec_with_auth |-> definition.spec_with_auth]

-----------------------------------------------------------------------------
\* Where things come from.

ServerMade ==
  /\ entered # None => server = CreateServer(entered, FALSE) /\ Valid(entered, TRUE) /\ Sound(entered)
  /\ server # None /\ entered = None => server \in Options
  /\ imported => entered # None

\* What is on record is some definition; the server's, when SQL has left the server alone.
RecordMade ==
  /\ record # None => \E definition : Sound(definition) /\ record = RedactedDefinition(definition)
  /\ entered # None => record = RedactedDefinition(entered)

BundleMade == bundle # None => Sound(bundle) /\ (exported # None => exported = Seen(bundle))

Made == ServerMade /\ RecordMade /\ BundleMade /\ ExportReproduces

IInv == Made /\ SpecHostGetsLittle /\ NothingShown

-----------------------------------------------------------------------------
\* What definitions and servers show.

LEMMA CoveredFacts ==
  ASSUME NEW text PROVE Covered(text, TRUE) \in {Redacted, None}
  BY DEF Covered

LEMMA MarkersAreNoSecrets == {Redacted, None} \cap Secrets = {}
  BY TextsAssumption DEF Secrets

\* A preview shows markers only.
LEMMA PreviewCovered ==
  ASSUME NEW definition PROVE SecretsIn(CreateServer(definition, TRUE)) \cap Secrets = {}
  <1> DEFINE options == CreateServer(definition, TRUE)
  <1>1. options.headers = [h \in DOMAIN definition.headers |-> Covered(definition.headers[h], TRUE)]
    BY DEF CreateServer
  <1>2. options.bearer_token \in {Redacted, None} /\ options.api_key \in {Redacted, None}
    BY CoveredFacts DEF CreateServer
  <1>3. Texts(options.headers) \subseteq {Redacted, None}
    BY <1>1, CoveredFacts DEF Texts
  <1> QED BY <1>2, <1>3, MarkersAreNoSecrets DEF SecretsIn

\* What the state of a server shows of its options are markers.
LEMMA MaskedCovered ==
  ASSUME NEW options,
         options \in Options \/ \E definition : options = CreateServer(definition, FALSE)
  PROVE SecretsIn(Masked(options)) \cap Secrets = {}
  <1>1. /\ Masked(options).headers = [h \in DOMAIN options.headers |-> Redacted]
        /\ Masked(options).api_key = Covered(options.api_key, TRUE)
        /\ Masked(options).bearer_token = Covered(options.bearer_token, TRUE)
    BY DEF Masked, Options, CreateServer
  <1>2. Texts(Masked(options).headers) \subseteq {Redacted}
    BY <1>1 DEF Texts
  <1> QED BY <1>1, <1>2, CoveredFacts, MarkersAreNoSecrets DEF SecretsIn

\* A header map of markers is one a definition may have.
LEMMA MarkedHeaders ==
  ASSUME NEW headers \in HeaderMaps(Literals \cup {Redacted})
  PROVE [h \in DOMAIN headers |-> Redacted] \in HeaderMaps(Literals \cup {Redacted})
  <1>1. PICK names \in SUBSET Names : headers \in [names -> Literals \cup {Redacted}]
    BY DEF HeaderMaps
  <1>2. [h \in DOMAIN headers |-> Redacted] \in [names -> Literals \cup {Redacted}]
    BY <1>1
  <1> QED BY <1>2 DEF HeaderMaps

\* The parts of what is recorded of a definition.
LEMMA RedactedParts ==
  ASSUME NEW definition, Sound(definition)
  PROVE LET record_ == RedactedDefinition(definition)
        IN  /\ record_ \in Definition
            /\ record_.headers = [h \in DOMAIN definition.headers |-> Redacted]
            /\ record_.auth.secret.value = None
            /\ record_.auth.secret.env = definition.auth.secret.env
            /\ record_.auth.type = definition.auth.type
            /\ record_.auth.name = definition.auth.name
            /\ record_.auth.location = definition.auth.location
            /\ record_.auth.prefix = definition.auth.prefix
            /\ record_.auth.type = "none" => record_.auth.secret = definition.auth.secret
            /\ record_.spec = definition.spec
            /\ record_.base_url = definition.base_url
            /\ record_.headers_env = definition.headers_env
            /\ record_.spec_with_auth = definition.spec_with_auth
  <1> DEFINE headers == [h \in DOMAIN definition.headers |-> Redacted]
             old == definition.auth.secret
             secret == IF definition.auth.type = "none" THEN old ELSE RedactedSecret(old)
             auth == [definition.auth EXCEPT !.secret = secret]
  <1>1. /\ definition \in Definition /\ definition.auth \in Auth /\ old \in Secret
        /\ definition.headers \in HeaderMaps(Literals \cup {Redacted})
    BY DEF Sound, Definition, Auth
  <1>2. secret \in Secret /\ secret.value = None /\ secret.env = old.env
    BY <1>1 DEF Sound, RedactedSecret, Secret
  <1>3. /\ auth \in Auth /\ auth.secret = secret /\ auth.type = definition.auth.type
        /\ auth.name = definition.auth.name /\ auth.location = definition.auth.location
        /\ auth.prefix = definition.auth.prefix
    <2> HIDE DEF secret
    <2> QED BY <1>1, <1>2 DEF Auth
  <1>4. headers \in HeaderMaps(Literals \cup {Redacted})
    BY <1>1, MarkedHeaders
  <1>5. RedactedDefinition(definition) = [definition EXCEPT !.headers = headers, !.auth = auth]
    BY <1>1 DEF RedactedDefinition, Definition, Auth
  <1>6. auth.type = "none" => auth.secret = old
    BY <1>3
  <1> HIDE DEF headers, auth, secret
  <1>7. /\ RedactedDefinition(definition) \in Definition
        /\ RedactedDefinition(definition).headers = headers
        /\ RedactedDefinition(definition).auth = auth
        /\ RedactedDefinition(definition).spec = definition.spec
        /\ RedactedDefinition(definition).base_url = definition.base_url
        /\ RedactedDefinition(definition).headers_env = definition.headers_env
        /\ RedactedDefinition(definition).spec_with_auth = definition.spec_with_auth
    BY <1>1, <1>3, <1>4, <1>5 DEF Definition
  <1> QED BY <1>2, <1>3, <1>6, <1>7 DEF headers

\* The record of a definition is one somebody may hold, describes the same server and
\* shows markers only.
LEMMA RecordFacts ==
  ASSUME NEW definition, Sound(definition)
  PROVE /\ Sound(RedactedDefinition(definition))
        /\ Seen(RedactedDefinition(definition)) = Seen(definition)
        /\ TextsOf(RedactedDefinition(definition)) \cap Secrets = {}
  <1> DEFINE record_ == RedactedDefinition(definition)
  <1>1. Sound(record_)
    BY RedactedParts, TextsAssumption DEF Sound
  <1>2. Seen(record_) = Seen(definition)
    BY RedactedParts DEF Seen
  <1>3. TextsOf(record_) \cap Secrets = {}
    <2>1. record_.headers = [h \in DOMAIN definition.headers |-> Redacted] /\ record_.auth.secret.value = None
      BY RedactedParts
    <2>2. Texts(record_.headers) \subseteq {Redacted}
      BY <2>1 DEF Texts
    <2> QED BY <2>1, <2>2, MarkersAreNoSecrets DEF TextsOf
  <1> QED BY <1>1, <1>2, <1>3

\* A definition gives options of a foreign server.
LEMMA ServerIsOne ==
  ASSUME NEW definition \in Definition PROVE CreateServer(definition, FALSE) \in Options
  <1> DEFINE options == CreateServer(definition, FALSE)
  <1>1. definition.auth \in Auth /\ definition.auth.secret \in Secret
    BY DEF Definition, Auth
  <1>2. [h \in DOMAIN definition.headers |-> definition.headers[h]] = definition.headers
    BY DEF Definition, HeaderMaps
  <1>3. options.headers \in HeaderMaps(Literals \cup {Redacted})
    BY <1>2 DEF CreateServer, Covered, Definition
  <1>4. /\ options.bearer_token \in Literals \cup {Empty, Redacted, None}
        /\ options.api_key \in Literals \cup {Empty, Redacted, None}
    BY <1>1 DEF CreateServer, Covered, Secret
  <1>5. /\ options.bearer_token_env \in Vars \cup {Empty, None}
        /\ options.api_key_env \in Vars \cup {Empty, None}
    BY <1>1 DEF CreateServer, Secret
  <1>6. /\ options.api_key_name \in Names \cup {None}
        /\ options.api_key_location \in {"header", "query", None}
        /\ options.api_key_prefix \in {"key", None}
    BY <1>1 DEF CreateServer, Auth
  <1>7. /\ options.spec \in SUBSET {"url", "json"} /\ options.base_url \in BOOLEAN
        /\ options.headers_env \in HeaderMaps(Vars) /\ options.spec_with_auth \in BOOLEAN
    BY DEF CreateServer, Definition
  <1>8. options = [spec |-> options.spec, base_url |-> options.base_url,
       headers |-> options.headers, headers_env |-> options.headers_env,
       bearer_token |-> options.bearer_token, bearer_token_env |-> options.bearer_token_env,
       api_key |-> options.api_key, api_key_env |-> options.api_key_env,
       api_key_name |-> options.api_key_name, api_key_location |-> options.api_key_location,
       api_key_prefix |-> options.api_key_prefix, spec_with_auth |-> options.spec_with_auth]
    BY DEF CreateServer
  <1> QED BY <1>3, <1>4, <1>5, <1>6, <1>7, <1>8 DEF Options

\* A valid definition gives the server it describes, with the secrets it was given.
LEMMA CreatedAsSeen ==
  ASSUME NEW definition, Sound(definition), Valid(definition, TRUE)
  PROVE /\ Masked(CreateServer(definition, FALSE)) = Seen(definition)
        /\ Redacted \notin SecretsIn(CreateServer(definition, FALSE))
  <1> DEFINE options == CreateServer(definition, FALSE)
             secret == definition.auth.secret
             literal == IF secret.env = None THEN secret.value ELSE None
             type == definition.auth.type
  <1>1. /\ options.headers = [h \in DOMAIN definition.headers |-> definition.headers[h]]
        /\ options.bearer_token = (IF type = "bearer" THEN literal ELSE None)
        /\ options.api_key = (IF type = "api_key" THEN literal ELSE None)
    BY DEF CreateServer, Covered
  <1>2. type # "none" /\ secret.env = None => secret.value # None
    BY DEF Valid, SecretValid, Present
  <1>3. Redacted \notin Texts(options.headers)
    <2>1. Texts(options.headers) = Texts(definition.headers)
      <3> HIDE DEF options
      <3>1. /\ DOMAIN options.headers = DOMAIN definition.headers
            /\ \A h \in DOMAIN options.headers : options.headers[h] = definition.headers[h]
        BY <1>1
      <3> QED BY <3>1 DEF Texts
    <2> QED BY <2>1 DEF Valid
  <1>4. literal # Redacted
    BY TextsAssumption DEF Sound
  <1>5. Masked(options) = Seen(definition)
    <2> DEFINE masked == [h \in DOMAIN options.headers |-> Redacted]
               cover(text) == IF text # None THEN Redacted ELSE None
               seen == IF secret.env = None THEN Redacted ELSE None
    <2>1. /\ masked = [h \in DOMAIN definition.headers |-> Redacted]
          /\ cover(options.bearer_token) = IF type = "bearer" THEN seen ELSE None
          /\ cover(options.api_key) = IF type = "api_key" THEN seen ELSE None
      BY <1>1, <1>2
    <2>2. Masked(options) = [options EXCEPT !.headers = masked, !.api_key = cover(options.api_key),
                               !.bearer_token = cover(options.bearer_token)]
      BY DEF Masked, Covered
    <2> HIDE DEF masked, cover, seen
    <2>3. Masked(options) =
            [spec |-> definition.spec, base_url |-> definition.base_url,
             headers |-> masked, headers_env |-> definition.headers_env,
             bearer_token |-> cover(options.bearer_token),
             bearer_token_env |-> IF type = "bearer" THEN secret.env ELSE None,
             api_key |-> cover(options.api_key), api_key_env |-> IF type = "api_key" THEN secret.env ELSE None,
             api_key_name |-> IF type = "api_key" THEN definition.auth.name ELSE None,
             api_key_location |-> IF type = "api_key" THEN definition.auth.location ELSE None,
             api_key_prefix |-> IF type = "api_key" THEN definition.auth.prefix ELSE None,
             spec_with_auth |-> definition.spec_with_auth]
      <3>1. options \in Options
        BY ServerIsOne DEF Sound
      <3>2. /\ options.spec = definition.spec /\ options.base_url = definition.base_url
            /\ options.headers_env = definition.headers_env
            /\ options.spec_with_auth = definition.spec_with_auth
            /\ options.bearer_token_env = IF type = "bearer" THEN secret.env ELSE None
            /\ options.api_key_env = IF type = "api_key" THEN secret.env ELSE None
            /\ options.api_key_name = IF type = "api_key" THEN definition.auth.name ELSE None
            /\ options.api_key_location = IF type = "api_key" THEN definition.auth.location ELSE None
            /\ options.api_key_prefix = IF type = "api_key" THEN definition.auth.prefix ELSE None
        BY DEF CreateServer
      <3> HIDE DEF options, type, secret
      <3>3. Masked(options) =
              [spec |-> options.spec, base_url |-> options.base_url,
               headers |-> masked, headers_env |-> options.headers_env,
               bearer_token |-> cover(options.bearer_token), bearer_token_env |-> options.bearer_token_env,
               api_key |-> cover(options.api_key), api_key_env |-> options.api_key_env,
               api_key_name |-> options.api_key_name, api_key_location |-> options.api_key_location,
               api_key_prefix |-> options.api_key_prefix, spec_with_auth |-> options.spec_with_auth]
        BY <2>2, <3>1 DEF Options
      <3> QED BY <3>2, <3>3
    <2> QED BY <2>1, <2>3 DEF Seen, seen
  <1> HIDE DEF literal
  <1>6. Redacted \notin SecretsIn(options)
    BY <1>1, <1>3, <1>4, TextsAssumption DEF SecretsIn
  <1> QED BY <1>5, <1>6

\* Custom headers are headers.
LEMMA CustomAreHeaders ==
  ASSUME NEW options, NEW credential \in CustomHeaders(options) PROVE credential[1] = "header"
  BY DEF CustomHeaders

\* The requests for a document.
LEMMA SpecCallFacts ==
  ASSUME NEW options, NEW trusted, NEW call \in SpecCalls(options, trusted)
  PROVE call.to = "spec" /\ call.trusted = trusted /\ call.credentials = SpecCredentials(options)
  <1>1. PICK location \in options.spec \cap {"url"} :
          call = [to |-> "spec", trusted |-> trusted, credentials |-> Sent(options, "spec")]
    BY DEF SpecCalls, Call
  <1> QED BY <1>1 DEF Sent

\* A host that is not trusted gets nothing but the headers user-agent and accept.
LEMMA SpecCredentialsLittle ==
  ASSUME NEW options, ~options.spec_with_auth, NEW credential \in SpecCredentials(options)
  PROVE IsAgentHeader(credential)
  <1>1. credential \in CustomHeaders(options) /\ credential[2] \in BuiltIn
    BY DEF SpecCredentials
  <1> QED BY <1>1, CustomAreHeaders DEF IsAgentHeader

LEMMA SpecCallsProper ==
  ASSUME NEW options, NEW call \in SpecCalls(options, options.spec_with_auth), Untrusted(call),
         NEW credential \in call.credentials
  PROVE IsAgentHeader(credential)
  BY SpecCallFacts, SpecCredentialsLittle DEF Untrusted

\* What the error of such a request may repeat.
LEMMA RepeatedFacts ==
  ASSUME NEW options, NEW text \in Repeated(options, "spec"), NEW call \in SpecCalls(options, options.spec_with_auth)
  PROVE Untrusted(call) /\ \E credential \in call.credentials : IsAgentHeader(credential) /\ credential[4] = text
  <1>1. ~options.spec_with_auth
    BY DEF Repeated, Sent, SpecCredentials, Hidden
  <1>2. PICK credential \in SpecCredentials(options) : text = credential[4]
    BY DEF Repeated, Sent, ValuesIn
  <1> QED BY <1>1, <1>2, SpecCallFacts, SpecCredentialsLittle DEF Untrusted

\* Errors of the API repeat no secret.
LEMMA ApiRepeatsNothing ==
  ASSUME NEW options PROVE Repeated(options, "api") = {}
  BY DEF Repeated, Sent, Hidden

\* Entering literals into a bundle changes nothing one sees of the server.
LEMMA ReenterFacts ==
  ASSUME Sound(bundle), NEW literal \in Literals, Reenter(literal)
  PROVE Sound(bundle') /\ Seen(bundle') = Seen(bundle)
  <1>1. bundle \in Definition /\ bundle.auth \in Auth /\ bundle.auth.secret \in Secret
    BY DEF Sound, Definition, Auth
  <1>2. literal # Redacted
    BY TextsAssumption
  <1>3. CASE bundle' = [bundle EXCEPT !.headers = [h \in DOMAIN @ |-> IF @[h] = Redacted THEN literal ELSE @[h]]]
    <2> DEFINE headers == [h \in DOMAIN bundle.headers |-> IF bundle.headers[h] = Redacted THEN literal ELSE bundle.headers[h]]
    <2>1. headers \in HeaderMaps(Literals \cup {Redacted})
      <3>1. PICK names \in SUBSET Names : bundle.headers \in [names -> Literals \cup {Redacted}]
        BY <1>1 DEF Definition, HeaderMaps
      <3>2. headers \in [names -> Literals \cup {Redacted}]
        BY <3>1
      <3> QED BY <3>2 DEF HeaderMaps
    <2>2. bundle' = [bundle EXCEPT !.headers = headers]
      BY <1>3, <1>1 DEF Definition
    <2>3. DOMAIN headers = DOMAIN bundle.headers
      OBVIOUS
    <2> HIDE DEF headers
    <2>4. /\ bundle' \in Definition /\ bundle'.auth = bundle.auth /\ bundle'.headers = headers
          /\ bundle'.spec = bundle.spec /\ bundle'.base_url = bundle.base_url
          /\ bundle'.headers_env = bundle.headers_env /\ bundle'.spec_with_auth = bundle.spec_with_auth
      BY <1>1, <2>1, <2>2 DEF Definition
    <2> QED BY <2>3, <2>4 DEF Sound, Seen
  <1>4. CASE bundle.auth.secret.configured /\ bundle' = [bundle EXCEPT !.auth.secret.value = literal]
    <2> DEFINE secret == [bundle.auth.secret EXCEPT !.value = literal]
               auth == [bundle.auth EXCEPT !.secret = secret]
    <2>1. bundle.auth.type # "none"
      BY <1>4 DEF Sound
    <2>2. secret \in Secret /\ secret.value = literal /\ secret.env = bundle.auth.secret.env
      BY <1>1 DEF Secret
    <2>3. bundle' = [bundle EXCEPT !.auth = auth]
      BY <1>1, <1>4 DEF Definition, Auth, Secret
    <2> HIDE DEF secret
    <2>4. /\ auth \in Auth /\ auth.secret = secret /\ auth.type = bundle.auth.type
          /\ auth.name = bundle.auth.name /\ auth.location = bundle.auth.location
          /\ auth.prefix = bundle.auth.prefix
      BY <1>1, <2>2 DEF Auth
    <2> HIDE DEF auth
    <2>5. /\ bundle' \in Definition /\ bundle'.auth = auth /\ bundle'.headers = bundle.headers
          /\ bundle'.spec = bundle.spec /\ bundle'.base_url = bundle.base_url
          /\ bundle'.headers_env = bundle.headers_env /\ bundle'.spec_with_auth = bundle.spec_with_auth
      BY <1>1, <2>3, <2>4 DEF Definition
    <2> QED BY <1>2, <2>1, <2>2, <2>4, <2>5 DEF Sound, Seen
  <1> QED BY <1>3, <1>4 DEF Reenter

-----------------------------------------------------------------------------
\* What requests carry.

\* A set of numbers that is not empty has a least one.
LEMMA LeastNumber ==
  ASSUME NEW T, T \subseteq Nat, T # {}
  PROVE  \E m \in T : \A i \in T : m <= i
<1>1. IsWellFoundedOn(OpToRel(<, Nat), Nat)
  BY NatLessThanWellFounded
<1>2. PICK m \in T : \A i \in T : ~(<<i, m>> \in OpToRel(<, Nat))
  BY <1>1, WFMin
<1>3. \A i \in T : ~(i < m)
  BY <1>2 DEF OpToRel
<1>4. QED BY <1>3

\* Of the numbers up to n some have a property: one of them is the last.
LEMMA LastNumber ==
  ASSUME NEW n \in Nat, NEW T, T \subseteq 1..n, T # {}
  PROVE  \E m \in T : \A i \in T : i <= m
<1> DEFINE U == {n - i : i \in T}
<1>1. U \subseteq Nat
  OBVIOUS
<1>2. U # {}
  <2>1. PICK i \in T : TRUE
    OBVIOUS
  <2>2. n - i \in U
    OBVIOUS
  <2> QED BY <2>2
<1>3. PICK u \in U : \A v \in U : u <= v
  BY <1>1, <1>2, LeastNumber
<1>4. PICK m \in T : u = n - m
  OBVIOUS
<1>5. \A i \in T : n - i \in U /\ i \in Int
  OBVIOUS
<1>6. \A i \in T : i <= m
  BY <1>3, <1>4, <1>5
<1>7. QED BY <1>6

\* Among the spellings of a name that are in use one is the last.
LEMMA LastSpellingFacts ==
  ASSUME NEW headers, DOMAIN headers \subseteq Names, NEW h \in DOMAIN headers
  PROVE  LET last == LastSpelling(headers, Lower[h])
         IN  last \in DOMAIN headers /\ Lower[last] = Lower[h]
<1> DEFINE T == {i \in DOMAIN Spellings : Spellings[i] \in DOMAIN headers /\ Lower[Spellings[i]] = Lower[h]}
<1>1. DOMAIN Spellings = 1..Len(Spellings) /\ Len(Spellings) \in Nat
  BY NamesAssumption
<1>2. PICK i \in DOMAIN Spellings : Spellings[i] = h
  BY DEF Names, ToSet
<1>3. i \in T
  BY <1>2
<1>4. T \subseteq 1..Len(Spellings) /\ T # {}
  BY <1>1, <1>3
<1>5. \E m \in T : \A j \in T : j <= m
  BY <1>1, <1>4, LastNumber
<1> DEFINE Latest(m) == /\ Spellings[m] \in DOMAIN headers /\ Lower[Spellings[m]] = Lower[h]
                      /\ \A j \in DOMAIN Spellings :
                           Spellings[j] \in DOMAIN headers /\ Lower[Spellings[j]] = Lower[h] => j <= m
           last == CHOOSE m \in DOMAIN Spellings : Latest(m)
<1>6. \E m \in DOMAIN Spellings : Latest(m)
  BY <1>5
<1>7. LastSpelling(headers, Lower[h]) = Spellings[last]
  BY DEF LastSpelling
<1> HIDE DEF last
<1>8. Latest(last)
  BY <1>6 DEF last
<1>9. QED BY <1>7, <1>8

\* The secret a valid definition ends up with in the requests.
LEMMA SecretCarried ==
  ASSUME NEW secret \in Secret, SecretValid(secret, TRUE),
         ~(Present(secret.value) /\ secret.env = Empty),
         Usable(secret.env)
  PROVE  LET literal == IF secret.env = None THEN secret.value ELSE None
             carried == SecretOption(literal, secret.env)
         IN  carried = Value(secret) /\ carried # None
<1>1. CASE secret.env = None
  BY <1>1 DEF SecretValid, Present, SecretOption, Value
<1>2. CASE secret.env = Empty
  BY <1>2 DEF SecretValid, Present
<1>3. CASE secret.env \notin {None, Empty}
  BY <1>3 DEF SecretValid, Present, SecretOption, Value, Usable
<1>4. QED BY <1>1, <1>2, <1>3

\* The credential of a server is the one its definition asks for.
LEMMA AuthCarried ==
  ASSUME NEW definition, Sound(definition), Valid(definition, TRUE), ~Dropped(definition),
         Accepted(CreateServer(definition, FALSE))
  PROVE  LET auth == definition.auth IN
         AuthOf(CreateServer(definition, FALSE)) =
           (CASE auth.type = "none" -> {}
              [] auth.type = "bearer" -> {<<"header", Authorization, "Bearer", Value(auth.secret)>>}
              [] auth.type = "api_key" /\ auth.location = "header" ->
                   {<<"header", Lower[auth.name], auth.prefix, Value(auth.secret)>>}
              [] OTHER -> {<<"query", auth.name, auth.prefix, Value(auth.secret)>>})
<1> DEFINE auth == definition.auth
           options == CreateServer(definition, FALSE)
           literal == IF auth.secret.env = None THEN auth.secret.value ELSE None
           If(type, value) == IF auth.type = type THEN value ELSE None
<1>1. auth \in Auth /\ auth.secret \in Secret
  BY DEF Sound, Definition, Auth
<1>2. auth.type \in {"none", "bearer", "api_key"} /\ auth.location \in {"header", "query"} /\ auth.name \in Names
  BY <1>1 DEF Auth
<1>3. /\ options.bearer_token = If("bearer", literal) /\ options.bearer_token_env = If("bearer", auth.secret.env)
      /\ options.api_key = If("api_key", literal) /\ options.api_key_env = If("api_key", auth.secret.env)
      /\ options.api_key_name = If("api_key", auth.name)
      /\ options.api_key_location = If("api_key", auth.location)
      /\ options.api_key_prefix = If("api_key", auth.prefix)
  BY DEF CreateServer, Covered
<1>4. auth.type # "none" => SecretValid(auth.secret, TRUE)
  BY DEF Valid
<1>5. ~(Present(auth.secret.value) /\ auth.secret.env = Empty)
  BY DEF Dropped
<1>6. Usable(options.bearer_token_env) /\ Usable(options.api_key_env)
  BY DEF Accepted
<1>7. SecretOption(None, None) = None
  BY DEF SecretOption, Present
<1> HIDE DEF options, literal
<1>8. CASE auth.type = "none"
  <2>1. BearerOf(options) = None /\ ApiKeyOf(options) = None
    BY <1>3, <1>7, <1>8 DEF BearerOf, ApiKeyOf
  <2>2. AuthOf(options) = {}
    BY <2>1 DEF AuthOf
  <2>3. QED BY <1>8, <2>2 DEF options
<1>9. CASE auth.type = "bearer"
  <2>1. BearerOf(options) = SecretOption(literal, auth.secret.env)
    BY <1>3, <1>9 DEF BearerOf
  <2>2. BearerOf(options) = Value(auth.secret) /\ BearerOf(options) # None
    BY <1>1, <1>3, <1>4, <1>5, <1>6, <1>9, <2>1, SecretCarried DEF literal
  <2>3. AuthOf(options) = {<<"header", Authorization, "Bearer", Value(auth.secret)>>}
    BY <2>2 DEF AuthOf
  <2>4. QED BY <1>9, <2>3 DEF options
<1>10. CASE auth.type = "api_key"
  <2>1. BearerOf(options) = None /\ ApiKeyOf(options) = SecretOption(literal, auth.secret.env)
    BY <1>3, <1>7, <1>10 DEF BearerOf, ApiKeyOf
  <2>2. ApiKeyOf(options) = Value(auth.secret) /\ ApiKeyOf(options) # None
    BY <1>1, <1>3, <1>4, <1>5, <1>6, <1>10, <2>1, SecretCarried DEF literal
  <2>3. KeyName(options) = auth.name /\ options.api_key_prefix = auth.prefix
        /\ options.api_key_location = auth.location
    BY <1>2, <1>3, <1>10, NamesAssumption DEF KeyName
  <2>4. CASE auth.location = "query"
    <3>1. AuthOf(options) = {<<"query", auth.name, auth.prefix, Value(auth.secret)>>}
      BY <2>1, <2>2, <2>3, <2>4 DEF AuthOf
    <3>2. QED BY <1>10, <2>4, <3>1 DEF options
  <2>5. CASE auth.location = "header"
    <3>1. AuthOf(options) = {<<"header", Lower[auth.name], auth.prefix, Value(auth.secret)>>}
      BY <2>1, <2>2, <2>3, <2>5 DEF AuthOf
    <3>2. QED BY <1>10, <2>5, <3>1 DEF options
  <2>6. QED BY <1>2, <2>4, <2>5
<1>11. QED BY <1>2, <1>8, <1>9, <1>10

\* A request of a server made from a definition carries what the definition asks for.
LEMMA CredentialsCarried ==
  ASSUME NEW definition, Sound(definition), Valid(definition, TRUE), ~Dropped(definition),
         Accepted(CreateServer(definition, FALSE))
  PROVE  LET carried == Credentials(CreateServer(definition, FALSE)) IN
         /\ carried \subseteq Asked(definition)
         /\ \A asked \in Asked(definition) :
              \E credential \in carried : <<asked[1], asked[2]>> = <<credential[1], credential[2]>>
<1> DEFINE options == CreateServer(definition, FALSE)
           carried == Credentials(options)
           literals == {<<"header", Lower[h], None, definition.headers[h]>> : h \in DOMAIN definition.headers}
           variables_ == {<<"header", Lower[e], None, environment[definition.headers_env[e]]>> :
                            e \in DOMAIN definition.headers_env}
           kept == {<<"header", name, None, options.headers[LastSpelling(options.headers, name)]>> :
                      name \in {Lower[h] : h \in DOMAIN options.headers}}
<1>1. /\ DOMAIN options.headers = DOMAIN definition.headers
      /\ \A h \in DOMAIN options.headers : options.headers[h] = definition.headers[h]
      /\ options.headers_env = definition.headers_env
  BY DEF CreateServer, Covered
<1>2. DOMAIN definition.headers \subseteq Names
  BY DEF Sound, Definition, HeaderMaps
<1>3. Asked(definition) = literals \cup variables_ \cup AuthOf(options)
  BY AuthCarried DEF Asked
<1>4. carried = kept \cup variables_ \cup AuthOf(options)
  BY <1>1 DEF Credentials, CustomHeaders
<1> HIDE DEF options, carried, variables_
<1>5. ASSUME NEW h \in DOMAIN definition.headers
      PROVE  /\ LastSpelling(options.headers, Lower[h]) \in DOMAIN definition.headers
             /\ Lower[LastSpelling(options.headers, Lower[h])] = Lower[h]
  BY <1>1, <1>2, LastSpellingFacts
<1>6. kept \subseteq literals
  <2> SUFFICES ASSUME NEW h \in DOMAIN definition.headers
               PROVE  <<"header", Lower[h], None, options.headers[LastSpelling(options.headers, Lower[h])]>> \in literals
    BY <1>1
  <2> QED BY <1>1, <1>5
<1>7. ASSUME NEW asked \in literals
      PROVE  \E credential \in kept : credential[1] = asked[1] /\ credential[2] = asked[2]
  <2>1. PICK h \in DOMAIN definition.headers : asked = <<"header", Lower[h], None, definition.headers[h]>>
    BY <1>7
  <2> DEFINE credential == <<"header", Lower[h], None, options.headers[LastSpelling(options.headers, Lower[h])]>>
  <2>2. credential \in kept
    BY <1>1
  <2>3. credential[1] = asked[1] /\ credential[2] = asked[2]
    BY <2>1
  <2> QED BY <2>2, <2>3
<1> HIDE DEF kept, literals
<1>8. ASSUME NEW asked \in Asked(definition)
      PROVE  \E credential \in carried : credential[1] = asked[1] /\ credential[2] = asked[2]
  BY <1>3, <1>4, <1>7, <1>8
<1>9. carried \subseteq Asked(definition)
  BY <1>3, <1>4, <1>6
<1>10. QED BY <1>8, <1>9 DEF carried, options

-----------------------------------------------------------------------------
\* The invariant.

LEMMA Initially == Init => IInv
  BY DEF Init, IInv, Made, ServerMade, RecordMade, BundleMade, SpecHostGetsLittle, NothingShown, ExportReproduces

\* A step without requests, or with those for a document only.
LEMMA NoCalls == ASSUME calls' = {} PROVE SpecHostGetsLittle'
  BY DEF SpecHostGetsLittle

LEMMA DocumentCalls ==
  ASSUME NEW options, calls' = SpecCalls(options, options.spec_with_auth) PROVE SpecHostGetsLittle'
  BY SpecCallsProper DEF SpecHostGetsLittle, IsAgentHeader, Untrusted

\* A step that shows nothing, or what the host of a document has repeated.
LEMMA ShowsNothing == ASSUME NEW texts, texts \cap Secrets = {}, Show(texts) PROVE NothingShown'
  BY DEF Show, NothingShown

LEMMA ShowsRepeated ==
  ASSUME NEW options, calls' # {}, \A call \in SpecCalls(options, options.spec_with_auth) : call \in calls',
         SpecCalls(options, options.spec_with_auth) # {}, Show(Repeated(options, "spec"))
  PROVE NothingShown'
  <1> SUFFICES ASSUME NEW text \in shown'
               PROVE \E call \in calls' : Untrusted(call)
                        /\ \E credential \in call.credentials : IsAgentHeader(credential) /\ credential[4] = text
    BY DEF NothingShown, Untrusted, IsAgentHeader
  <1>1. text \in Repeated(options, "spec")
    BY DEF Show
  <1>2. PICK call \in SpecCalls(options, options.spec_with_auth) : TRUE
    OBVIOUS
  <1> QED BY <1>1, <1>2, RepeatedFacts

LEMMA MadeUnchanged ==
  ASSUME Made, UNCHANGED <<server, record, bundle, history>> PROVE Made'
  BY DEF Made, ServerMade, RecordMade, BundleMade, ExportReproduces, history

LEMMA OwnTrust ==
  ASSUME NEW definition PROVE CreateServer(definition, FALSE).spec_with_auth = definition.spec_with_auth
  BY DEF CreateServer

LEMMA PlanStep ==
  ASSUME IInv, NEW definition, Plan(definition) PROVE IInv'
  <1>1. Made' BY MadeUnchanged DEF Plan, IInv
  <1>2. NothingShown' BY PreviewCovered, ShowsNothing DEF Plan
  <1> QED BY <1>1, <1>2, NoCalls DEF Plan, IInv

LEMMA DiscoverStep ==
  ASSUME IInv, NEW definition, Discover(definition) PROVE IInv'
  <1> DEFINE options == CreateServer(definition, FALSE)
  <1>1. calls' = SpecCalls(options, options.spec_with_auth)
    BY OwnTrust DEF Discover
  <1>2. Made' BY MadeUnchanged DEF Discover, IInv
  <1>3. NothingShown'
    <2>1. CASE Show(SecretsIn(CreateServer(definition, TRUE)))
      BY <2>1, PreviewCovered, ShowsNothing
    <2>2. CASE calls' # {} /\ Show(Repeated(options, "spec"))
      <3> HIDE DEF options
      <3> QED BY <1>1, <2>2, ShowsRepeated
    <2> QED BY <2>1, <2>2 DEF Discover
  <1>4. SpecHostGetsLittle'
    <2> HIDE DEF options
    <2> QED BY <1>1, DocumentCalls
  <1> QED BY <1>2, <1>3, <1>4 DEF IInv

LEMMA ApplyStep ==
  ASSUME IInv, NEW definition, Sound(definition), definition # None, Apply(definition) PROVE IInv'
  <1> DEFINE options == CreateServer(definition, FALSE)
  <1>1. calls' = SpecCalls(options, options.spec_with_auth)
    BY OwnTrust DEF Apply
  <1>2. SpecHostGetsLittle'
    <2> HIDE DEF options
    <2> QED BY <1>1, DocumentCalls
  <1>3. BundleMade'
    BY DEF Apply, IInv, Made, BundleMade
  <1>4. CASE /\ Show(IF calls' = {} THEN {} ELSE Repeated(options, "spec"))
             /\ UNCHANGED <<server, record, entered, imported>>
    <2>1. Made'
      BY <1>4, MadeUnchanged DEF Apply, IInv, history
    <2>2. CASE calls' = {}
      BY <1>2, <1>4, <2>1, <2>2, ShowsNothing DEF IInv
    <2>3. CASE calls' # {}
      <3>1. Show(Repeated(options, "spec")) BY <1>4, <2>3
      <3> HIDE DEF options
      <3>2. NothingShown' BY <1>1, <2>3, <3>1, ShowsRepeated
      <3> QED BY <1>2, <2>1, <3>2 DEF IInv
    <2> QED BY <2>2, <2>3
  <1>5. CASE /\ server' = options
             /\ record' = RedactedDefinition(definition)
             /\ entered' = definition
             /\ imported' = (definition = bundle)
             /\ Show(SecretsIn(CreateServer(definition, TRUE)))
    <2>1. NothingShown' BY <1>5, PreviewCovered, ShowsNothing
    <2>2. Valid(definition, TRUE) /\ exported' = exported BY DEF Apply
    <2>3. server' # None
      BY <1>5, ServerIsOne, SqlServersAssumption DEF Sound
    <2>4. ServerMade' /\ RecordMade' BY <1>5, <2>2, <2>3 DEF ServerMade, RecordMade
    <2>5. ExportReproduces'
      BY <1>5, <2>2, CreatedAsSeen DEF ExportReproduces, IInv, Made, BundleMade
    <2> QED BY <1>2, <1>3, <2>1, <2>4, <2>5 DEF IInv, Made
  <1> QED BY <1>4, <1>5 DEF Apply

LEMMA RecordCovered ==
  ASSUME Made, record # None PROVE TextsOf(record) \cap Secrets = {} /\ Sound(record)
  <1>1. PICK definition : Sound(definition) /\ record = RedactedDefinition(definition)
    BY DEF Made, RecordMade
  <1> QED BY <1>1, RecordFacts

LEMMA StateStep ==
  ASSUME IInv, State PROVE IInv'
  <1> DEFINE recorded == IF record = None THEN {} ELSE TextsOf(record)
  <1>1. server \in Options \/ \E definition : server = CreateServer(definition, FALSE)
    BY DEF State, IInv, Made, ServerMade
  <1>2. SecretsIn(Masked(server)) \cap Secrets = {}
    BY <1>1, MaskedCovered
  <1>3. recorded \cap Secrets = {}
    BY RecordCovered DEF IInv
  <1>4. NothingShown'
    <2>1. (SecretsIn(Masked(server)) \cup recorded) \cap Secrets = {}
      BY <1>2, <1>3
    <2> QED BY <2>1, ShowsNothing DEF State
  <1>5. Made' BY MadeUnchanged DEF State, IInv
  <1> QED BY <1>4, <1>5, NoCalls DEF State, IInv

LEMMA ExportStep ==
  ASSUME IInv, Export PROVE IInv'
  <1>1. NothingShown'
    BY RecordCovered, ShowsNothing DEF Export, Managed, IInv
  <1>2. BundleMade'
    <2>1. Sound(bundle') BY RecordCovered DEF Export, Managed, IInv
    <2>2. ASSUME entered # None PROVE Masked(server) = Seen(record)
      <3>1. /\ record = RedactedDefinition(entered) /\ server = CreateServer(entered, FALSE)
            /\ Valid(entered, TRUE) /\ Sound(entered)
        BY <2>2 DEF IInv, Made, RecordMade, ServerMade
      <3> QED BY <3>1, RecordFacts, CreatedAsSeen
    <2> QED BY <2>1, <2>2 DEF Export, BundleMade
  <1>3. Made'
    BY <1>2 DEF Export, IInv, Made, ServerMade, RecordMade, ExportReproduces
  <1> QED BY <1>1, <1>3, NoCalls DEF Export, IInv

LEMMA ReenterStep ==
  ASSUME IInv, NEW literal \in Literals, Reenter(literal) PROVE IInv'
  <1>1. BundleMade'
    BY ReenterFacts DEF Reenter, IInv, Made, BundleMade, history
  <1>2. Made'
    BY <1>1 DEF Reenter, IInv, Made, ServerMade, RecordMade, ExportReproduces, history
  <1>3. NothingShown'
    BY DEF Reenter, NothingShown
  <1> QED BY <1>2, <1>3, NoCalls DEF Reenter, IInv

LEMMA ScanStep ==
  ASSUME IInv, ScanServer PROVE IInv'
  <1> DEFINE trusted == IF entered = None THEN server.spec_with_auth ELSE entered.spec_with_auth
             document == IF server.base_url THEN {} ELSE SpecCalls(server, trusted)
  <1>1. trusted = server.spec_with_auth
    BY OwnTrust DEF IInv, Made, ServerMade
  <1>2. document \in {{}, SpecCalls(server, server.spec_with_auth)}
    BY <1>1
  <1>3. Made' BY MadeUnchanged DEF ScanServer, IInv
  <1> HIDE DEF trusted
  <1>4. /\ server # None
        /\ \/ document # {} /\ calls' = document /\ Show(Repeated(server, "spec"))
           \/ calls' = document \cup {Call(server, trusted, "api")} /\ Show(Repeated(server, "api"))
    BY DEF ScanServer, trusted
  <1> HIDE DEF document
  <1>5. SpecHostGetsLittle'
    <2> SUFFICES ASSUME NEW call \in calls', Untrusted(call), NEW credential \in call.credentials
                 PROVE IsAgentHeader(credential)
      BY DEF SpecHostGetsLittle, Untrusted, IsAgentHeader
    <2>1. Call(server, trusted, "api").to # "spec"
      BY DEF Call
    <2>2. call \in SpecCalls(server, server.spec_with_auth)
      BY <1>2, <1>4, <2>1 DEF Untrusted
    <2> QED BY <2>2, SpecCallsProper
  <1>6. NothingShown'
    <2>1. CASE document # {} /\ calls' = document /\ Show(Repeated(server, "spec"))
      <3>1. /\ document = SpecCalls(server, server.spec_with_auth)
            /\ calls' = SpecCalls(server, server.spec_with_auth) /\ calls' # {}
        BY <1>2, <2>1
      <3>2. Show(Repeated(server, "spec")) BY <2>1
      <3> QED BY <3>1, <3>2, ShowsRepeated
    <2>2. CASE Show(Repeated(server, "api"))
      BY <2>2, ApiRepeatsNothing, ShowsNothing
    <2> QED BY <1>4, <2>1, <2>2
  <1> QED BY <1>3, <1>5, <1>6 DEF IInv

LEMMA OtherSteps ==
  ASSUME IInv,
         \/ Delete \/ SetEnvironment \/ SqlDrop \/ ScanFails \/ UNCHANGED vars
         \/ \E options \in SqlServers : SqlCreate(options) \/ SqlAlter(options)
  PROVE IInv'
  <1>1. CASE UNCHANGED vars
    BY <1>1 DEF vars, history, IInv, Made, ServerMade, RecordMade, BundleMade, SpecHostGetsLittle, NothingShown,
                ExportReproduces
  <1>2. CASE calls' = {} /\ shown' = {} /\ Made'
    BY <1>2, NoCalls DEF NothingShown, IInv
  <1> USE DEF IInv, Made, ServerMade, RecordMade, BundleMade, ExportReproduces
  <1>3. CASE Delete BY <1>2, <1>3 DEF Delete, Gone
  <1>4. CASE SetEnvironment BY <1>2, <1>4 DEF SetEnvironment, history
  <1>5. CASE SqlDrop BY <1>2, <1>5 DEF SqlDrop, Gone
  <1>6. CASE ScanFails BY <1>2, <1>6 DEF ScanFails, history
  <1>7. ASSUME NEW options \in SqlServers, SqlCreate(options) PROVE IInv'
    <2>1. options \in Options BY SqlServersAssumption
    <2>2. entered = None
      <3>1. server = None BY <1>7 DEF SqlCreate
      <3>2. entered # None => server = CreateServer(entered, FALSE) /\ Sound(entered)
        OBVIOUS
      <3>3. entered # None => server \in Options
        BY <3>2, ServerIsOne DEF Sound
      <3> QED BY <3>1, <3>3, SqlServersAssumption
    <2> QED BY <1>2, <1>7, <2>1, <2>2 DEF SqlCreate
  <1>8. ASSUME NEW options \in SqlServers, SqlAlter(options) PROVE IInv'
    <2>1. options \in Options BY SqlServersAssumption
    <2> QED BY <1>2, <1>8, <2>1 DEF SqlAlter
  <1> QED BY <1>1, <1>3, <1>4, <1>5, <1>6, <1>7, <1>8

LEMMA Step == IInv /\ [Next]_vars => IInv'
  <1> SUFFICES ASSUME IInv, [Next]_vars PROVE IInv' OBVIOUS
  <1>1. ASSUME NEW definition \in Definitions PROVE Sound(definition) /\ definition # None
    BY DefinitionsAssumption DEF Sound
  <1>2. CASE \E definition \in Definitions : Plan(definition) \/ Discover(definition) \/ Apply(definition)
    BY <1>1, <1>2, PlanStep, DiscoverStep, ApplyStep
  <1>3. CASE bundle # None /\ (Plan(bundle) \/ Apply(bundle))
    BY <1>3, PlanStep, ApplyStep DEF IInv, Made, BundleMade
  <1>4. CASE State BY <1>4, StateStep
  <1>5. CASE Export BY <1>5, ExportStep
  <1>6. CASE \E literal \in Literals : Reenter(literal) BY <1>6, ReenterStep
  <1>7. CASE ScanServer BY <1>7, ScanStep
  <1>8. CASE \/ Delete \/ SetEnvironment \/ SqlDrop \/ ScanFails \/ UNCHANGED vars
             \/ \E options \in SqlServers : SqlCreate(options) \/ SqlAlter(options)
    BY <1>8, OtherSteps
  <1> QED BY <1>2, <1>3, <1>4, <1>5, <1>6, <1>7, <1>8 DEF Next

LEMMA Invariance == Spec => []IInv
  BY Initially, Step, PTL DEF Spec

-----------------------------------------------------------------------------
\* The theorems.

\* Nothing the control plane shows, and no error of a request to the API, holds a secret;
\* of a request for a document, only the headers user-agent and accept can be repeated
\* (sql.rs, model.rs, db.rs, options.rs).
THEOREM SecretsStay == Spec => []NothingShown
  <1>1. IInv => NothingShown
    BY DEF IInv
  <1> QED BY <1>1, Invariance, PTL

\* The host of a document gets those two headers at most, unless it is trusted (options.rs).
THEOREM DocumentsGetLittle == Spec => []SpecHostGetsLittle
  <1>1. IInv => SpecHostGetsLittle
    BY DEF IInv
  <1> QED BY <1>1, Invariance, PTL

\* A server made from a definition never has the marker of an export for a secret.
THEOREM MarkersAreReplaced == Spec => []OnlyEnteredSecrets
  <1>1. IInv => OnlyEnteredSecrets
    BY CreatedAsSeen DEF IInv, Made, ServerMade, OnlyEnteredSecrets
  <1> QED BY <1>1, Invariance, PTL

\* A bundle of a server SQL has left alone since it was made, completed or not, applied again
\* gives the server it came from, whatever SQL does to the server after the export.
THEOREM ExportsAreFaithful == Spec => []ExportReproduces
  <1>1. IInv => ExportReproduces
    BY DEF IInv, Made
  <1> QED BY <1>1, Invariance, PTL

\* The only requests to the API are those of a scan, in the environment it finds.
LEMMA CredentialStep == IInv /\ CredentialAsDefined /\ [Next]_vars => CredentialAsDefined'
<1> SUFFICES ASSUME IInv, CredentialAsDefined, [Next]_vars PROVE CredentialAsDefined'
  OBVIOUS
<1>1. ASSUME NEW options, NEW trusted, calls' = SpecCalls(options, trusted)
      PROVE  CredentialAsDefined'
  BY <1>1, SpecCallFacts DEF CredentialAsDefined
<1>2. ASSUME calls' = {} PROVE CredentialAsDefined'
  BY <1>2 DEF CredentialAsDefined
<1>3. ASSUME NEW definition, Plan(definition) \/ Discover(definition) \/ Apply(definition)
      PROVE  CredentialAsDefined'
  <2>1. CASE Plan(definition) BY <1>2, <2>1 DEF Plan
  <2>2. CASE Discover(definition) BY <1>1, <2>2 DEF Discover
  <2>3. CASE Apply(definition) BY <1>1, <2>3 DEF Apply
  <2> QED BY <1>3, <2>1, <2>2, <2>3
<1>4. CASE Delete \/ State \/ Export \/ SetEnvironment \/ SqlDrop \/ ScanFails
  BY <1>2, <1>4 DEF Delete, State, Export, SetEnvironment, SqlDrop, ScanFails
<1>5. CASE \/ \E literal \in Literals : Reenter(literal)
           \/ \E options \in SqlServers : SqlCreate(options) \/ SqlAlter(options)
  BY <1>2, <1>5 DEF Reenter, SqlCreate, SqlAlter
<1>6. CASE ScanServer
  <2> SUFFICES ASSUME NEW call \in calls', call.to = "api", entered' # None, ~Dropped(entered)'
               PROVE  /\ call.credentials \subseteq Asked(entered)'
                      /\ \A asked \in Asked(entered)' :
                           \E credential \in call.credentials :
                             <<asked[1], asked[2]>> = <<credential[1], credential[2]>>
    BY DEF CredentialAsDefined, Dropped, Present
  <2>1. Accepted(server) /\ environment' = environment /\ entered' = entered
    BY <1>6 DEF ScanServer, history
  <2>2. call.credentials = Credentials(server)
    <3>1. \A trusted : \A c \in SpecCalls(server, trusted) : c.to = "spec"
      BY SpecCallFacts
    <3>2. PICK trusted : call = Call(server, trusted, "api")
      BY <1>6, <3>1 DEF ScanServer
    <3> QED BY <3>2 DEF Call, Sent
  <2>3. server = CreateServer(entered, FALSE) /\ Valid(entered, TRUE) /\ Sound(entered)
    BY <2>1 DEF IInv, Made, ServerMade
  <2>4. Asked(entered)' = Asked(entered) /\ Dropped(entered)' = Dropped(entered)
    BY <2>1 DEF Asked, Value, Dropped
  <2>5. /\ Credentials(server) \subseteq Asked(entered)
        /\ \A asked \in Asked(entered) :
             \E credential \in Credentials(server) : <<asked[1], asked[2]>> = <<credential[1], credential[2]>>
    BY <2>1, <2>3, <2>4, CredentialsCarried
  <2> QED BY <2>2, <2>4, <2>5
<1>7. CASE UNCHANGED vars
  BY <1>7 DEF vars, history, CredentialAsDefined, Asked, Value, Dropped, Present
<1>8. QED BY <1>3, <1>4, <1>5, <1>6, <1>7 DEF Next

\* Whatever happens on the way, a request carries what the definition its server was
\* made from asks for, each under its name, or is not made (sql.rs, options.rs).
THEOREM CredentialsArrive == Spec => []CredentialAsDefined
<1>1. Init => CredentialAsDefined
  BY DEF Init, CredentialAsDefined
<1> QED BY <1>1, CredentialStep, Invariance, PTL DEF Spec
=============================================================================
