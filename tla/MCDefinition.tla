---------------------------- MODULE MCDefinition ----------------------------
(* An instance of Definition for TLC. *)
EXTENDS Definition, TLC

CONSTANTS l1, l2, var, v1

MCSpellings == <<"Authorization", "Key", "key", "user-agent", "x-api-key">>

MCLower == [name \in ToSet(MCSpellings) |->
  CASE name = "Authorization" -> "authorization" [] name = "Key" -> "key" [] OTHER -> name]

MCSecret(value, env, configured) == [value |-> value, env |-> env, configured |-> configured]

\* Entered as a literal, with an empty reference too, as a reference, both, not at all.
MCSecrets ==
  {MCSecret(l1, None, FALSE), MCSecret(l1, Empty, FALSE), MCSecret(None, var, FALSE),
   MCSecret(Empty, var, FALSE), MCSecret(l1, var, FALSE), MCSecret(None, None, TRUE)}

MCAuth(type, secret, name, location, prefix) ==
  [type |-> type, secret |-> secret, name |-> name, location |-> location, prefix |-> prefix]

NoSecret == MCSecret(None, None, FALSE)

MCNone == MCAuth("none", NoSecret, "key", "header", None)
MCBearer(secret) == MCAuth("bearer", secret, "key", "header", None)
MCApiKey(secret, name, location, prefix) == MCAuth("api_key", secret, name, location, prefix)

MCDefinition(auth, headers, headers_env, spec_with_auth) ==
  [plain |-> TRUE, spec |-> {"url"}, base_url |-> spec_with_auth, headers |-> headers,
   headers_env |-> headers_env, auth |-> auth, spec_with_auth |-> spec_with_auth]

MCLiteral == MCSecret(l1, None, FALSE)
MCReference == MCSecret(None, var, FALSE)

\* Each authentication alone, and some with custom headers, given as literals, in
\* two spellings, as the marker, or by the environment, also for the user agent.
MCDefinitions ==
  {[MCDefinition(MCNone, <<>>, <<>>, FALSE) EXCEPT !.plain = FALSE]}
    \cup {MCDefinition(auth, <<>>, <<>>, FALSE) :
           auth \in {MCBearer(secret) : secret \in MCSecrets}
                    \cup {MCApiKey(MCReference, "Key", "header", "key")}
                    \cup {MCApiKey(MCLiteral, "user-agent", location, None) : location \in {"header", "query"}}}
    \cup {MCDefinition(MCBearer(MCReference), "Key" :> l1 @@ "key" :> l2 @@ "user-agent" :> l2, <<>>, TRUE),
          MCDefinition(MCApiKey(MCLiteral, "Key", "query", None), "key" :> l2, <<>>, TRUE),
          MCDefinition(MCApiKey(MCLiteral, "Key", "header", None), "key" :> l2, <<>>, TRUE),
          MCDefinition(MCNone, "x-api-key" :> Redacted, <<>>, TRUE),
          MCDefinition(MCNone, "x-api-key" :> l2, "x-api-key" :> var, TRUE),
          MCDefinition(MCNone, "key" :> l2, "x-api-key" :> var, FALSE),
          MCDefinition(MCBearer(MCLiteral), "user-agent" :> l2, <<>>, FALSE),
          MCDefinition(MCNone, <<>>, "user-agent" :> var, FALSE)}

\* One of them with the empty reference that an option may hold, one that follows the environment.
MCSqlServers ==
  {[CreateServer(MCDefinition(MCBearer(MCLiteral), "key" :> l2, <<>>, FALSE), FALSE) EXCEPT !.api_key_env = Empty],
   CreateServer(MCDefinition(MCBearer(MCReference), "user-agent" :> l2, <<>>, FALSE), FALSE)}
=============================================================================
