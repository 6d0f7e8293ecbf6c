--------------------------- MODULE ServiceConfig ---------------------------
(***************************************************************************)
(* The configuration of the proving service                                *)
(* (starknet_transaction_prover/src/server/config.rs and cors.rs): a JSON  *)
(* file or the defaults, overridden by what clap found in flags and        *)
(* environment, then checked and normalised.                               *)
(***************************************************************************)
EXTENDS Naturals, Sequences, FiniteSetsExt, SequencesExt

CONSTANTS
    None,     \* Option::None
    Bad       \* a text or file that does not parse

-----------------------------------------------------------------------------
(* Origins: the wildcard "*", or what Url::parse makes of another entry.  *)

Wildcard == [any |-> TRUE]

\* bare: no user, path, query or fragment.
Url(s, h, p, b) == [scheme |-> s, host |-> h, port |-> p, bare |-> b]

\* An entry of a list of origins.
IsOrigin(o) ==
    o = Wildcard \/ o = Bad \/ o = Url(o.scheme, o.host, o.port, o.bare)

IsOrigins(origins) ==
    origins \in Seq(ToSet(origins)) /\ \A i \in DOMAIN origins : IsOrigin(origins[i])

DefaultPort(scheme) ==
    IF scheme = "http" THEN 80 ELSE IF scheme = "https" THEN 443 ELSE None

\* Only http and https with a host and nothing else.
OriginOk(o) ==
    /\ o # Bad
    /\ o.scheme \in {"http", "https"}
    /\ o.host # None
    /\ o.bare

\* <scheme>://<host>[:port], without a default port.
normalize_cors_allow_origin(o) ==
    [o EXCEPT !.port = IF @ = DefaultPort(o.scheme) THEN None ELSE @]

PushNew(origins, o) == IF Contains(origins, o) THEN origins ELSE Append(origins, o)

\* Mutant of normalize_cors_allow_origins: the strings are compared before
\* they are normalised.
normalize_cors_allow_originsLate(origins) ==
    IF Contains(origins, Wildcard) THEN <<Wildcard>>
    ELSE LET distinct == FoldLeft(PushNew, <<>>, origins)
         IN  [i \in DOMAIN distinct |-> normalize_cors_allow_origin(distinct[i])]

\* One wildcard makes the rest irrelevant, even what would not parse.
normalize_cors_allow_origins(origins) ==
    IF Contains(origins, Wildcard) THEN <<Wildcard>>
    ELSE LET normal[i \in 0..Len(origins)] ==
                 IF i = 0 THEN <<>>
                 ELSE PushNew(normal[i - 1], normalize_cors_allow_origin(origins[i]))
         IN  normal[Len(origins)]

OriginsOk(origins) ==
    Contains(origins, Wildcard) \/ \A i \in DOMAIN origins : OriginOk(origins[i])

\* What the CORS layer of the server will do.
cors_mode(origins) ==
    IF origins = <<>> THEN "disabled"
    ELSE IF origins = <<Wildcard>> THEN "wildcard" ELSE "allowlist"

-----------------------------------------------------------------------------
(* Arguments and raw configuration *)

RawDefault ==
    [rpc_node_url |-> "", chain_id |-> "SN_MAIN", validate_zero_fee_fields |-> TRUE,
     strk_fee_token_address |-> None, compiled_class_cache_size |-> 600,
     prefetch_state |-> FALSE, use_latest_versioned_constants |-> TRUE,
     ip |-> "0.0.0.0", port |-> 3000, max_concurrent_requests |-> 2,
     max_connections |-> 10, cors_allow_origin |-> <<>>,
     tls_cert_file |-> None, tls_key_file |-> None]

\* The options whose value, when given, simply replaces the one in the file.
PlainOptions ==
    DOMAIN RawDefault \ {"validate_zero_fee_fields", "cors_allow_origin"}

\* The fields of f, and of g where f has none.
Over(f, g) == [x \in DOMAIN f \cup DOMAIN g |-> IF x \in DOMAIN f THEN f[x] ELSE g[x]]

NoArgs ==
    Over([f \in PlainOptions |-> None],
         [config_file |-> None, skip_fee_field_validation |-> FALSE,
          no_cors |-> FALSE, cors_allow_origin |-> <<>>, bouncer_config_override |-> None])

\* clap: a flag goes before the environment, the environment before nothing.
CliArgs(flags, env) == Over(flags, Over(env, NoArgs))

\* Fields a file leaves out take their defaults (serde(default)).
RawFile(file) == IF file \in {None, Bad} THEN RawDefault ELSE Over(file, RawDefault)

\* Mutant of Override: a value of the file that differs from the default
\* stays.
OverrideDefaultsOnly(raw, args) ==
    [f \in DOMAIN raw |->
        IF f \in PlainOptions
        THEN IF args[f] # None /\ raw[f] = RawDefault[f] THEN args[f] ELSE raw[f]
        ELSE IF f = "validate_zero_fee_fields"
        THEN raw[f] /\ ~args.skip_fee_field_validation
        ELSE IF args.no_cors THEN <<>>
        ELSE IF args.cors_allow_origin # <<>> THEN args.cors_allow_origin ELSE raw[f]]

\* The flag for the fee fields can only switch their check off; --no-cors
\* clears the origins of the file.
Override(raw, args) ==
    [f \in DOMAIN raw |->
        IF f \in PlainOptions THEN IF args[f] # None THEN args[f] ELSE raw[f]
        ELSE IF f = "validate_zero_fee_fields"
        THEN raw[f] /\ ~args.skip_fee_field_validation
        ELSE IF args.no_cors THEN <<>>
        ELSE IF args.cors_allow_origin # <<>> THEN args.cors_allow_origin ELSE raw[f]]

-----------------------------------------------------------------------------
(* ServiceConfig::from_args *)

Check(fails, error) == [fails |-> fails, error |-> error]

\* The checks in the order in which they end the start-up.
Checks(args, c) ==
    << Check(args.config_file = Bad, "ConfigFileError"),
       Check(args.ip = Bad, "InvalidArgument"),
       Check(args.no_cors /\ args.cors_allow_origin # <<>>, "InvalidArgument"),
       Check(args.strk_fee_token_address = Bad, "InvalidArgument"),
       Check(c.rpc_node_url = "", "MissingRequiredField"),
       Check(c.max_concurrent_requests = 0, "InvalidArgument"),
       Check(c.max_connections = 0, "InvalidArgument"),
       Check((c.tls_cert_file = None) # (c.tls_key_file = None), "IncompleteTlsConfig"),
       Check(~OriginsOk(c.cors_allow_origin), "InvalidArgument"),
       Check(args.bouncer_config_override = Bad, "ConfigFileError") >>

TransportMode(c) == IF c.tls_cert_file = None THEN "Http" ELSE "Https"

\* The configuration the service runs with, or the error it stops with.
from_args(args) ==
    LET c == Override(RawFile(args.config_file), args)
        checks == Checks(args, c)
        failed == {i \in DOMAIN checks : checks[i].fails}
    IN  IF failed # {} THEN [ok |-> FALSE, error |-> checks[Min(failed)].error]
        ELSE Over([ok |-> TRUE, transport |-> TransportMode(c)],
                  [c EXCEPT !.cors_allow_origin = normalize_cors_allow_origins(@)])
=============================================================================
