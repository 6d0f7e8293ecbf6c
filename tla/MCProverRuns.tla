---------------------------- MODULE MCProverRuns ----------------------------
(* Instances of ProverRuns for TLC. *)
EXTENDS ProverRuns, TLC

Site(p) == Url("https", "site", p, TRUE)

\* A configuration file that contradicts the callers' flags.
OtherFile == [rpc_node_url |-> "elsewhere", chain_id |-> "SN_MAIN", port |-> 1,
              max_concurrent_requests |-> 1, validate_zero_fee_fields |-> FALSE,
              cors_allow_origin |-> <<Site(443), Site(8443), Site(None)>>]

\* Environments: a file; a file with half of a TLS configuration, completed
\* or not; a variable that is out of range.
MCEnvs ==
    { [config_file |-> OtherFile, prefetch_state |-> TRUE],
      [config_file |-> [tls_cert_file |-> "cert"], tls_key_file |-> "key",
       cors_allow_origin |-> <<Site(None), Wildcard, Bad>>],
      [tls_cert_file |-> "cert"],
      [max_concurrent_requests |-> 0] }

\* All prove requests are for one session.
MCSessionOf == [s \in Scripts |-> "session"]
=============================================================================
