----------------------------- MODULE BrokerConfig -----------------------------
(***************************************************************************)
(* internal/config and internal/auth: what the environment makes of the    *)
(* broker, and whom the chain of authenticators lets in.  Pure operators.  *)
(*                                                                         *)
(* An environment is a record of what its variables say:                   *)
(*   readable    every boolean and duration can be parsed                  *)
(*   store, podNamespace, minVersion                                       *)
(*   tls, pair   TLS_ENABLED; certificate and key file are named           *)
(*   basic       BROKER_AUTH_USER or BROKER_AUTH_PASSWORD is set           *)
(*   mtls, require, ca, allowlist   MTLS_ENABLED, MTLS_REQUIRE, a client   *)
(*               CA file, some list of allowed names                       *)
(*   methods     the set AUTH_METHODS names, {} if it names none           *)
(*   polls       TLS_RELOAD_INTERVAL is positive                           *)
(* What a client presents: basic ("none", "right", "wrong") and cert,      *)
(* NoCert or the CA that signed it and whether it is on an allowlist.      *)
(***************************************************************************)
EXTENDS Naturals, Sequences

CONSTANTS
    NoCert,
    SystemRoots         \* the CAs the image trusts, all of them as one

\* resolveMethods: what is configured, and what of it AUTH_METHODS selects.
Available(env) ==
    {m \in {"basic", "mtls"} : (m = "basic" /\ env.basic) \/ (m = "mtls" /\ env.mtls)}

Active(env) == IF env.methods = {} THEN Available(env) ELSE env.methods

\* "k8s" is the old name of "crd".
Backend(env) == IF env.store = "k8s" THEN "crd" ELSE env.store

\* LoadFrom and Validate accept the environment.
Loads(env) ==
    /\ env.readable
    /\ Backend(env) \in {"crd", "memory"}
    /\ env.minVersion \in {"1.2", "1.3"}
    /\ env.methods \subseteq Available(env)
    /\ Backend(env) = "crd" => env.podNamespace
    /\ env.tls => env.pair
    /\ env.mtls => env.tls /\ env.ca

\* Mutant of ClientAuth: whoever asks for it gets it.
RequireIfAsked(env) ==
    IF ~env.tls \/ ~env.mtls THEN "none"
    ELSE IF env.require THEN "require" ELSE "optional"

\* deriveClientAuth: certificates are required only if they are the only way in.
ClientAuth(env) ==
    IF ~env.tls \/ ~env.mtls THEN "none"
    ELSE IF env.require /\ Active(env) = {"mtls"} THEN "require" ELSE "optional"

-----------------------------------------------------------------------------
\* crypto/x509: without a pool a certificate may lead to the system's roots.
Roots(pool) == IF pool = "empty" THEN SystemRoots ELSE pool

\* crypto/tls: a certificate that is shown must lead to the pool.
Handshakes(env, kind, pool) ==
    \/ ClientAuth(env) = "none"
    \/ kind.cert = NoCert /\ ClientAuth(env) = "optional"
    \/ kind.cert # NoCert /\ kind.cert.ca = Roots(pool)

\* The certificates a request comes with: none unless the server asked.
Peer(env, kind) == IF ClientAuth(env) = "none" THEN NoCert ELSE kind.cert

\* Authenticate of one method: "ok", or which of the two errors.
Verdict(env, m, kind) ==
    CASE m = "basic" /\ kind.basic = "none" -> "missing"
      [] m = "basic" /\ kind.basic = "right" -> "ok"
      [] m = "mtls" /\ Peer(env, kind) = NoCert -> "missing"
      [] m = "mtls" /\ Peer(env, kind) # NoCert /\ (env.allowlist => kind.cert.listed) -> "ok"
      [] OTHER -> "invalid"

\* The methods in the order the chain tries them.
Chain(env) ==
    IF {"basic", "mtls"} \subseteq Active(env) THEN <<"basic", "mtls">>
    ELSE IF "basic" \in Active(env) THEN <<"basic">>
    ELSE IF "mtls" \in Active(env) THEN <<"mtls">> ELSE << >>

\* Mutant of Authenticates: credentials that are wrong end the search.
FirstInvalidEnds(env, kind) ==
    \E i \in 1..Len(Chain(env)) :
        /\ Verdict(env, Chain(env)[i], kind) = "ok"
        /\ \A j \in 1..(i - 1) : Verdict(env, Chain(env)[j], kind) = "missing"

\* Chain.Authenticate: the first method that accepts is enough.
Authenticates(env, kind) ==
    \E i \in 1..Len(Chain(env)) : Verdict(env, Chain(env)[i], kind) = "ok"

\* authMiddleware: an empty chain lets everybody through.
Passes(env, kind) == Active(env) = {} \/ Authenticates(env, kind)

\* The free paths come before the 401, and that before any route and the 412.
Status(env, kind, ask) ==
    IF ask = "free" THEN 200
    ELSE IF ~Passes(env, kind) THEN 401
    ELSE IF ask = "unrouted" THEN 404
    ELSE IF ask = "unversioned" THEN 412 ELSE 200
==============================================================================
