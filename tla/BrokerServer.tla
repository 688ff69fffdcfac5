----------------------------- MODULE BrokerServer -----------------------------
(***************************************************************************)
(* The broker's process (main.go, internal/server): it starts from its     *)
(* environment, serves TLS from files that a rotation replaces one by one, *)
(* answers the requests of its connections, and on SIGTERM drains them.    *)
(* The kubelet restarts a process that has ended.                          *)
(***************************************************************************)
EXTENDS BrokerConfig

CONSTANTS
    Environments,
    Kinds,              \* what clients present
    Conns,              \* bound: connections at a time
    Generations,        \* of certificate, key and CA
    MaxWrites,          \* bound: writes to the files
    Nothing

ASSUME ServerAssumption ==
    /\ \A e \in Environments :
          /\ e.methods \subseteq {"basic", "mtls", "other"}
          /\ {e.basic, e.mtls, e.tls, e.ca, e.allowlist} \subseteq BOOLEAN
    /\ \A k \in Kinds : k.cert # NoCert => k.cert.ca \in Generations \union {SystemRoots}
    /\ SystemRoots \notin Generations
    /\ (Generations \union {SystemRoots}) \cap {"absent", "garbled", "empty"} = {}
    /\ MaxWrites \in Nat

Files == {"cert", "key", "ca"}

\* A file's content: whole, of some generation, or caught in the middle.  An
\* empty certificate or key is a garbled one.
Contents(f) == Generations \union {"absent", "garbled"} \union (IF f = "ca" THEN {"empty"} ELSE {})

Asks == {"call", "unversioned", "unrouted", "free"}

VARIABLES
    env,        \* one of Environments, for good
    files,      \* what each of the Files contains
    writes,     \* writes so far
    phase,      \* "starting", "serving", "draining", "stopped" (exit 0), "failed"
    reload,     \* the reloader: what it has read, Nothing if not yet
    served,     \* the material handshakes get, Nothing before it is loaded
    conn        \* [Conns -> at, kind, pool, ask and status of its request]

vars == <<env, files, writes, phase, reload, served, conn>>

Idle == [cert |-> Nothing, key |-> Nothing]

Closed == [at |-> "closed", kind |-> Nothing, pool |-> Nothing, ask |-> Nothing, status |-> 0]

AllClosed == [c \in Conns |-> Closed]

Init ==
    /\ env \in Environments
    /\ files \in [Files -> Generations]
    /\ files["cert"] = files["key"]
    /\ writes = 0
    /\ phase = "starting"
    /\ reload = Idle /\ served = Nothing
    /\ conn = AllClosed

Ended == phase \in {"stopped", "failed"}

-----------------------------------------------------------------------------
(* Start.                                                                  *)

\* config.Load fails, or what it leads to: the kubeconfig, the definitions,
\* the namespace template, the port.
Fail ==
    /\ phase = "starting"
    /\ phase' = "failed"
    /\ UNCHANGED <<env, files, writes, reload, served, conn>>

Listen ==
    /\ phase = "starting" /\ Loads(env)
    /\ env.tls => served # Nothing
    /\ phase' = "serving"
    /\ UNCHANGED <<env, files, writes, reload, served, conn>>

-----------------------------------------------------------------------------
(* The reloader, by NewCertReloader or by its ticker.                      *)

\* At start a failed load is fatal; later the material in use stays.
KeepPrevious ==
    /\ reload' = Idle
    /\ phase' = IF phase = "starting" THEN "failed" ELSE phase
    /\ UNCHANGED served

MayReload ==
    /\ Loads(env) /\ env.tls
    /\ \/ phase = "starting" /\ served = Nothing
       \/ phase \in {"serving", "draining"} /\ env.polls

ReadCert ==
    /\ MayReload /\ reload = Idle
    /\ \/ files["cert"] = "absent" /\ KeepPrevious
       \/ /\ files["cert"] # "absent"
          /\ reload' = [Idle EXCEPT !.cert = files["cert"]]
          /\ UNCHANGED <<phase, served>>
    /\ UNCHANGED <<env, files, writes, conn>>

ReadKey ==
    /\ ~Ended /\ reload.cert # Nothing /\ reload.key = Nothing
    /\ \/ files["key"] = "absent" /\ KeepPrevious
       \/ /\ files["key"] # "absent"
          /\ reload' = [reload EXCEPT !.key = files["key"]]
          /\ UNCHANGED <<phase, served>>
    /\ UNCHANGED <<env, files, writes, conn>>

\* Without a CA file there is nothing to read: caPEM is empty.
CARead == IF env.ca THEN files["ca"] ELSE "empty"

\* Mutant of PairFits: certificate and key are parsed one by one.
EachParses(cert, key) == cert \in Generations /\ key \in Generations

\* X509KeyPair, ParseCertificate
PairFits(cert, key) == cert \in Generations /\ key = cert

\* Mutant of Unchanged: the digest of the CA is left out.
PairUnchanged(m) == served # Nothing /\ m.cert = served.cert /\ m.key = served.key

\* The three digests are those of the material in use.
Unchanged(m) == m = served

\* An empty bundle is no error: the pool is nil then.
Swap ==
    /\ ~Ended /\ reload.key # Nothing
    /\ LET new == [cert |-> reload.cert, key |-> reload.key, ca |-> CARead]
           good == new.ca # "absent" /\ (Unchanged(new) \/ (PairFits(new.cert, new.key) /\ new.ca # "garbled"))
       IN  \/ ~good /\ KeepPrevious
           \/ /\ good
              /\ served' = IF Unchanged(new) THEN served ELSE new
              /\ reload' = Idle
              /\ UNCHANGED phase
    /\ UNCHANGED <<env, files, writes, conn>>

\* cert-manager or an operator; one file at a time.
WriteFile(f, content) ==
    /\ writes < MaxWrites
    /\ files[f] # content
    /\ files' = [files EXCEPT ![f] = content]
    /\ writes' = writes + 1
    /\ UNCHANGED <<env, phase, reload, served, conn>>

-----------------------------------------------------------------------------
(* Connections.                                                            *)

\* The pool is the one in use when the handshake starts.
Handshake(c, kind) ==
    /\ phase = "serving"
    /\ conn[c].at \in {"closed", "refused"}
    /\ LET pool == IF env.tls THEN served.ca ELSE "empty"
       IN  conn' = [conn EXCEPT ![c] =
               [Closed EXCEPT !.at = IF Handshakes(env, kind, pool) THEN "open" ELSE "refused",
                              !.kind = kind, !.pool = pool]]
    /\ UNCHANGED <<env, files, writes, phase, reload, served>>

Request(c, ask) ==
    /\ phase = "serving"
    /\ conn[c].at = "open"
    /\ conn' = [conn EXCEPT ![c].at = "busy", ![c].ask = ask, ![c].status = 0]
    /\ UNCHANGED <<env, files, writes, phase, reload, served>>

Answer(c) ==
    /\ ~Ended
    /\ conn[c].at = "busy"
    /\ conn' = [conn EXCEPT ![c].at = "open",
                            ![c].status = Status(env, conn[c].kind, conn[c].ask)]
    /\ UNCHANGED <<env, files, writes, phase, reload, served>>

Hangup(c) ==
    /\ conn[c].at = "open"
    /\ conn' = [conn EXCEPT ![c] = Closed]
    /\ UNCHANGED <<env, files, writes, phase, reload, served>>

-----------------------------------------------------------------------------
(* The end.                                                                *)

\* SIGTERM: the context is cancelled, no connection is accepted any more.
Terminate ==
    /\ phase = "serving"
    /\ phase' = "draining"
    /\ UNCHANGED <<env, files, writes, reload, served, conn>>

Busy == {c \in Conns : conn[c].at = "busy"}

\* Mutant of Drains: Close instead of Shutdown.
DrainsNobody(left) == TRUE

\* Shutdown returns when no request is in flight.
Drains(left) == left = {}

Stop ==
    /\ phase = "draining" /\ Drains(Busy)
    /\ phase' = "stopped"
    /\ UNCHANGED <<env, files, writes, reload, served, conn>>

\* SERVER_SHUTDOWN_TIMEOUT: main ends with the error of Shutdown.
GiveUp ==
    /\ phase = "draining" /\ Busy # {}
    /\ phase' = "failed"
    /\ UNCHANGED <<env, files, writes, reload, served, conn>>

Restart ==
    /\ Ended
    /\ phase' = "starting"
    /\ reload' = Idle /\ served' = Nothing
    /\ conn' = AllClosed
    /\ UNCHANGED <<env, files, writes>>

Next ==
    \/ Fail \/ Listen
    \/ ReadCert \/ ReadKey \/ Swap
    \/ \E f \in Files : \E content \in Contents(f) : WriteFile(f, content)
    \/ \E c \in Conns :
          \/ \E kind \in Kinds : Handshake(c, kind)
          \/ \E ask \in Asks : Request(c, ask)
          \/ Answer(c) \/ Hangup(c)
    \/ Terminate \/ Stop \/ GiveUp \/ Restart

Spec == Init /\ [][Next]_vars

\* The ticker ticks and the timeout passes; nothing is assumed of handlers,
\* clients or the kubelet.
FairSpec ==
    /\ Spec
    /\ WF_vars(phase = "serving" /\ ReadCert) /\ WF_vars(ReadKey) /\ WF_vars(Swap)
    /\ WF_vars(Stop) /\ WF_vars(GiveUp)

-----------------------------------------------------------------------------
(* Properties.                                                             *)

\* The CA in use when the connection was opened signed the certificate, or the
\* CA file was empty then: the broker has no CA of its own after that, and takes
\* what any public CA signed, although it is to take "any certificate the
\* configured CA signed".
Vouched(c) ==
    \/ conn[c].kind.cert.ca = conn[c].pool
    \/ conn[c].pool = "empty" /\ conn[c].kind.cert.ca = SystemRoots

Entitled(c) ==
    LET k == conn[c].kind
    IN  \/ Active(env) = {}
        \/ "basic" \in Active(env) /\ k.basic = "right"
        \/ "mtls" \in Active(env) /\ k.cert # NoCert /\ Vouched(c)
              /\ (env.allowlist => k.cert.listed)

\* "Any one configured method succeeding is enough", and none locks the
\* others out at the handshake: outside the free paths a client is refused
\* exactly if nothing it presents is what an active method accepts, and a
\* handshake fails only over a certificate nobody trusted vouches for, or over
\* none where a certificate is the only way in.  Whom an emptied CA file lets in
\* is said by Vouched.
AnyMethodIsEnough ==
    \A c \in Conns :
        /\ conn[c].status # 0 /\ conn[c].ask # "free"
           => (conn[c].status = 401 <=> ~Entitled(c))
        /\ conn[c].at = "refused"
           => IF conn[c].kind.cert = NoCert THEN Active(env) = {"mtls"}
              ELSE ~Vouched(c)

\* A rotation that is read half-way is not served: handshakes get a
\* certificate and the key that belongs to it.
PairServed == served # Nothing => served.cert = served.key /\ served.cert \in Generations

Whole == files["cert"] = files["key"] /\ \A f \in Files : files[f] \in Generations

\* Whatever a rotation went through, once its files are whole and stay so
\* they are served, without a restart, if the broker polls at all.
RotationServed ==
    Whole /\ phase = "serving" /\ env.tls /\ env.polls
    ~> \/ ~Whole \/ phase # "serving"
       \/ /\ served # Nothing /\ served.cert = files["cert"]
          /\ env.ca => served.ca = files["ca"]

\* After SIGTERM the process ends whatever its handlers do, and an end it
\* reports as regular has cut no request off.
StopsClean ==
    phase = "draining" ~> (phase = "stopped" /\ Busy = {}) \/ phase = "failed"
=============================================================================
