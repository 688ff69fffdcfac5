-------------------------- MODULE BrokerServer_proofs --------------------------
(***************************************************************************)
(* Proofs about the broker's process: a certificate is served with its own *)
(* key, and any one active method is enough.                               *)
(***************************************************************************)
EXTENDS BrokerServer, TLAPS

\* What a handshake gets was swapped in as a pair.
THEOREM PairsServed == Spec => []PairServed
<1>1. Init => PairServed
  BY DEF Init, PairServed
<1>2. PairServed /\ [Next]_vars => PairServed'
  <2> SUFFICES ASSUME PairServed, [Next]_vars PROVE PairServed'
    OBVIOUS
  <2>1. CASE ReadCert
    BY <2>1 DEF PairServed, ReadCert, KeepPrevious
  <2>2. CASE ReadKey
    BY <2>2 DEF PairServed, ReadKey, KeepPrevious
  <2>3. CASE Swap
    BY <2>3 DEF PairServed, Swap, KeepPrevious, Unchanged, PairFits
  <2>4. CASE Restart
    BY <2>4 DEF PairServed, Restart
  <2>5. CASE UNCHANGED served
    BY <2>5 DEF PairServed
  <2> QED
    BY <2>1, <2>2, <2>3, <2>4, <2>5 DEF Next, vars, Fail, Listen, WriteFile,
       Handshake, Request, Answer, Hangup, Terminate, Stop, GiveUp
<1> QED
  BY <1>1, <1>2, PTL DEF Spec

-----------------------------------------------------------------------------
\* The chain tries each active method that is one, whatever came before it.
LEMMA ChainTriesAll ==
    ASSUME NEW e, NEW kind
    PROVE  Authenticates(e, kind) <=>
             \E m \in Active(e) \cap {"basic", "mtls"} : Verdict(e, m, kind) = "ok"
<1>1. CASE "basic" \in Active(e) /\ "mtls" \in Active(e)
  <2>1. Chain(e) = <<"basic", "mtls">>
    BY <1>1 DEF Chain
  <2> QED
    BY <1>1, <2>1 DEF Authenticates
<1>2. CASE "basic" \in Active(e) /\ "mtls" \notin Active(e)
  <2>1. Chain(e) = <<"basic">>
    BY <1>2 DEF Chain
  <2> QED
    BY <1>2, <2>1 DEF Authenticates
<1>3. CASE "basic" \notin Active(e) /\ "mtls" \in Active(e)
  <2>1. Chain(e) = <<"mtls">>
    BY <1>3 DEF Chain
  <2> QED
    BY <1>3, <2>1 DEF Authenticates
<1>4. CASE "basic" \notin Active(e) /\ "mtls" \notin Active(e)
  <2>1. Chain(e) = << >>
    BY <1>4 DEF Chain
  <2> QED
    BY <1>4, <2>1 DEF Authenticates
<1> QED
  BY <1>1, <1>2, <1>3, <1>4

\* What AnyMethodIsEnough calls entitled, of any environment and pool.
May(e, k, pool) ==
    \/ Active(e) = {}
    \/ "basic" \in Active(e) /\ k.basic = "right"
    \/ "mtls" \in Active(e) /\ k.cert # NoCert /\ k.cert.ca = Roots(pool)
          /\ (e.allowlist => k.cert.listed)

\* In an environment that loads, a client that gets through the handshake
\* passes exactly if it may: mTLS is active only where certificates are asked
\* for, and one that is shown has been verified against the pool or, without
\* one, against the system's roots.
LEMMA PassesIfMay ==
    ASSUME NEW e \in Environments, Loads(e), NEW kind \in Kinds, NEW pool,
           Handshakes(e, kind, pool)
    PROVE  Passes(e, kind) <=> May(e, kind, pool)
<1>1. Active(e) \subseteq {"basic", "mtls"}
  BY DEF Active, Available, Loads
<1>2. "mtls" \in Active(e) => e.mtls /\ e.tls
  BY DEF Active, Available, Loads
<1>3. "mtls" \in Active(e) => ClientAuth(e) # "none"
  BY <1>2, ServerAssumption DEF ClientAuth
<1>4. Verdict(e, "basic", kind) = "ok" <=> kind.basic = "right"
  BY DEF Verdict
<1>5. ASSUME "mtls" \in Active(e)
      PROVE  Verdict(e, "mtls", kind) = "ok" <=>
               kind.cert # NoCert /\ kind.cert.ca = Roots(pool) /\ (e.allowlist => kind.cert.listed)
  <2>1. Peer(e, kind) = kind.cert
    BY <1>3, <1>5 DEF Peer
  <2>2. kind.cert # NoCert => kind.cert.ca = Roots(pool)
    BY <1>3, <1>5 DEF Handshakes
  <2> QED
    BY <2>1, <2>2 DEF Verdict
<1>6. Authenticates(e, kind) <=>
        \/ "basic" \in Active(e) /\ kind.basic = "right"
        \/ "mtls" \in Active(e) /\ kind.cert # NoCert /\ kind.cert.ca = Roots(pool)
              /\ (e.allowlist => kind.cert.listed)
  BY <1>1, <1>4, <1>5, ChainTriesAll
<1> QED
  BY <1>6 DEF Passes, May

\* Of the calls that are not free, those that do not pass are answered 401.
LEMMA StatusRefuses ==
    ASSUME NEW e, NEW kind, NEW ask \in Asks \ {"free"}
    PROVE  Status(e, kind, ask) = 401 <=> ~Passes(e, kind)
BY DEF Status, Asks, Passes

-----------------------------------------------------------------------------
\* What a connection's last answer and its handshake were decided by.
Decided(c) ==
    /\ conn[c].at \in {"closed", "refused", "open", "busy"}
    /\ conn[c].at = "closed" => conn[c].status = 0
    /\ conn[c].at # "closed" => Loads(env) /\ conn[c].kind \in Kinds
    /\ conn[c].at = "refused" => conn[c].status = 0 /\ ~Handshakes(env, conn[c].kind, conn[c].pool)
    /\ conn[c].at \in {"open", "busy"} => Handshakes(env, conn[c].kind, conn[c].pool)
    /\ conn[c].at = "busy" => conn[c].ask \in Asks
    /\ conn[c].status # 0 =>
          conn[c].ask \in Asks /\ conn[c].status = Status(env, conn[c].kind, conn[c].ask)

IInv ==
    /\ env \in Environments
    /\ DOMAIN conn = Conns
    /\ phase \in {"serving", "draining"} => Loads(env)
    /\ \A c \in Conns : Decided(c)

LEMMA InitIInv == Init => IInv
BY DEF Init, IInv, Decided, AllClosed, Closed

LEMMA StepIInv == IInv /\ [Next]_vars => IInv'
<1> SUFFICES ASSUME IInv, [Next]_vars PROVE IInv'
  OBVIOUS
<1> USE DEF IInv
<1>1. ASSUME UNCHANGED <<env, conn>>, phase' \in {"serving", "draining"} => Loads(env)
      PROVE  IInv'
  BY <1>1 DEF Decided
<1>2. CASE Listen
  BY <1>1, <1>2 DEF Listen
<1>3. CASE ReadCert
  BY <1>1, <1>3 DEF ReadCert, KeepPrevious
<1>4. CASE ReadKey
  BY <1>1, <1>4 DEF ReadKey, KeepPrevious
<1>5. CASE Swap
  BY <1>1, <1>5 DEF Swap, KeepPrevious
<1>6. ASSUME NEW c \in Conns, NEW kind \in Kinds, Handshake(c, kind) PROVE IInv'
  BY <1>6 DEF Handshake, Decided, Closed
<1>7. ASSUME NEW c \in Conns, NEW ask \in Asks, Request(c, ask) PROVE IInv'
  BY <1>7 DEF Request, Decided
<1>8. ASSUME NEW c \in Conns, Answer(c) PROVE IInv'
  BY <1>8 DEF Answer, Decided
<1>9. ASSUME NEW c \in Conns, Hangup(c) PROVE IInv'
  BY <1>9 DEF Hangup, Decided, Closed
<1>10. CASE Restart
  BY <1>10 DEF Restart, AllClosed, Closed, Decided
<1>11. CASE Terminate \/ Stop \/ GiveUp \/ Fail
  BY <1>1, <1>11 DEF Terminate, Stop, GiveUp, Fail
<1>12. CASE \E f \in Files : \E content \in Contents(f) : WriteFile(f, content)
  BY <1>1, <1>12 DEF WriteFile
<1>13. CASE UNCHANGED vars
  BY <1>1, <1>13 DEF vars
<1> QED
  BY <1>2, <1>3, <1>4, <1>5, <1>6, <1>7, <1>8, <1>9, <1>10, <1>11, <1>12, <1>13 DEF Next

\* Whom the roots of a connection's pool vouch for: a client's CA is a
\* generation or the system's roots, never "empty".
LEMMA VouchedByRoots ==
    ASSUME NEW c \in Conns, conn[c].kind \in Kinds, conn[c].kind.cert # NoCert
    PROVE  Vouched(c) <=> conn[c].kind.cert.ca = Roots(conn[c].pool)
BY ServerAssumption DEF Vouched, Roots

LEMMA DecidedIsEnough == IInv => AnyMethodIsEnough
<1> SUFFICES ASSUME IInv, NEW c \in Conns
    PROVE /\ conn[c].status # 0 /\ conn[c].ask # "free"
             => (conn[c].status = 401 <=> ~Entitled(c))
          /\ conn[c].at = "refused"
             => IF conn[c].kind.cert = NoCert THEN Active(env) = {"mtls"}
                ELSE ~Vouched(c)
  BY DEF AnyMethodIsEnough
<1> USE DEF IInv
<1>1. ASSUME conn[c].status # 0, conn[c].ask # "free"
      PROVE  conn[c].status = 401 <=> ~Entitled(c)
  <2>1. conn[c].kind \in Kinds /\ Loads(env) /\ Handshakes(env, conn[c].kind, conn[c].pool)
    BY <1>1 DEF Decided
  <2>2. conn[c].status = 401 <=> ~Passes(env, conn[c].kind)
    BY <1>1, StatusRefuses DEF Decided, Asks
  <2>3. Entitled(c) <=> May(env, conn[c].kind, conn[c].pool)
    BY <2>1, VouchedByRoots DEF Entitled, May
  <2> QED
    BY <2>1, <2>2, <2>3, PassesIfMay
<1>2. ASSUME conn[c].at = "refused"
      PROVE  IF conn[c].kind.cert = NoCert THEN Active(env) = {"mtls"}
             ELSE ~Vouched(c)
  BY <1>2, VouchedByRoots DEF Decided, Handshakes, ClientAuth
<1> QED
  BY <1>1, <1>2

\* For every set of environments and clients: who is answered 401 is who has
\* nothing an active method accepts, and no active method locks another out.  An
\* accepted certificate was signed by the CA in use or, if its file was empty,
\* by one of the system's roots.
THEOREM AnyMethodAdmits == Spec => []AnyMethodIsEnough
BY InitIInv, StepIInv, DecidedIsEnough, PTL DEF Spec
==============================================================================
