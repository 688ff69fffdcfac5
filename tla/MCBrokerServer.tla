---------------------------- MODULE MCBrokerServer ----------------------------
(* Environments of each way in, and some that must not start.             *)
EXTENDS BrokerServer

CONSTANTS g1, g2

Plain ==
    [readable |-> TRUE, store |-> "memory", podNamespace |-> FALSE, minVersion |-> "1.2",
     tls |-> FALSE, pair |-> FALSE, basic |-> TRUE, mtls |-> FALSE, require |-> FALSE,
     ca |-> FALSE, allowlist |-> FALSE, methods |-> {}, polls |-> TRUE]

Both == [Plain EXCEPT !.tls = TRUE, !.pair = TRUE, !.mtls = TRUE, !.ca = TRUE, !.require = TRUE]

MCEnvironments ==
    {[Plain EXCEPT !.basic = FALSE, !.store = "k8s", !.podNamespace = TRUE],
     [Both EXCEPT !.allowlist = TRUE],
     [Both EXCEPT !.methods = {"mtls"}],
     [Both EXCEPT !.methods = {"basic"}, !.polls = FALSE],
     [Plain EXCEPT !.mtls = TRUE, !.ca = TRUE],
     [Plain EXCEPT !.methods = {"mtls"}]}

MCKinds ==
    {[basic |-> "none", cert |-> NoCert],
     [basic |-> "right", cert |-> NoCert],
     [basic |-> "wrong", cert |-> [ca |-> g1, listed |-> TRUE]],
     [basic |-> "none", cert |-> [ca |-> g2, listed |-> FALSE]],
     [basic |-> "none", cert |-> [ca |-> SystemRoots, listed |-> TRUE]]}
==============================================================================
