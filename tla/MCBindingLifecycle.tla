-------------------------- MODULE MCBindingLifecycle --------------------------
(***************************************************************************)
(* BindingLifecycle on a small instance, see MCbindings.cfg.               *)
(***************************************************************************)
EXTENDS BindingLifecycle

\* Every call of the two handlers may fail, except the reads of the record and
\* of the Secret: what a failure of those does is told in the README.
WriteFaults == {"source", "owner", "project", "put", "credentials",
                "unproject", "delete", "deleteCredentials", "crash"}

WithOverlap == WriteFaults \union {"overlap"}
=============================================================================
