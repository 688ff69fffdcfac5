-------------------------- MODULE MCConformanceGate --------------------------
(* Catalogs whose promises point in different directions, and the wrong    *)
(* answers of the gate's own suite.                                        *)
EXTENDS ConformanceGate

Plan(id, says, version) == [id |-> id, says |-> says, version |-> version]

Service(id, demo, bindable, instances, updateable, plans) ==
    [id |-> id, demo |-> demo, bindable |-> bindable, instances |-> instances,
     bindings |-> instances = "promised", updateable |-> updateable, plans |-> plans]

Demo == Service("demo", TRUE, TRUE, "answered", FALSE, <<Plan("free", "unset", TRUE)>>)

Directed(small, large) ==
    Service("real", FALSE, TRUE, "promised", TRUE,
            <<Plan("small", small, TRUE), Plan("large", large, FALSE)>>)

Strict(large) ==
    Service("real", FALSE, TRUE, "answered", FALSE,
            <<Plan("small", "yes", TRUE), Plan("large", large, FALSE)>>)

Mere(bindable) ==
    Service("real", FALSE, bindable, "none", FALSE,
            <<Plan("small", "unset", TRUE), Plan("large", "unset", FALSE)>>)

Planless == Service("real", FALSE, TRUE, "promised", TRUE, << >>)

Offer(list, keys, sync, shows) ==
    [services |-> list, display |-> keys, typed |-> keys, sync |-> sync, keys |-> keys,
     shows |-> shows]

MCOffers ==
    {Offer(<<Demo, Directed("unset", "no")>>, TRUE, FALSE, "always"),
     Offer(<<Directed("no", "yes")>>, TRUE, FALSE, "nonempty"),
     Offer(<<Directed("yes", "unset")>>, FALSE, TRUE, "always"),
     Offer(<<Strict("unset")>>, TRUE, TRUE, "never"),
     Offer(<<Mere(TRUE)>>, TRUE, TRUE, "always"),
     Offer(<<Mere(FALSE)>>, FALSE, TRUE, "always"),
     Offer(<<Planless, Demo>>, TRUE, TRUE, "always"),
     Offer(<<Demo>>, FALSE, FALSE, "always"),
     Offer(<<>>, TRUE, FALSE, "always")}

MCWanted ==
    {[service |-> None, plan |-> None], [service |-> "real", plan |-> "large"],
     [service |-> "real", plan |-> "tiny"]}

Wrong(step, status) == [step |-> step, status |-> status, body |-> "right"]
Garbled(step, status) == [step |-> step, status |-> status, body |-> "wrong"]
Bare(step, status) == [step |-> step, status |-> status, body |-> "bare"]

MCDefects ==
    {Bare("auth", 401), Wrong("auth", 200), Wrong("healthz", 401), Wrong("unversioned", 200),
     Wrong("foreign", 200), Bare("catalog", 200), Wrong("display", 200), Wrong("unknown", 500),
     Wrong("absent", 200), Bare("errorbody", 400), Wrong("provision", 200),
     Wrong("reprovision", 201), Wrong("noservice", 500), Wrong("noplan", 202), Wrong("bind", 200),
     Bare("bind", 201), Wrong("spec", 201), Wrong("rebind", 201), Wrong("bindghost", 200),
     Wrong("get", 404), Wrong("getbinding", 404), Bare("operation", 200), Wrong("update", 500),
     Wrong("parameters", 400), Wrong("parameters", 200), Garbled("report", 200),
     Bare("report", 200), Garbled("get", 200), Wrong("unbind", 500), Wrong("conflict", 200),
     Wrong("conflict", 500), Wrong("change", 200), Wrong("change", 422), Wrong("change", 400),
     Bare("maintenance", 200), Wrong("stale", 200), Wrong("cleanup", 500), Wrong("delete", 500),
     Wrong("redelete", 200)}
==============================================================================
