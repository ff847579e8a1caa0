--------------------------- MODULE MCLegacyReload ---------------------------
(***************************************************************************)
(* Three versions of the files: 2 moves both listeners, adds an outbound   *)
(* and the rule-set file g and enables the metrics; 3, an edit of g, drops *)
(* an outbound, moves the dashboard and changes an option of listener a at *)
(* the address it has in 2, so that from 2 the new one cannot be bound     *)
(* while b is reused.                                                      *)
(***************************************************************************)
EXTENDS LegacyReload

At(addr, opt) == [addr |-> addr, opt |-> opt]
Section(tag, addr, opt) == [tag |-> tag, spec |-> At(addr, opt)]

MCConfig ==
    << [inbounds |-> <<Section("a", "A1", 0), Section("b", "B1", 0)>>,
        outbounds |-> {Section("x", "x", 0)}, targets |-> {"x"}, files |-> {"f"},
        endpoints |-> [metrics |-> Off, dashboard |-> At("D1", 0)]],
       [inbounds |-> <<Section("a", "A2", 0), Section("b", "B2", 0)>>,
        outbounds |-> {Section("x", "x", 0), Section("y", "y", 0)}, targets |-> {"x", "y"},
        files |-> {"f", "g"}, endpoints |-> [metrics |-> At("M1", 0), dashboard |-> At("D1", 0)]],
       [inbounds |-> <<Section("b", "B2", 0), Section("a", "A2", 1)>>,
        outbounds |-> {Section("y", "y", 0)}, targets |-> {"y"}, files |-> {"g"},
        endpoints |-> [metrics |-> Off, dashboard |-> At("D2", 0)]] >>

MCEditPath == <<"main", "main", "g">>
=============================================================================
