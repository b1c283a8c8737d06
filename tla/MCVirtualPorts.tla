----------------------------- MODULE MCVirtualPorts -----------------------------
EXTENDS VirtualPorts

CONSTANTS i1, i2, a1, a2, b1

\* Two instances of PRoot; the first has a second task.
MCInstOf == [t \in {a1, a2, b1} |-> IF t = b1 THEN i2 ELSE i1]
MCAutoPort == [i \in {i1, i2} |-> [f \in {3, 4} |-> f + IF i = i1 THEN 1000 ELSE 2000]]
MCPublished == [i \in {i1, i2} |-> {}]

\* Each habit with the ones it interferes with.
MCNetGuests ==
    {{"serves", "connects", "stray"},
     {"serves", "connects", "ports", "ends"},
     {"serves", "port0", "forks", "exits"},
     {"serves", "threads", "ends"},
     {"serves", "connects", "forks", "exits"},
     {"serves", "connects", "dups"},
     {"serves", "connects", "cleanup"},
     {"serves", "connects", "full"}}

\* A port twice, one the host uses, a -p before --proxy, --proxy twice, one port too many.
MCPubOptions ==
    {<<OptionProxy, OptionPublish(8080, 80), OptionPublish(8080, 81)>>,
     <<OptionProxy, OptionPublish(8080, 80), OptionPublish(22, 81)>>,
     <<OptionPublish(8080, 80), OptionProxy, OptionPublish(8081, 80)>>,
     <<OptionProxy, OptionPublish(8080, 80), OptionProxy, OptionPublish(8081, 81)>>,
     <<OptionProxy, OptionPublish(8080, 80), OptionPublish(8081, 81), OptionPublish(8082, 82)>>}

\* Ports 1 and 2 are privileged, 6 is the last one: a mapping, a chain of two, one that wraps,
\* two of a port, one too many.
MCPortOptions ==
    {<<Mapping(4, 1)>>, <<Mapping(3, 1), Mapping(4, 3)>>, <<AutoRedirect, Mapping(5, 4)>>,
     <<Mapping(6, 2), AutoRedirect, Mapping(3, 2)>>, <<Mapping(4, 1), Mapping(4, 2), Mapping(4, 3)>>}

MCPortGuests ==
    {{"bind", "connect", "closes"}, {"bind", "sendto", "closes"}, {"bind", "rebinds"},
     {"bind", "races"}}

================================================================================
