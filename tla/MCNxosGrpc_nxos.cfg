\* NX-OS module: two sessions, two messages each; data is forwarded.
CONSTANTS
    s1 = s1
    s2 = s2
    Sessions <- MCSessions
    MaxMsgs = 2
    ListenerPorts = {0, 50001}
    ListenResults = {TRUE, FALSE}
SPECIFICATION Spec
INVARIANT TypeOK
PROPERTY DataForwarded
