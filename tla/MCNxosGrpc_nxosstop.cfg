\* NX-OS module: Stop leaves session handlers looping on Recv.
CONSTANTS
    s1 = s1
    s2 = s2
    Sessions <- MCSessions
    MaxMsgs = 1
    ListenerPorts = {0, 50001}
    ListenResults = {TRUE, FALSE}
SPECIFICATION Spec
PROPERTY StopEndsSessions
