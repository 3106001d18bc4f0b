\* One source of each kind of worker, with failures between and inside the runs.
SPECIFICATION FairSpec
CONSTANTS
    s1 = s1 p1 = p1 p2 = p2 h1 = h1 h2=h2
    Sources = {"services", "log_streaming", "policy", "flows", "webhooks",
        "credentials", "contacts", "posture_integrations", "tailnet_settings", "dns"}
    Service = {s1}
    Port = {p1, p2}
    Host = {h1,h2}
    LogType = {network, ssh}
    network = network ssh = ssh
    i1 = i1 i2 = i2
    Item = {i1, i2}
    t1 = t1 t2 = t2 t3 = t3
    Text = {t1, t2, t3}
    Unparsable = {t3}
    Window = 3
    Delay = 1
    Horizon = 5
    MaxChanges = 3
    MaxFailures = 2
    Nobody = Nobody
INVARIANTS
    MirrorInv
PROPERTIES
    MirrorCatchesUp
