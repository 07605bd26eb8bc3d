\* Three pids, six processes, three changes anywhere in the call.
SPECIFICATION Spec
CONSTANTS
    Pids = {1, 2, 3}
    Processes = {1, 2, 3, 4, 5, 6}
    Container <- InContainer
    Rss <- Memory
    Containers = {"web1", "web2", "sandbox", "api", "proxy"}
    Pod <- InPod
    Name <- Called
    Reported = {"web1", "web2", "api", "proxy"}
    Starts <- SomeStarts
    MaxChurn = 3
    None = None
INVARIANTS TypeOK AttributionIsOwn MemoryIsOwn
CHECK_DEADLOCK FALSE
