\* Two backends deliver to two endpoints, with a crash and an endpoint change.
SPECIFICATION DeliverySpec
CONSTANTS
    e1 = e1  e2 = e2  w1 = w1  w2 = w2
    Endpoint = {e1, e2}
    Worker = {w1, w2}
    Retries = 1
    BatchLimit = 2
    MaxWait = 1
    MaxLate = 1
    MaxDeliveries = 2
    MaxChanges = 1
    MaxCrashes = 1
    Nobody = Nobody
INVARIANTS
    OutboxInv
    AtLeastOnce
PROPERTIES
    DeliveriesSettle
