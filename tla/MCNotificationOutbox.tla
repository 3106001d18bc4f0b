------------------------ MODULE MCNotificationOutbox ------------------------
(* Instances of NotificationOutbox for TLC: endpoints and backends.         *)
EXTENDS NotificationOutbox

CONSTANTS e1, e2, w1, w2

\* An endpoint of the two is enabled at first; which one makes no difference.
OneEnabled == Init /\ enabled[e1]

DeliverySpec == OneEnabled /\ [][Next]_vars /\ Fairness
=============================================================================
