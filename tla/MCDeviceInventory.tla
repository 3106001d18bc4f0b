------------------------- MODULE MCDeviceInventory --------------------------
EXTENDS DeviceInventory
CONSTANTS d1, d2, u1, u2, l, i1
MCLoginOf == [u \in User |-> l]
MCNode == {[tags |-> FALSE, mobile |-> FALSE, login |-> l, routes |-> {}],
           [tags |-> TRUE, mobile |-> FALSE, login |-> NoOne, routes |-> {"subnet"}]}
MCFamilies == {{"users", "devices"}, {"devices", "routes"},
  {"devices", "posture"}, {"devices", "device_invites"}}
=============================================================================
