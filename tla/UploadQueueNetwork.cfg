\* The network comes back while the drain still waits for an answer that was lost.
CONSTANTS
  Items = {i1}
  Screens = {s1}
  MaxFaults = 1
  NoScreen = NoScreen
  NoItem = NoItem
SPECIFICATION QueueFairSpec
PROPERTIES DrainsWhenNetworkIsBack
