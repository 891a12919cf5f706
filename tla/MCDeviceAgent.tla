--------------------------- MODULE MCDeviceAgent ----------------------------
EXTENDS DeviceAgent
CONSTANTS f, g
MCFilterLists == {<<f>>, <<f, g>>}
=============================================================================
