------------------------- MODULE MCDeviceConnection -------------------------
EXTENDS DeviceConnection, TLC

KeySymm == Permutations(Keys)
=============================================================================
