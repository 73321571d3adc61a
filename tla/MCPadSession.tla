---- MODULE MCPadSession ----
EXTENDS PadSession
AllModes == {"l2cap", "l2capUsb", "hidrawBt", "hidrawUsb"}
=============================================================================
