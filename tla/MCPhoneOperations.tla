------------------------- MODULE MCPhoneOperations -------------------------
(* Three unwraps and local screens, or two operations with pairings among   *)
(* them.                                                                    *)
EXTENDS PhoneOperations

CONSTANTS o1, o2, o3

MCOps == {o1, o2, o3}
MCUnwraps == [o \in MCOps |-> {"usb", "auto", "qr", "local"}]
MCPairings == [o \in MCOps |-> IF o = o3 THEN {}
                               ELSE {"usb", "auto", "usbPair", "wifiPair", "qrPair"}]
MCDraws == {MCUnwraps, MCPairings}
MCPairingDraws == {MCPairings}
=============================================================================
