---------------------------- MODULE MCEepromStored ----------------------------
EXTENDS EepromStored, TLC

MCMarker == <<1, 2>>
\* The counter and an item of two bytes; the same item with one byte only and
\* another one, which fill the EEPROM to its last cell; that other one alone,
\* with zeros before, between or after.
MCFirmwares == {1 :> 2 @@ 2 :> 2, 1 :> 2 @@ 2 :> 1 @@ 3 :> 1, 1 :> 2 @@ 3 :> 1}
MCValues == 2 :> {<<1, 2>>, <<2, 1>>, <<1>>} @@ 3 :> {<<2>>}
=============================================================================
