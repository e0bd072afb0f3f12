------------------------------ MODULE MCSystem -------------------------------
(* System with the packet dumper of the WAN and that of the modem, which    *)
(* only listens when its interface is there.                                *)
EXTENDS System

MCDumperSeq == <<"wan", "usb">>
=============================================================================
