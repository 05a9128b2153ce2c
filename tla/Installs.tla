------------------------------ MODULE Installs ------------------------------
(* Installations without a local record (CapabilityInstall) as a part of   *)
(* the market.                                                             *)
EXTENDS Part

CONSTANTS None, MaxSource, MaxFaults

VARIABLES flavor, heavy, source, kept, made, wire, ask, counted, faults

capVars == <<flavor, heavy, source, kept, made, wire, ask, counted, faults>>

Cap == INSTANCE CapabilityInstall WITH Calls <- Callers, MaxContent <- MaxSource,
         content <- source, receipt <- kept, created <- made, net <- wire, call <- ask,
         tracked <- counted

CapStarts ==
  IF part = "capability" THEN Cap!Init
  ELSE /\ flavor = None /\ heavy = None /\ source = None /\ kept = None /\ made = None
       /\ wire = None /\ ask = None /\ counted = None /\ faults = None

CapPart == CapStarts /\ [][part = "capability" /\ Cap!Next /\ UNCHANGED part]_<<part, capVars>>

(* Without a local record the receipt decides alone, and what a caller is  *)
(* told is what happened (installDefaultOperation, installCapability).     *)
HonestInstall == part = "capability" => Cap!TypeOK /\ Cap!HonestInstall
=============================================================================
