----------------------------- MODULE MCFormats -------------------------------
(***************************************************************************)
(* Small instances for TLC of the modules about what the library makes of  *)
(* bytes and records it is given: the frames of IdmxFraming, the packets   *)
(* of MediaPackets, the pictures of HikImage and the addresses of          *)
(* LanEndpoint.  They share nothing, so each behaviour is about one.       *)
(***************************************************************************)
EXTENDS IdmxFraming, MediaPackets, HikImage, LanEndpoint

VARIABLE subject

formatVars == <<subject, vars, packetVars, imageVars, endpointVars>>

FormatsInit ==
    /\ subject \in {"frames", "packets", "pictures", "addresses"}
    /\ Init /\ PacketInit /\ ImageInit /\ EndpointInit
    /\ subject # "frames" => source = "reads" /\ lead = 1
    /\ subject # "pictures" => encrypted = <<>> /\ looks = 0

FormatsNext ==
    \/ subject = "frames" /\ Next
           /\ UNCHANGED <<subject, packetVars, imageVars, endpointVars>>
    \/ subject = "packets" /\ PacketNext
           /\ UNCHANGED <<subject, vars, imageVars, endpointVars>>
    \/ subject = "pictures" /\ ImageNext
           /\ UNCHANGED <<subject, vars, packetVars, endpointVars>>
    \/ subject = "addresses" /\ EndpointNext
           /\ UNCHANGED <<subject, vars, packetVars, imageVars>>

FormatsSpec == FormatsInit /\ [][FormatsNext]_formatVars
=============================================================================
