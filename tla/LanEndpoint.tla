---------------------------- MODULE LanEndpoint ------------------------------
(***************************************************************************)
(* Where a camera is found on the LAN: the pagelist's CONNECTION and WIFI  *)
(* blocks as models.py reads them twice, Device.from_api() for the         *)
(* inventory of cameras() and DeviceEndpoint.from_connection() for         *)
(* prepare_live(), and what live() dials with the fields of the Camera     *)
(* between the two, while the camera's own addresses change.               *)
(*                                                                         *)
(* A port is 0 if it is None or absent; PreparedTogether of ClientSession  *)
(* is about the same fields when several tasks prepare at once.            *)
(***************************************************************************)
EXTENDS Naturals

CONSTANTS
    Hosts,       \* addresses a camera can have
    Ports,       \* ports a camera can report
    MaxChanges   \* bound: changes of what the cloud knows of the camera

CmdPortDefault == 8000      \* models.py _DEFAULT_CMD_PORT
DEFAULT_COMMAND_PORT == 9010
DEFAULT_STREAM_PORT == 9020

ASSUME EndpointAssumption == MaxChanges \in Nat /\ Ports \subseteq Nat \ {0}

VARIABLES
    cloud,    \* the blocks of the camera in the pagelist
    device,   \* Device.local_ip of the last cameras(), with the blocks it was read from
    fields,   \* the Camera's local_ip, cmd_port and stream_port, and the blocks of the
              \* last prepare_live()
    dialed,   \* what the last live() dials, and the blocks its fields were read from
    changes

endpointVars == <<cloud, device, fields, dialed, changes>>

\* A field of a block is absent (or no string), or a host with or without blanks around it;
\* a field of no host is empty or holds blanks only.
None == [host |-> "none", blanks |-> FALSE]
Empty == [host |-> "", blanks |-> FALSE]
Text == {None} \cup [host : Hosts \cup {"", "0.0.0.0"}, blanks : BOOLEAN]

Blocks == [address : Text, localIp : Text, localCmdPort : Ports \cup {0},
           localStreamPort : Ports \cup {0}]

NoBlocks == [address |-> None, localIp |-> None, localCmdPort |-> 0, localStreamPort |-> 0]

Strip(text) == [text EXCEPT !.blanks = FALSE]

EndpointInit ==
    /\ cloud = NoBlocks
    /\ device = [local_ip |-> None, of |-> NoBlocks]
    /\ fields = [local_ip |-> None, cmd_port |-> 0, stream_port |-> 0, of |-> NoBlocks]
    /\ dialed = [host |-> None, command |-> 0, stream |-> 0, of |-> NoBlocks]
    /\ changes = 0

-----------------------------------------------------------------------------
(* models.py.                                                              *)

\* isinstance(address, str) and address.strip() and address != "0.0.0.0"
WifiUsable(blocks) ==
    /\ Strip(blocks.address) \notin {None, Empty}
    /\ blocks.address # [host |-> "0.0.0.0", blanks |-> FALSE]

\* Device.from_api(): the address of CONNECTION is taken as it is.
DeviceAddress(blocks) ==
    IF WifiUsable(blocks) THEN Strip(blocks.address)
    ELSE IF blocks.localIp = Empty THEN None ELSE blocks.localIp

\* Faulty EndpointAddress: CONNECTION comes first.
EndpointAddressLan(blocks) ==
    IF Strip(blocks.localIp) \notin {None, Empty} THEN Strip(blocks.localIp)
    ELSE IF WifiUsable(blocks) THEN Strip(blocks.address)
    ELSE None

\* DeviceEndpoint.from_connection(); None where it raises.
EndpointAddress(blocks) ==
    IF WifiUsable(blocks) THEN Strip(blocks.address)
    ELSE IF Strip(blocks.localIp) \in {None, Empty} THEN None
    ELSE Strip(blocks.localIp)

\* A port of 0 or none is replaced, or none.
CmdPort(blocks) == IF blocks.localCmdPort = 0 THEN CmdPortDefault ELSE blocks.localCmdPort

-----------------------------------------------------------------------------

\* The camera has got another address, has been moved to another network, or reports more.
CloudChanges ==
    /\ changes < MaxChanges
    /\ changes' = changes + 1
    /\ cloud' \in Blocks
    /\ UNCHANGED <<device, fields, dialed>>

\* cameras(): a new Camera, of which nothing is known but its Device.
Cameras ==
    /\ device' = [local_ip |-> DeviceAddress(cloud), of |-> cloud]
    /\ fields' = [local_ip |-> None, cmd_port |-> 0, stream_port |-> 0, of |-> NoBlocks]
    /\ UNCHANGED <<cloud, dialed, changes>>

Prepared(blocks) ==
    [local_ip |-> EndpointAddress(blocks),
     cmd_port |-> CmdPort(blocks),
     stream_port |-> IF blocks.localStreamPort = 0 THEN fields.stream_port
                     ELSE blocks.localStreamPort,
     of |-> blocks]

\* Without a CONNECTION block or a usable address prepare_live() raises and changes nothing.
PrepareLive ==
    /\ EndpointAddress(cloud) # None
    /\ fields' = Prepared(cloud)
    /\ UNCHANGED <<cloud, device, dialed, changes>>

Dial(f) ==
    [host |-> f.local_ip,
     command |-> IF f.cmd_port = 0 THEN DEFAULT_COMMAND_PORT ELSE f.cmd_port,
     stream |-> IF f.stream_port = 0 THEN DEFAULT_STREAM_PORT ELSE f.stream_port,
     of |-> f.of]

\* live() prepares the camera unless that has been done before.
Live ==
    /\ \/ fields.local_ip # None /\ UNCHANGED fields
       \/ fields.local_ip = None /\ EndpointAddress(cloud) # None /\ fields' = Prepared(cloud)
    /\ dialed' = Dial(fields')
    /\ UNCHANGED <<cloud, device, changes>>

EndpointNext == CloudChanges \/ Cameras \/ PrepareLive \/ Live

EndpointSpec == EndpointInit /\ [][EndpointNext]_endpointVars

-----------------------------------------------------------------------------
(* Properties.                                                             *)

\* models.py, Device and DeviceEndpoint: the two readings of the pagelist agree.  A camera
\* prepared from the blocks its inventory entry was read from has the address the inventory
\* shows, blanks apart; and however long ago it was prepared, what live() dials is an address
\* that one set of blocks named, not a mixture of two.
InventoryAgrees ==
    /\ fields.local_ip # None /\ device.of = fields.of =>
           fields.local_ip = Strip(device.local_ip)
    /\ dialed.host # None =>
           dialed.host \in {Strip(dialed.of.address), Strip(dialed.of.localIp)} \ {Empty}
=============================================================================
