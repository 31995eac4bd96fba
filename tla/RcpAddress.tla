----------------------------- MODULE RcpAddress -----------------------------
(***************************************************************************)
(* The address of a device (device.c): a program has a rcp_device from the *)
(* list of autodetect or from get_device, gives it another address and     *)
(* broadcasts the whole of it with set_device_address; the device with     *)
(* that hardware address takes all that is in it.                          *)
(*                                                                         *)
(* get_device takes five commands, and the first that fails ends it: the   *)
(* variable is then of two devices.  Datagrams stay on the air: they are   *)
(* delivered late, more than once, out of order or never.  Addresses and   *)
(* gateways are names; the octets of a netmask matter.                     *)
(***************************************************************************)
EXTENDS Integers

CONSTANTS Units,         \* the devices
          NetMasks,      \* netmasks, as four octets
          MaxLookups,    \* bound: calls of get_device and entries of a list
          MaxRequests    \* bound: datagrams

ASSUME AddressAssumption ==
  /\ NetMasks \subseteq [1 .. 4 -> 0 .. 255]
  /\ MaxLookups \in Nat /\ MaxRequests \in Nat

VARIABLES
  has,        \* the settings of each device
  on_air,     \* what has been broadcast
  broadcasts, \* counter
  dev,        \* the caller's variable
  ask_at,     \* the command of get_device that is next, or "idle"
  unit,       \* the device that it asks
  lookups,    \* counter
  whole,      \* the last call has returned 0
  \* History.
  moved,      \* the owner has moved this device to another network
  ever,       \* the gateways and netmasks that each device was given
  careless    \* devices whose address was set after get_device had failed

lookupVars  == <<dev, ask_at, unit, lookups, whole>>
addressVars == <<has, on_air, broadcasts, lookupVars, moved, ever, careless>>

\* What is on the stack belongs to no device.
Nobody == "junk"
NoMask == <<-1, -1, -1, -1>>

Network(d, where, mask) ==
  [address |-> where, gateway |-> <<d, where>>, netmask |-> mask]

AddressInit ==
  /\ \E mask \in NetMasks : has = [d \in Units |-> Network(d, "here", mask)]
  /\ on_air = {} /\ broadcasts = 0
  /\ dev = [hw_addr |-> Nobody, address |-> "junk",
            gateway |-> <<Nobody, "here">>, netmask |-> NoMask]
  /\ ask_at = "idle" /\ unit = Nobody /\ lookups = 0 /\ whole = FALSE
  /\ moved = {} /\ careless = {}
  /\ ever = [d \in Units |-> {[gateway |-> has[d].gateway,
                               netmask |-> has[d].netmask]}]

-----------------------------------------------------------------------------
Lookup ==
  /\ ask_at = "idle" /\ lookups < MaxLookups /\ lookups' = lookups + 1
  /\ UNCHANGED <<has, on_air, broadcasts, moved, ever, careless>>

\* An entry of the list of autodetect, from one datagram.
ListEntry(d) ==
  /\ Lookup
  /\ dev' = [hw_addr |-> d, address |-> has[d].address,
             gateway |-> has[d].gateway, netmask |-> has[d].netmask]
  /\ whole' = TRUE
  /\ UNCHANGED <<ask_at, unit>>

get_device(d) ==
  /\ Lookup
  /\ ask_at' = "MAC_ADDRESS" /\ unit' = d /\ whole' = FALSE
  /\ UNCHANGED dev

\* ntohl(*resp->payload): the first octet, a char, with its sign.
ReadMask(mask) ==
  IF mask[1] > 127 THEN <<255, 255, 255, mask[1]>> ELSE <<0, 0, 0, mask[1]>>

Asks(command) ==
  /\ ask_at = command
  /\ UNCHANGED <<has, on_air, broadcasts, unit, lookups, moved, ever, careless>>

\* Mutant: the result of the command is not looked at.
FailGoesOn(command, next) ==
  /\ Asks(command) /\ ask_at' = next
  /\ whole' = (next = "idle")
  /\ UNCHANGED dev

\* goto error: what has been read stays in the variable.
Fail(command, next) ==
  /\ Asks(command) /\ ask_at' = "idle"
  /\ UNCHANGED <<dev, whole>>

\* The answer to a command is put into a field.
Gets(command, field, value, next) ==
  \/ /\ Asks(command) /\ ask_at' = next
     /\ dev' = [dev EXCEPT ![field] = value]
     /\ UNCHANGED whole
  \/ Fail(command, next)

ReadMac     == Gets("MAC_ADDRESS", "hw_addr", unit, "IP_STR")
ReadIp      == Gets("IP_STR", "address", has[unit].address, "GATEWAY_IP_STR")
ReadGateway == Gets("GATEWAY_IP_STR", "gateway", has[unit].gateway, "SUBNET")
ReadSubnet  == Gets("SUBNET", "netmask", ReadMask(has[unit].netmask),
                    "HARDWARE_VERSION")

\* What kind of device it is changes nothing here; then get_device returns 0.
ReadVersion ==
  \/ /\ Asks("HARDWARE_VERSION") /\ ask_at' = "idle"
     /\ whole' = TRUE
     /\ UNCHANGED dev
  \/ Fail("HARDWARE_VERSION", "idle")

-----------------------------------------------------------------------------
\* socket, setsockopt and sendto, one of which may fail.
broadcast(message) ==
  /\ ask_at = "idle" /\ broadcasts < MaxRequests
  /\ broadcasts' = broadcasts + 1
  /\ on_air' \in {on_air, on_air \union {message}}
  /\ UNCHANGED <<has, ask_at, unit, lookups, whole, moved, ever>>

\* The caller puts another address into its variable and sends it.
set_device_address ==
  /\ dev' = [dev EXCEPT !.address = "new"]
  /\ broadcast([port |-> "ADDRESSCHANGE", body |-> dev'])
  /\ careless' = IF whole THEN careless ELSE careless \union {dev.hw_addr}

\* The command and its data are written far behind what is sent (an array of
\* pointers), so the device gets the command 0, which is LED_BLINK.
broadcast_command ==
  /\ broadcast([port |-> "COMMAND", hw_addr |-> dev.hw_addr, command |-> 0])
  /\ UNCHANGED <<dev, careless>>

-----------------------------------------------------------------------------
\* A device hears a datagram that has its hardware address.  Light and no
\* setting comes of a command.
Hears(d, m) ==
  /\ m \in on_air /\ m.port = "ADDRESSCHANGE" /\ m.body.hw_addr = d
  /\ has' = [has EXCEPT ![d] = [address |-> m.body.address,
               gateway |-> m.body.gateway, netmask |-> m.body.netmask]]
  /\ UNCHANGED <<on_air, broadcasts, lookupVars, moved, ever, careless>>

\* Somebody else moves a device to another network.
OwnerMoves(d) ==
  /\ moved = {} /\ moved' = {d}
  /\ \E mask \in NetMasks :
       has' = [has EXCEPT ![d] = Network(d, "there", mask)]
  /\ ever' = [ever EXCEPT ![d] = @ \union
                {[gateway |-> has'[d].gateway, netmask |-> has'[d].netmask]}]
  /\ UNCHANGED <<on_air, broadcasts, lookupVars, careless>>

AddressNext ==
  \/ \E d \in Units : ListEntry(d) \/ get_device(d) \/ OwnerMoves(d)
  \/ ReadMac \/ ReadIp \/ ReadGateway \/ ReadSubnet \/ ReadVersion
  \/ set_device_address \/ broadcast_command
  \/ \E d \in Units, m \in on_air : Hears(d, m)

AddressSpec == AddressInit /\ [][AddressNext]_addressVars

-----------------------------------------------------------------------------
\* Setting the address of a device leaves it with a gateway of its own, never
\* with that of the device the caller looked at before, however late and often
\* a request comes.  The netmask is one of its own too, or what get_device makes
\* of it from the first octet, which may happen twice before nothing is left to
\* spoil.  A caller that goes on after get_device has failed is not protected
\* (get_device, set_device_address).
OwnNetwork ==
  \A d \in Units \ careless :
    /\ \E e \in ever[d] : has[d].gateway = e.gateway
    /\ \E e \in ever[d] :
         has[d].netmask \in {e.netmask, ReadMask(e.netmask),
                             ReadMask(ReadMask(e.netmask))}
=============================================================================
