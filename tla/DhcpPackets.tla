---------------------------- MODULE DhcpPackets ----------------------------
(***************************************************************************)
(* What dhcp_detect.py reads out of the answer of a DHCP server, and the   *)
(* address range it proposes for a network.  Bytes are numbers, addresses  *)
(* are sequences of four bytes in a packet and numbers otherwise.          *)
(***************************************************************************)
EXTENDS Integers, Sequences

CONSTANT None   (* an option that is not there                             *)

(* Options used here, by their codes.                                      *)
Pad == 0
MessageType == 53
ServerIdentifier == 54
EndOfOptions == 255

DhcpOffer == <<2>>

(* Slip: a pad is taken for an option with a length.                       *)
OptionUnpadded(data, code) ==
  LET from[index \in 1..Len(data) + 1] ==
        IF index >= Len(data) \/ data[index] = EndOfOptions THEN None
        ELSE LET last == index + 1 + data[index + 1]
                 rest == IF last < Len(data) THEN from[last + 1] ELSE None
             IN  IF rest = None /\ data[index] = code
                 THEN SubSeq(data, index + 2, IF last < Len(data) THEN last ELSE Len(data))
                 ELSE rest
  IN  from[1]

(* options.get(code) after parse_options of a packet with these bytes      *)
(* behind the magic cookie: the last occurrence counts, and a value may be *)
(* cut off by the end of the data.                                         *)
Option(data, code) ==
  LET from[index \in 1..Len(data) + 1] ==
        IF index > Len(data) \/ data[index] = EndOfOptions THEN None
        ELSE IF data[index] = Pad THEN from[index + 1]
        ELSE IF index = Len(data) THEN None
        ELSE LET last == index + 1 + data[index + 1]
                 rest == IF last < Len(data) THEN from[last + 1] ELSE None
             IN  IF rest = None /\ data[index] = code
                 THEN SubSeq(data, index + 2, IF last < Len(data) THEN last ELSE Len(data))
                 ELSE rest
  IN  from[1]

(* server_id in what parse_offer returns.                                  *)
ServerId(data) ==
  LET id == Option(data, ServerIdentifier)
  IN  IF id # None /\ Len(id) = 4 THEN id ELSE None

-----------------------------------------------------------------------------
(* What servers send (external: RFC 2132).                                 *)

Address(server) == <<10, 0, 0, server>>

TypeField == <<MessageType, 1>> \o DhcpOffer
IdField(server) == <<ServerIdentifier, 4>> \o Address(server)
RouterField == <<3, 4, 10, 0, 0, 1>>
LeaseField == <<51, 4, 0, 54, 4, 53>>   (* a value that looks like options *)

(* In any order, padded or not, with or without an end.                    *)
OfferBytes(server) ==
  { TypeField \o IdField(server) \o RouterField \o <<EndOfOptions>>,
    TypeField \o LeaseField \o <<Pad>> \o IdField(server) \o <<EndOfOptions, Pad>>,
    <<Pad, Pad>> \o IdField(server) \o LeaseField \o <<Pad>> \o TypeField }

-----------------------------------------------------------------------------
(* default_dhcp_range for the network of size addresses that begins at     *)
(* network: as offsets from the first host, from 1 on.                     *)

Usable(size) == IF size - 2 > 1 THEN size - 2 ELSE 1

StartOffset(size) ==
  LET usable == Usable(size)
  IN  IF usable >= 200 THEN 100
      ELSE IF usable >= 30 THEN IF usable \div 3 > 2 THEN usable \div 3 ELSE 2
      ELSE 1

EndOffset(size) ==
  LET usable == Usable(size)
      third == (usable * 2) \div 3
  IN  IF usable >= 200 THEN 200
      ELSE IF usable >= 30 THEN IF third > StartOffset(size) THEN third ELSE StartOffset(size)
      ELSE usable

RangeStart(network, size) == network + StartOffset(size)
RangeEnd(network, size) == network + EndOffset(size)
=============================================================================
