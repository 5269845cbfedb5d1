--------------------------- MODULE MCWireFormat ---------------------------
(* The instance of WireFormat that TLC checks. *)
EXTENDS WireFormat

(* TLC's numbers end at 2^31 - 1, and the receiver may read any four bytes as
   a number: no byte is above 127. *)
MCNumbers8 == {0, 127}

(* The headers, and a number whose upper byte is 0. *)
MCNumbers16 ==
  {KNX_PROTO_DISCOVERY_REQUEST, KNX_PROTO_DISCOVERY_RESPONSE,
   KNX_PROTO_STANDARD_PACKET, 127}

(* One, four different bytes, and the greatest upper byte. *)
MCNumbers32 == {1, 16909060, 2130706433}

MCRaws == {<<7>>, <<1, 2, 3>>}
=============================================================================
