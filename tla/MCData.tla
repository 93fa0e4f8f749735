------------------------------- MODULE MCData -------------------------------
(***************************************************************************)
(* Parts of the program that share nothing: a behaviour takes the headers  *)
(* of a request over a chain of gateways (Path), or uses a map or a tree   *)
(* (MCMap), or takes a message through the gateway (MCConversion), or a    *)
(* packet over the link (MCMqtt).                                          *)
(***************************************************************************)
EXTENDS Path, MCMap, MCMqtt

VARIABLES message, hops                     \* of Conversion

Values == INSTANCE MCConversion WITH Messages <- {}
C == INSTANCE Conversion WITH Messages <- Values!MCMessages

conversionVars == <<message, hops>>
allMapVars == <<mapVars, tree, set>>

\* A part that is not used has nothing to do.
NoPath == hop = <<>> /\ answer = {} /\ reply = {}
NoMessage == message = Null /\ hops = 0
NoPacket == request = Missing /\ packet = Missing /\ size = Missing /\ came = Missing

DataInit ==
  /\ MCMapInit
  /\ \/ NoPath /\ NoMessage /\ NoPacket
     \/ Init /\ NoMessage /\ NoPacket
     \/ NoPath /\ C!Init /\ NoPacket
     \/ NoPath /\ NoMessage /\ PacketInit

DataNext ==
  \/ ~NoPath /\ Next /\ UNCHANGED <<allMapVars, conversionVars, packetVars>>
  \/ /\ NoPath /\ NoMessage /\ NoPacket
     /\ MCMapNext /\ UNCHANGED <<vars, conversionVars, packetVars>>
  \/ C!Next /\ UNCHANGED <<vars, allMapVars, packetVars>>
  \/ NoMessage /\ ~NoPacket /\ PacketNext /\ UNCHANGED <<vars, allMapVars, conversionVars>>

DataSpec == DataInit /\ [][DataNext]_<<vars, allMapVars, conversionVars, packetVars>>

\* See Conversion.
MeaningKept == C!MeaningKept
Settled == C!Settled
=============================================================================
