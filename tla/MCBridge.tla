------------------------------ MODULE MCBridge ------------------------------
(***************************************************************************)
(* Values for the constants of Bridge: the real byte strings of the protocol*)
(* and the real CRC, two modules (one with a runner) and a few requests.    *)
(***************************************************************************)
EXTENDS BridgeRefinement, Packet, TLC

MCReset   == <<88, 88>>
MCClose   == <<88, 88, 88, 88, 88>>
MCVersion == <<49, 48, 48>>
MCCrc(s)  == crcUpdate(CRC_RESET, s)

\* 'F' opens a file, 'P' writes to the console; '?' is not registered.
MCcmdHdlrs == 70 :> "fileio" @@ 80 :> "console"
MCrunners  == <<"console">>
MCresets   == <<"fileio", "console">>

ResetFrame == [idx |-> 7, body |-> MCReset \o MCVersion]
CloseFrame == [idx |-> 8, body |-> MCClose]
FileFrame  == [idx |-> 0, body |-> <<70>>]
EchoFrame  == [idx |-> 255, body |-> <<80, 255>>]
OddFrame   == [idx |-> 9, body |-> <<63>>]
OldReset   == [idx |-> 7, body |-> MCReset \o <<49, 49, 48>>]

\* Every kind of request, one index that looks like a start byte.
AllRequests == {ResetFrame, CloseFrame, EchoFrame, OddFrame, OldReset}
\* A command and a reset.
FewRequests == {ResetFrame, FileFrame}
\* Handlers answer with nothing or with a zero.
MCResults == {<<>>, <<0>>}

AllFaults  == {"late", "cut", "lose", "unplug", "abort", "close", "config", "sigterm"}
SessionFaults == {"lose", "unplug", "abort"}
=============================================================================
