---------------------------- MODULE MCInstaller ----------------------------
(***************************************************************************)
(* An instance of Installer: the configuration of the server at the widths *)
(* of MCUdpPath, with one default name server.                             *)
(***************************************************************************)
EXTENDS Installer

MCPrefix     == <<1>>
MCDefaultDns == <<Server(V4(<<8>>), 53)>>
=============================================================================
