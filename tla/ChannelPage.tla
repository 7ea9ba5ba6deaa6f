------------------------------ MODULE ChannelPage ------------------------------
(***************************************************************************)
(* The page of a server: the messages of a channel (ChannelMessages) and   *)
(* the sidebar (ServerChannels) over one RealtimeClient.                   *)
(***************************************************************************)
EXTENDS ChannelMessages, ServerChannels

pageVars == <<allVars, serverVars>>

PageInit == ChannelInit /\ ServerInit
PageNext ==
  \/ ChannelNext /\ UNCHANGED serverVars
  \/ ServerNext /\ UNCHANGED channelVars
PageSpec == PageInit /\ [][PageNext]_pageVars

(* The type invariants of the client, the messages and the sidebar.        *)
PageTypeOK == AllTypeOK /\ SidebarTypeOK
================================================================================
