---------------------------- MODULE InboxRelayMC ----------------------------
(***************************************************************************)
(* Instances of InboxRelay for TLC.                                        *)
(***************************************************************************)
EXTENDS InboxRelay

CONSTANTS home, other

\* All events are of an issue that is attached to the item of another.
MCIssueOf == [e \in Events |-> other]
=============================================================================
