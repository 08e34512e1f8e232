------------------------- MODULE MCMeetingReminders -------------------------
(* An instance of MeetingReminders for TLC.                                 *)
EXTENDS MeetingReminders, TLC

BothProviders == <<"google", "discord">>
OneProvider == <<"google">>
=============================================================================
