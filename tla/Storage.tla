-------------------------------- MODULE Storage --------------------------------
(***************************************************************************)
(* What must outlive a process: the rounds the server saves, which this    *)
(* module extends, and the settings a client keeps in files.  The two      *)
(* parts share no variable.                                                *)
(***************************************************************************)
EXTENDS MatchPersistence, Sequences

CONSTANTS MaxZoom, MaxRest, Debounce, RetryFirst, RetryMost, MaxFaults

VARIABLES screen, mem, session, deferred, files, job, stored, damaged, faults

Settings == INSTANCE SettingsStore

ASSUME SettingsAreBounded == Settings!SettingsParameters

-----------------------------------------------------------------------------
(* The properties of the settings, each stated in their module.            *)
SettingsSurvive == Settings!SettingsSurvive
NewestIsKept == Settings!NewestIsKept

=============================================================================
