----------------------------- MODULE SettingsStore -----------------------------
(***************************************************************************)
(* The settings of the client: the values in use, those of the settings    *)
(* screen (src/client/settings_session.c), the change that is written when *)
(* the player stops changing it (settings_deferred.c), and the files they  *)
(* are kept in (client_settings.c).                                        *)
(*                                                                         *)
(* A value has two fields: the camera's zoom, which the deferred writer    *)
(* follows, and the rest, which every other place of the client changes;   *)
(* rest 0 has no player name.  A file holds nothing, a part of a record    *)
(* ("torn"), or a whole record of an older or of this schema.  The game is *)
(* one thread: while a save is in progress (job) nothing else happens, but *)
(* the process may be killed between any two of its calls.  What the       *)
(* kernel was told stays: a loss of power is not modelled.                 *)
(***************************************************************************)
EXTENDS Integers, Sequences

CONSTANTS
  MaxZoom, MaxRest,  \* bounds on the changes
  Debounce,          \* SHROOM_SETTINGS_DEBOUNCE_SECONDS
  RetryFirst,        \* SHROOM_SETTINGS_RETRY_INITIAL_SECONDS
  RetryMost,         \* SHROOM_SETTINGS_RETRY_MAX_SECONDS
  MaxFaults          \* bound on failed calls, kills and damaged files

SettingsParameters ==
  /\ {MaxZoom, MaxRest, MaxFaults} \subseteq Nat
  /\ {Debounce, RetryFirst} \subseteq Nat \ {0} /\ RetryMost \in Nat /\ RetryFirst <= RetryMost

VARIABLES
  screen,    \* "off", "loading", "menu", "settings" or "game"
  mem,       \* game->settings
  session,   \* the pending values of the settings screen
  deferred,  \* ShroomSettingsDeferred; due counts from now
  files,     \* contents by place ("config", "legacy") and kind ("main", "bak", "tmp", "baktmp")
  job,       \* the save in progress: its next call, value, place and what follows
  stored,    \* the value of the last save that succeeded, and the one before (history)
  damaged,   \* a file that was damaged since (history)
  faults

vars == <<screen, mem, session, deferred, files, job, stored, damaged, faults>>

(* ClientSettingsSetDefaults. *)
Defaults == [zoom |-> 0, rest |-> 0]
(* ClientSettingsValidate: a field out of its range gets its default.      *)
ClientSettingsValidate(v) ==
  [zoom |-> IF v.zoom \in 0..MaxZoom THEN v.zoom ELSE 0, rest |-> IF v.rest \in 0..MaxRest THEN v.rest ELSE 0]
TooLarge == [zoom |-> MaxZoom + 1, rest |-> 1]

Empty == [kind |-> "none", v |-> Defaults]
Torn == [kind |-> "torn", v |-> Defaults]
Record(kind, v) == [kind |-> kind, v |-> v]

(* ParseSettingsFile: every field of the schema once, to the last newline. *)
Parses(content) == content.kind \in {"older", "current"}
Parsed(content) == ClientSettingsValidate(content.v)

(* ClientSettingsLoadFromPath: the file, or else its backup.  What was not *)
(* the file in this schema is saved again.                                 *)
Readable(place) == Parses(files[place]["main"]) \/ Parses(files[place]["bak"])
LoadFromPath(place) == Parsed(files[place][IF Parses(files[place]["main"]) THEN "main" ELSE "bak"])
SavedAgain(place) == files[place]["main"].kind # "current"

(* ClientSettingsLoad: what a start of the game would find.                *)
Found == IF Readable("config") THEN LoadFromPath("config")
         ELSE IF Readable("legacy") THEN LoadFromPath("legacy") ELSE Defaults

NoJob == [at |-> "none", v |-> Defaults, place |-> "config", next |-> "none"]
Idle == job = NoJob
ClientSettingsSaveToPath(v, place, next) ==
  job' = [at |-> "open", v |-> ClientSettingsValidate(v), place |-> place, next |-> next]

(* ShroomSettingsDeferredInit. *)
NoChange == [dirty |-> FALSE, pending |-> Defaults, due |-> 0, retry |-> RetryFirst]

Nothing == [main |-> Empty, bak |-> Empty, tmp |-> Empty, baktmp |-> Empty]
OlderFiles ==
  {Nothing} \cup {[Nothing EXCEPT !.main = Record(kind, v)] :
                    kind \in {"older", "current"}, v \in {TooLarge, [zoom |-> 0, rest |-> 1]}}

Init ==
  /\ screen = "off" /\ mem = Defaults /\ session = Defaults /\ deferred = NoChange /\ Idle
  /\ files \in [{"config", "legacy"} -> OlderFiles]
  /\ stored = <<>> /\ damaged = "none" /\ faults = 0

Fault == faults < MaxFaults /\ faults' = faults + 1
Works(ok) == IF ok THEN UNCHANGED faults ELSE Fault

-----------------------------------------------------------------------------
(* ---- A start of the game ---------------------------------------------- *)
Start ==
  /\ screen = "off"
  /\ mem' = Found
  /\ IF Readable("config") /\ SavedAgain("config")
     THEN screen' = "loading" /\ ClientSettingsSaveToPath(Found, "config", "menu")
     ELSE IF ~Readable("config") /\ Readable("legacy")
     THEN /\ screen' = "loading"
          /\ IF SavedAgain("legacy") THEN ClientSettingsSaveToPath(Found, "legacy", "move")
             ELSE ClientSettingsSaveToPath(Found, "config", "moved")
     ELSE screen' = "menu" /\ UNCHANGED job
  /\ UNCHANGED <<session, deferred, files, stored, damaged, faults>>

-----------------------------------------------------------------------------
(* ---- ClientSettingsSaveToPath, call by call --------------------------- *)
Now == files[job.place]
Put(changed) == files' = [files EXCEPT ![job.place] = changed]
At(call) == job.at = call
Continue(call) == job' = [job EXCEPT !.at = call]

(* WritePending: a change that could not be written is due again later.    *)
Written(ok) ==
  deferred' = IF ok THEN NoChange
              ELSE [deferred EXCEPT !.due = @ + deferred.retry,
                                    !.retry = IF 2 * @ < RetryMost THEN 2 * @ ELSE RetryMost]

(* The process ends, and what it had in memory with it.                    *)
Ended == mem' = Defaults /\ session' = Defaults /\ deferred' = NoChange

(* What the caller does with the result.                                   *)
Return(ok) ==
  /\ CASE job.next = "move" -> ClientSettingsSaveToPath(mem, "config", "moved")
       [] job.next = "flush" -> ClientSettingsSaveToPath(session, "config", "settings")
       [] OTHER -> job' = NoJob
  /\ screen' = CASE job.next \in {"menu", "moved", "leave"} -> "menu"
                 [] job.next = "quit" -> "off"
                 [] OTHER -> screen
  /\ CASE job.next = "quit" -> Ended
       [] job.next \in {"deferred", "flush", "leave"} -> Written(ok) /\ UNCHANGED <<mem, session>>
       [] job.next = "settings" /\ ok -> mem' = session /\ UNCHANGED <<deferred, session>>
       [] job.next = "name" /\ ok -> mem' = job.v /\ UNCHANGED <<deferred, session>>
       [] OTHER -> UNCHANGED <<mem, session, deferred>>

GoOn == UNCHANGED <<screen, mem, session, deferred>>
Fails == Put([Now EXCEPT !.tmp = Empty, !.baktmp = IF At("open") \/ At("write") THEN @ ELSE Empty])

(* Slip: the settings are written in place.                                *)
OpenInPlace(ok) ==
  /\ At("open") /\ Works(ok)
  /\ IF ok THEN Put([Now EXCEPT !.tmp = Torn, !.main = Torn]) /\ Continue("write") /\ GoOn
     ELSE Fails /\ Return(FALSE)
  /\ UNCHANGED <<stored, damaged>>

OpenTemporary(ok) ==
  /\ At("open") /\ Works(ok)
  /\ IF ok THEN Put([Now EXCEPT !.tmp = Torn]) /\ Continue("write") /\ GoOn
     ELSE Fails /\ Return(FALSE)
  /\ UNCHANGED <<stored, damaged>>

(* WriteSettingsFile, which is read again; a file that parses is copied    *)
(* before it is replaced.                                                  *)
WriteTemporary(ok) ==
  /\ At("write") /\ Works(ok)
  /\ IF ok THEN /\ Put([Now EXCEPT !.tmp = Record("current", job.v)]) /\ GoOn
                /\ Continue(IF Parses(Now.main) THEN "copy" ELSE "replace")
     ELSE Fails /\ Return(FALSE)
  /\ UNCHANGED <<stored, damaged>>

(* CopyFileContents. *)
OpenCopy(ok) ==
  /\ At("copy") /\ Works(ok)
  /\ IF ok THEN Put([Now EXCEPT !.baktmp = Torn]) /\ Continue("copying") /\ GoOn
     ELSE Fails /\ Return(FALSE)
  /\ UNCHANGED <<stored, damaged>>
WriteCopy(ok) ==
  /\ At("copying") /\ Works(ok)
  /\ IF ok THEN Put([Now EXCEPT !.baktmp = Now.main]) /\ Continue("keep") /\ GoOn
     ELSE Fails /\ Return(FALSE)
  /\ UNCHANGED <<stored, damaged>>

(* ReplaceSettingsFile, of the backup and of the file.                     *)
KeepBackup(ok) ==
  /\ At("keep") /\ Works(ok)
  /\ IF ok THEN Put([Now EXCEPT !.bak = Now.baktmp, !.baktmp = Empty]) /\ Continue("replace") /\ GoOn
     ELSE Fails /\ Return(FALSE)
  /\ UNCHANGED <<stored, damaged>>
ReplaceFile(ok) ==
  /\ At("replace") /\ Works(ok) /\ Return(ok)
  /\ IF ok
     THEN LET placed == [files EXCEPT ![job.place].main = Now.tmp, ![job.place].tmp = Empty]
          IN  files' = IF job.next = "moved" THEN [placed EXCEPT !["legacy"].main = Empty] ELSE placed
     ELSE Put([Now EXCEPT !.tmp = Empty])
  /\ IF ok THEN /\ stored' = <<job.v>> \o (IF Readable(job.place) THEN <<LoadFromPath(job.place)>> ELSE <<>>)
                /\ damaged' = "none"
     ELSE UNCHANGED <<stored, damaged>>

SaveCall(ok) ==
  \/ OpenTemporary(ok) \/ WriteTemporary(ok) \/ OpenCopy(ok) \/ WriteCopy(ok) \/ KeepBackup(ok) \/ ReplaceFile(ok)

-----------------------------------------------------------------------------
(* ---- The player ------------------------------------------------------- *)
Files == <<files, stored, damaged, faults>>

(* ClientSettingsCommitPlayerName: the menu asks until one is saved.       *)
CommitPlayerName ==
  /\ Idle /\ screen = "menu" /\ mem.rest = 0 /\ MaxRest > 0
  /\ ClientSettingsSaveToPath([mem EXCEPT !.rest = 1], "config", "name")
  /\ UNCHANGED <<screen, mem, session, deferred, Files>>

(* GameInit forgets a change that was never written.                       *)
EnterGame ==
  /\ Idle /\ screen = "menu" /\ mem.rest # 0
  /\ screen' = "game" /\ deferred' = NoChange
  /\ UNCHANGED <<mem, session, job, Files>>

(* The wheel: ShroomSettingsDeferredMarkDirty. *)
Zoom ==
  /\ Idle /\ screen = "game" /\ mem.zoom < MaxZoom
  /\ mem' = [mem EXCEPT !.zoom = @ + 1]
  /\ deferred' = [dirty |-> TRUE, pending |-> ClientSettingsValidate(mem'), due |-> Debounce, retry |-> RetryFirst]
  /\ UNCHANGED <<screen, session, job, Files>>

(* The HUD, the diagnostics, full screen and the size of the window: used  *)
(* and saved at once, whatever comes of it.                                *)
ChangeAndSave ==
  /\ Idle /\ screen # "off" /\ 0 < mem.rest /\ mem.rest < MaxRest
  /\ mem' = [mem EXCEPT !.rest = @ + 1]
  /\ ClientSettingsSaveToPath(mem', "config", "nothing")
  /\ UNCHANGED <<screen, session, deferred, Files>>

(* ShroomSettingsDeferredUpdate, in every frame of the game.               *)
UpdateDeferred ==
  /\ Idle /\ screen = "game" /\ deferred.dirty /\ deferred.due <= 0
  /\ ClientSettingsSaveToPath(deferred.pending, "config", "deferred")
  /\ UNCHANGED <<screen, mem, session, deferred, Files>>

Tick ==
  /\ Idle /\ deferred.dirty /\ deferred.due > 0
  /\ deferred' = [deferred EXCEPT !.due = @ - 1]
  /\ UNCHANGED <<screen, mem, session, job, Files>>

(* GameShutdown flushes, at the end of a game and of the program; the      *)
(* program also ends on the results of a round, which flush nothing.       *)
Leave(next) ==
  /\ Idle /\ screen = "game"
  /\ IF deferred.dirty
     THEN /\ deferred' = [deferred EXCEPT !.due = 0]
          /\ ClientSettingsSaveToPath(deferred.pending, "config", next) /\ UNCHANGED screen
          /\ UNCHANGED <<mem, session>>
     ELSE /\ UNCHANGED job
          /\ IF next = "quit" THEN screen' = "off" /\ Ended
             ELSE screen' = "menu" /\ UNCHANGED <<mem, session, deferred>>
  /\ UNCHANGED Files
QuitUnflushed ==
  /\ Idle /\ screen \in {"menu", "settings", "game"} /\ screen' = "off" /\ Ended
  /\ UNCHANGED <<job, Files>>

(* The settings screen: ShroomSettingsSessionInit, MarkDirty,              *)
(* RestoreDefaults, Discard, and Save, which flushes first.                *)
OpenSettings ==
  /\ Idle /\ screen = "menu" /\ mem.rest # 0
  /\ screen' = "settings" /\ session' = mem
  /\ UNCHANGED <<mem, deferred, job, Files>>
EditSettings ==
  /\ Idle /\ screen = "settings"
  /\ \/ session.rest \in 1..(MaxRest - 1) /\ session' = [session EXCEPT !.rest = @ + 1]
     \/ session' = Defaults
  /\ UNCHANGED <<screen, mem, deferred, job, Files>>
SaveSettings ==
  /\ Idle /\ screen = "settings"
  /\ IF deferred.dirty
     THEN deferred' = [deferred EXCEPT !.due = 0] /\ ClientSettingsSaveToPath(deferred.pending, "config", "flush")
     ELSE UNCHANGED deferred /\ ClientSettingsSaveToPath(session, "config", "settings")
  /\ UNCHANGED <<screen, mem, session, Files>>
DiscardSettings ==
  /\ Idle /\ screen = "settings"
  /\ screen' = "menu" /\ session' = Defaults
  /\ UNCHANGED <<mem, deferred, job, Files>>

(* The process ends at any point; a file is damaged while it is away.      *)
Kill ==
  /\ screen # "off" /\ Fault
  /\ screen' = "off" /\ job' = NoJob /\ Ended
  /\ UNCHANGED <<files, stored, damaged>>
Damage(kind) ==
  /\ screen = "off" /\ damaged = "none" /\ stored # <<>> /\ Parses(files["config"][kind]) /\ Fault
  /\ files' = [files EXCEPT !["config"][kind] = Torn] /\ damaged' = kind
  /\ UNCHANGED <<screen, mem, session, deferred, job, stored>>

Next ==
  \/ Start \/ \E ok \in BOOLEAN : SaveCall(ok)
  \/ CommitPlayerName \/ EnterGame \/ Zoom \/ ChangeAndSave \/ UpdateDeferred \/ Tick
  \/ \E next \in {"leave", "quit"} : Leave(next)
  \/ QuitUnflushed \/ OpenSettings \/ EditSettings \/ SaveSettings \/ DiscardSettings
  \/ Kill \/ \E kind \in {"main", "bak"} : Damage(kind)

Spec == Init /\ [][Next]_vars

-----------------------------------------------------------------------------
(* ---- Properties ------------------------------------------------------- *)

(* At every call of a save, also one that fails or is cut off, a start     *)
(* would find what the last successful save stored; if the file is then    *)
(* damaged, that or the value before it (ClientSettingsSaveToPath,         *)
(* tests/unit/test_client_settings_persistence.c:193).                     *)
SettingsSurvive ==
  stored # <<>> /\ (damaged = "main" => Len(stored) = 2) =>
    Found \in {stored[i] : i \in 1..(IF damaged = "main" THEN Len(stored) ELSE 1)}

(* What the deferred writer leaves in the file is the newest of the        *)
(* settings, when no call failed                                           *)
(* (tests/unit/test_settings_deferred.c:30).                               *)
NewestIsKept ==
  screen = "game" /\ Idle /\ ~deferred.dirty /\ faults = 0 => Found = mem

=============================================================================
