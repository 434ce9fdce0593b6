------------------------------- MODULE MCStorage -----------------------------
(***************************************************************************)
(* What outlives a process: the rounds the server saves, the chat history  *)
(* of a lobby in its database, the chat a client keeps in its cache, and   *)
(* the settings it keeps in files.                                         *)
(* Each part has the state of its own module, the cache seeing the server's *)
(* history as the bounded sequence HistoryIsLatest says it is; part is the *)
(* one that moves.                                                         *)
(***************************************************************************)
EXTENDS Storage

CONSTANTS
  Sessions, Limit, Window, MaxMessages, MaxBytes, MessageRetention, FlushInterval, Sizes,
  ChatFaults, SeqSpan, ChatTime, MaxEvents, MaxAccepted,
  Lobbies, CachedMessages, MaxContexts, CacheRetention, Skew, CacheTime, MaxSaid, MaxMail

VARIABLES
  part,
  now, ids, windows, history, rows, accepted, faulty,
  clock, said, replay, member, control, chat, path, lobby, shown, cache, legacy

chatVars == <<now, ids, windows, history, rows, accepted, faulty>>
cacheVars == <<clock, said, replay, member, control, chat, path, lobby, shown, cache, legacy>>

settingsVars == <<screen, mem, session, deferred, files, job, stored, damaged, faults>>

Chats == INSTANCE LobbyChat WITH
  Retention <- MessageRetention, Faults <- ChatFaults, MaxTime <- ChatTime, disk <- rows

Cache == INSTANCE ChatCache WITH
  MaxMessages <- CachedMessages, Retention <- CacheRetention, MaxTime <- CacheTime

ASSUME StorageParameters ==
  Chats!ChatParameters /\ Cache!CacheParameters

StorageInit ==
  /\ part \in {"rounds", "chat", "cache", "settings"}
  /\ Init /\ Chats!Init /\ Cache!Init /\ Settings!Init
  /\ part # "settings" => files = [place \in {"config", "legacy"} |-> Settings!Nothing]

RoundsMove == part = "rounds" /\ Next /\ UNCHANGED <<part, chatVars, cacheVars, settingsVars>>
ChatMoves == part = "chat" /\ Chats!Next /\ UNCHANGED <<part, vars, cacheVars, settingsVars>>
CacheMoves == part = "cache" /\ Cache!Next /\ UNCHANGED <<part, vars, chatVars, settingsVars>>
SettingsMove == part = "settings" /\ Settings!Next /\ UNCHANGED <<part, vars, chatVars, cacheVars>>

StorageNext == RoundsMove \/ ChatMoves \/ CacheMoves \/ SettingsMove

StorageSpec == StorageInit /\ [][StorageNext]_<<part, vars, chatVars, cacheVars, settingsVars>>

-----------------------------------------------------------------------------
(* The properties of the chat, each stated in the module of its part.      *)
HistoryIsLatest == Chats!HistoryIsLatest
SavedStay == Chats!SavedStay
ShownOnce == Cache!ShownOnce
ContextsStayApart == Cache!ContextsStayApart

=============================================================================
