------------------------------- MODULE ChatCache ------------------------------
(***************************************************************************)
(* The chat a player sees: what the server replays on joining a lobby and  *)
(* broadcasts afterwards, the messages the client shows (src/client/net.c) *)
(* and its copy of them in chat_history_cache.txt (chat_cache.c), which    *)
(* has one context for each lobby.                                         *)
(*                                                                         *)
(* LOBBY_JOINED and the chat travel on two ENet channels, each of which is *)
(* reliable and in order, while a packet of one may overtake a packet of   *)
(* the other.  A lobby is its history identity.  A message is its id, its  *)
(* time and its lobby; texts, their cleaning and their coding are left out.*)
(***************************************************************************)
EXTENDS Naturals, Sequences, SequencesExt

CONSTANTS
  Lobbies,       \* history identities
  MaxMessages,   \* SHROOM_CHAT_CACHE_MAX_MESSAGES, and what is shown and replayed
  MaxContexts,   \* SHROOM_CHAT_CACHE_MAX_CONTEXTS
  Retention,     \* SHROOM_CHAT_CACHE_RETENTION_SECONDS
  Skew,          \* 300 seconds: how far a message may be ahead of the clock
  MaxTime,       \* bound on the clock
  MaxSaid,       \* bound on the messages of all lobbies
  MaxMail        \* bound on the CHAT packets on their way when a lobby is joined

CacheParameters ==
  /\ {MaxMessages, MaxContexts} \subseteq Nat \ {0}
  /\ {Retention, Skew, MaxTime, MaxSaid, MaxMail} \subseteq Nat

VARIABLES
  clock,      \* time(NULL), of client and server
  said,       \* messages broadcast so far
  replay,     \* the history of each lobby on the server
  member,     \* the lobby the server has the client in
  control,    \* LOBBY_JOINED packets on their way
  chat,       \* CHAT packets on their way
  path,       \* the connection: none, or whether its chat_cache_path is set
  lobby,      \* net->lobby_id
  shown,      \* net->chat_history
  cache,      \* the contexts in the file, the one created first in front
  legacy      \* the same in the file of an older version

vars == <<clock, said, replay, member, control, chat, path, lobby, shown, cache, legacy>>

NoLobby == "no lobby"
AppendMessage(messages, m) ==
  IF Len(messages) < MaxMessages THEN Append(messages, m) ELSE Append(Tail(messages), m)

(* ShroomChatCacheMessagesDuplicate. *)
Holds(messages, m) == \E i \in DOMAIN messages : messages[i].id = m.id

-----------------------------------------------------------------------------
(* The cache file                                                          *)

(* LoadCache refuses a file with a message of the future, and passes over  *)
(* the messages, and so the contexts, that are too old.                    *)
Readable(file, time) ==
  \A i \in DOMAIN file : \A j \in DOMAIN file[i].messages : file[i].messages[j].at <= time + Skew

LoadCache(file, time) ==
  LET young(m) == time <= m.at + Retention
      pruned(c) == [c EXCEPT !.messages = SelectSeq(@, young)]
      full(c) == c.messages # <<>>
  IN SelectSeq([i \in DOMAIN file |-> pruned(file[i])], full)

ContextOf(file, l) ==
  LET of(c) == c.lobby = l
      found == SelectSeq(file, of)
  IN IF found = <<>> THEN <<>> ELSE found[1].messages

(* ShroomChatCacheLoadContext. *)
LoadContext(file, l, time) == IF Readable(file, time) THEN ContextOf(LoadCache(file, time), l) ELSE <<>>

(* SaveCache: the new file is written beside the old one and renamed onto  *)
(* it, so that a save that fails or is cut off leaves the old one.         *)
SaveCache(file, new, saved) == IF saved THEN new ELSE file

(* ShroomChatCacheStoreMessage, whose clock is the time of the message; a  *)
(* file that cannot be read is replaced.                                   *)
StoreMessage(file, l, m, saved) ==
  LET loaded == IF Readable(file, m.at) THEN LoadCache(file, m.at) ELSE <<>>
      room == IF Len(loaded) = MaxContexts THEN Tail(loaded) ELSE loaded
      known == \E i \in DOMAIN loaded : loaded[i].lobby = l
      appended == [i \in DOMAIN loaded |->
                     IF loaded[i].lobby = l
                     THEN [loaded[i] EXCEPT !.messages = AppendMessage(@, m)] ELSE loaded[i]]
      new == IF known THEN appended ELSE Append(room, [lobby |-> l, messages |-> <<m>>])
  IN IF Holds(ContextOf(loaded, l), m) THEN file ELSE SaveCache(file, new, saved)

-----------------------------------------------------------------------------
client == <<path, lobby, shown, cache, legacy>>

OldFiles ==
  {<<>>} \cup {<<[lobby |-> l, messages |-> <<[id |-> 0, at |-> 0, lobby |-> l]>>]>> : l \in Lobbies}

Init ==
  /\ clock = 0 /\ said = 0
  /\ replay = [l \in Lobbies |-> <<>>]
  /\ member = NoLobby /\ control = <<>> /\ chat = <<>>
  /\ path = "none" /\ lobby = NoLobby /\ shown = <<>>
  /\ cache = <<>> /\ legacy \in OldFiles

Tick ==
  /\ clock < MaxTime /\ clock' = clock + 1
  /\ UNCHANGED <<said, replay, member, control, chat, client>>

(* HandleChatPacket of the server: kept, and broadcast to the lobby.       *)
Say(l) ==
  LET m == [id |-> said + 1, at |-> clock, lobby |-> l]
  IN /\ said < MaxSaid /\ said' = said + 1
     /\ replay' = [replay EXCEPT ![l] = AppendMessage(@, m)]
     /\ chat' = IF member = l THEN Append(chat, m) ELSE chat
     /\ UNCHANGED <<clock, member, control, client>>

(* The file is there and LoadCache takes it (FileIsRegular, the validator). *)
Usable(file) == file # <<>> /\ Readable(file, clock)

(* CopyLegacyFile, and the removal of the old file, which the end of the   *)
(* game may come before; a copy that fails leaves no path.                 *)
CopyLegacyFile(copied, removed) ==
  IF copied /\ Usable(legacy)
  THEN path' = "set" /\ cache' = legacy /\ legacy' = (IF removed THEN <<>> ELSE legacy)
  ELSE path' = "empty" /\ UNCHANGED <<cache, legacy>>

(* ShroomClientPathsPrepareCacheFile: a file that can be used makes the    *)
(* old one superfluous; without one the old file is taken.                 *)
Prepare(copied, removed) ==
  CASE Usable(cache) -> path' = "set" /\ legacy' = <<>> /\ UNCHANGED cache
    [] ~Usable(cache) /\ legacy # <<>> -> CopyLegacyFile(copied, removed)
    [] ~Usable(cache) /\ legacy = <<>> ->
         path' = (IF cache = <<>> THEN "set" ELSE "empty") /\ UNCHANGED <<cache, legacy>>

(* ClientNetInit, with the chat_cache_path of the connection.              *)
Connect(copied, removed) ==
  /\ path = "none"
  /\ Prepare(copied, removed)
  /\ UNCHANGED <<clock, said, replay, member, control, chat, lobby, shown>>

(* The connection or the game ends; the server frees the session.          *)
Disconnect ==
  /\ path # "none"
  /\ path' = "none" /\ lobby' = NoLobby /\ shown' = <<>>
  /\ member' = NoLobby /\ control' = <<>> /\ chat' = <<>>
  /\ UNCHANGED <<clock, said, replay, cache, legacy>>

(* ClientNetSendLobbyJoin, HandleLobbyJoin: the reply, then the history.   *)
Join(l) ==
  /\ path # "none" /\ lobby = NoLobby /\ member = NoLobby
  /\ Len(chat) + Len(replay[l]) <= MaxMail
  /\ member' = l
  /\ control' = Append(control, l) /\ chat' = chat \o replay[l]
  /\ UNCHANGED <<clock, said, replay, client>>

(* ClientNetSendLobbyLeave, HandleLobbyLeave.                              *)
Leave ==
  /\ lobby # NoLobby
  /\ lobby' = NoLobby /\ member' = NoLobby
  /\ UNCHANGED <<clock, said, replay, control, chat, path, shown, cache, legacy>>

(* HandleLobbyJoined: what is shown is what the cache has of the lobby.    *)
HearJoined ==
  /\ control # <<>> /\ control' = Tail(control)
  /\ lobby' = Head(control)
  /\ shown' = IF path = "set" THEN LoadContext(cache, Head(control), clock) ELSE <<>>
  /\ UNCHANGED <<clock, said, replay, member, chat, path, cache, legacy>>

(* Slip: a message is compared with the first one that is shown.           *)
HearChatAgain(stored) ==
  LET m == Head(chat)
      first == IF shown = <<>> THEN <<>> ELSE <<Head(shown)>>
  IN /\ chat # <<>> /\ chat' = Tail(chat)
     /\ IF Holds(first, m) THEN UNCHANGED <<shown, cache>>
        ELSE /\ shown' = AppendMessage(shown, m)
             /\ cache' = IF lobby # NoLobby /\ path = "set"
                         THEN StoreMessage(cache, lobby, m, stored) ELSE cache
     /\ UNCHANGED <<clock, said, replay, member, control, path, lobby, legacy>>

(* HandleChat of the client: a message that is shown already is dropped, a *)
(* new one is stored in the context of the lobby, unless that fails.       *)
HearChat(stored) ==
  LET m == Head(chat)
  IN /\ chat # <<>> /\ chat' = Tail(chat)
     /\ IF Holds(shown, m) THEN UNCHANGED <<shown, cache>>
        ELSE /\ shown' = AppendMessage(shown, m)
             /\ cache' = IF lobby # NoLobby /\ path = "set"
                         THEN StoreMessage(cache, lobby, m, stored) ELSE cache
     /\ UNCHANGED <<clock, said, replay, member, control, path, lobby, legacy>>

Next ==
  \/ Tick \/ Disconnect \/ Leave \/ HearJoined
  \/ \E l \in Lobbies : Say(l) \/ Join(l)
  \/ \E done \in BOOLEAN : HearChat(done) \/ \E removed \in BOOLEAN : Connect(done, removed)

Spec == Init /\ [][Next]_vars

-----------------------------------------------------------------------------
(* A player sees no message twice, although the cache, the replay of the   *)
(* server and the chat itself overlap (HandleLobbyJoined, HandleChat).     *)
ShownOnce == \A i, j \in DOMAIN shown : i # j => shown[i].id # shown[j].id

(* The cache never shows the chat of one lobby in another, as              *)
(* tests/unit/test_chat_cache.c:58-71 has it.                              *)
ContextsStayApart ==
  \A i \in DOMAIN cache : \A j \in DOMAIN cache[i].messages :
    cache[i].messages[j].lobby = cache[i].lobby

=============================================================================
