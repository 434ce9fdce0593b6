------------------------------ MODULE LobbyChat ------------------------------
(***************************************************************************)
(* The chat of one lobby: the packet handler with its rate limit and       *)
(* message ids (src/server/main.c), the bounded history that is replayed   *)
(* to whoever joins, and its copy in the chat_history table                *)
(* (src/server/chat_history.c), through crashes and restarts.              *)
(*                                                                         *)
(* One clock stands for GetTimeMillis and time(NULL): both advance         *)
(* together.  A message keeps its id, its time and its size; the text and  *)
(* the name are left out.  An id is epoch * SeqSpan + sequence, where the  *)
(* code shifts the epoch by 32 bits.                                       *)
(***************************************************************************)
EXTENDS Integers, Sequences, FiniteSets, SequencesExt, FiniteSetsExt

CONSTANTS
  Sessions,        \* connections to the lobby
  Limit,           \* SHROOM_CHAT_RATE_LIMIT_COUNT
  Window,          \* SHROOM_CHAT_RATE_LIMIT_WINDOW_MS
  MaxMessages,     \* SHROOM_SERVER_CHAT_HISTORY_MAX_MESSAGES
  MaxBytes,        \* SHROOM_SERVER_CHAT_HISTORY_MAX_BYTES
  Retention,       \* SHROOM_SERVER_CHAT_HISTORY_RETENTION_SECONDS
  FlushInterval,   \* SHROOM_SERVER_CHAT_HISTORY_FLUSH_INTERVAL_MS
  Sizes,           \* sizes of messages
  Faults,          \* subset of BOOLEAN: may flushes and loads of the server fail
  SeqSpan,         \* 2^32: the ids that share an epoch
  MaxTime,         \* bound on the clock
  MaxEvents,       \* bound on the chat events of one process
  MaxAccepted      \* bound on the messages broadcast by all processes

ChatParameters ==
  /\ {Limit, Window, MaxMessages, MaxBytes, Retention, FlushInterval} \subseteq Nat \ {0}
  /\ Sizes \subseteq 1..MaxBytes
  /\ Faults \subseteq BOOLEAN
  /\ MaxTime \in Nat /\ MaxEvents \in Nat /\ MaxAccepted \in Nat /\ SeqSpan \in Nat /\ MaxEvents < SeqSpan

VARIABLES
  now,        \* the clock
  ids,        \* g_server_chat_message_epoch and _sequence
  windows,    \* chat_window_start_ms, _message_count, _rate_limit_logged of a session
  history,    \* the ShroomServerChatHistory of the lobby
  disk,       \* the rows of chat_history
  accepted,   \* every message ever broadcast, in order (history variable)
  faulty      \* TRUE: the database of this execution may fail

vars == <<now, ids, windows, history, disk, accepted, faulty>>

Bytes(messages) == FoldSeq(LAMBDA m, n : m.size + n, 0, messages)

NewWindow == [start |-> 0, count |-> 0, logged |-> FALSE]
NoIds == [epoch |-> 0, seq |-> 0]
EmptyHistory == [messages |-> <<>>, bytes |-> 0, dirty |-> FALSE, flushed |-> 0]

-----------------------------------------------------------------------------
(* NextChatMessageId: the epoch is the time of the first event of the      *)
(* process.  Rejections that are logged consume an id too.                 *)
NextIds == [epoch |-> IF ids.epoch = 0 THEN now ELSE ids.epoch, seq |-> ids.seq + 1]
IdOf(i) == i.epoch * SeqSpan + i.seq

LogChatEvent == ids.seq < MaxEvents /\ ids' = NextIds

Retained(message, time) == message.at <= time /\ time - message.at <= Retention

(* RemoveOldest until the message finds room. *)
Dropped(h, size) ==
  Min({k \in 0..Len(h.messages) :
         /\ Len(h.messages) - k < MaxMessages
         /\ h.bytes - Bytes(SubSeq(h.messages, 1, k)) + size <= MaxBytes})

(* Slip: the history makes room at its recent end. *)
AppendDroppingNewest(h, message, time) ==
  LET n == Dropped(h, message.size)
      kept == Len(h.messages) - n
  IN [h EXCEPT !.messages = Append(SubSeq(@, 1, kept), message),
               !.bytes = @ - Bytes(SubSeq(h.messages, kept + 1, kept + n)) + message.size,
               !.dirty = TRUE]

(* ShroomServerChatHistoryAppend. *)
HistoryAppend(h, message, time) ==
  IF ~Retained(message, time) \/ \E i \in DOMAIN h.messages : h.messages[i].id = message.id
  THEN h
  ELSE LET n == Dropped(h, message.size)
       IN [h EXCEPT !.messages = Append(SubSeq(@, n + 1, Len(@)), message),
                    !.bytes = @ - Bytes(SubSeq(h.messages, 1, n)) + message.size,
                    !.dirty = TRUE]

(* Slip: the rows come newest first. *)
LoadNewestFirst(rows, time) ==
  LET ordered == SetToSortSeq(rows, LAMBDA a, b : a.id > b.id)
      step(h, m) == HistoryAppend(h, m, time)
  IN [FoldLeft(step, EmptyHistory, ordered) EXCEPT !.dirty = FALSE]

(* ShroomServerChatHistoryLoad: the retained rows, ORDER BY message_id. *)
Load(rows, time) ==
  LET ordered == SetToSortSeq(rows, LAMBDA a, b : a.id < b.id)
      step(h, m) == HistoryAppend(h, m, time)
  IN [FoldLeft(step, EmptyHistory, ordered) EXCEPT !.dirty = FALSE]

(* ShroomServerChatHistoryFlush: one transaction replaces the rows of the  *)
(* lobby; a failing statement rolls back and leaves the history dirty.     *)
Flush(ok) ==
  /\ ~ok => faulty
  /\ IF history.dirty /\ ok
     THEN /\ disk' = ToSet(history.messages)
          /\ history' = [history EXCEPT !.dirty = FALSE, !.flushed = now]
     ELSE UNCHANGED <<disk, history>>

-----------------------------------------------------------------------------
Init ==
  /\ now = Window            \* the clock is far past the first window
  /\ ids = NoIds
  /\ windows = [s \in Sessions |-> NewWindow]
  /\ history = EmptyHistory
  /\ disk = {} /\ accepted = <<>>
  /\ faulty \in Faults

(* A window that is over starts again with this message. *)
Current(s) ==
  IF now - windows[s].start >= Window
  THEN [start |-> now, count |-> 0, logged |-> FALSE] ELSE windows[s]

(* HandleChatPacket of a session without a player: logged, not counted. *)
ChatWithoutPlayer(s) ==
  /\ LogChatEvent
  /\ UNCHANGED <<now, windows, history, disk, accepted, faulty>>

(* HandleChatPacket past the limit: only the first rejection is logged. *)
ChatRateLimited(s) ==
  LET w == Current(s)
  IN /\ w.count >= Limit
     /\ IF w.logged THEN UNCHANGED ids ELSE LogChatEvent
     /\ windows' = [windows EXCEPT ![s] = [w EXCEPT !.logged = TRUE]]
     /\ UNCHANGED <<now, history, disk, accepted, faulty>>

(* A message that does not survive canonicalisation still counts. *)
ChatInvalid(s) ==
  LET w == Current(s)
  IN /\ w.count < Limit
     /\ LogChatEvent
     /\ windows' = [windows EXCEPT ![s] = [w EXCEPT !.count = @ + 1]]
     /\ UNCHANGED <<now, history, disk, accepted, faulty>>

(* The message is given an id, kept and broadcast to the lobby. *)
ChatAccepted(s, size) ==
  LET w == Current(s)
      message == [id |-> IdOf(NextIds), at |-> now, size |-> size]
  IN /\ w.count < Limit /\ Len(accepted) < MaxAccepted
     /\ LogChatEvent
     /\ windows' = [windows EXCEPT ![s] = [w EXCEPT !.count = @ + 1]]
     /\ history' = HistoryAppend(history, message, now)
     /\ accepted' = Append(accepted, message)
     /\ UNCHANGED <<now, disk, faulty>>

(* The player leaves and comes back: a ServerSession of its own. *)
Reconnect(s) ==
  /\ windows' = [windows EXCEPT ![s] = NewWindow]
  /\ UNCHANGED <<now, ids, history, disk, accepted, faulty>>

(* The end of a turn of the main loop: FlushIfDue; then time passes. *)
Turn(ok) ==
  /\ now < MaxTime /\ now' = now + 1
  /\ IF history.dirty /\ now - history.flushed >= FlushInterval
     THEN Flush(ok) ELSE ok /\ UNCHANGED <<disk, history>>
  /\ UNCHANGED <<ids, windows, accepted, faulty>>

(* The process ends, by a crash or by the shutdown at the end of main,     *)
(* which flushes, and another starts a second later or more (systemd waits *)
(* RestartSec) and loads the history in CreateLobby.  A failed load leaves *)
(* the history empty: its result is not looked at.                         *)
Restart(graceful, flushed, loaded) ==
  /\ now < MaxTime /\ now' = now + 1
  /\ ~flushed \/ ~loaded => faulty
  /\ disk' = IF graceful /\ flushed /\ history.dirty THEN ToSet(history.messages) ELSE disk
  /\ history' = IF loaded THEN Load(disk', now') ELSE EmptyHistory
  /\ ids' = NoIds
  /\ windows' = [s \in Sessions |-> NewWindow]
  /\ UNCHANGED <<accepted, faulty>>

Chat(s) ==
  \/ ChatWithoutPlayer(s)
  \/ ChatRateLimited(s)
  \/ ChatInvalid(s)
  \/ \E size \in Sizes : ChatAccepted(s, size)

Next ==
  \/ \E s \in Sessions : Chat(s) \/ Reconnect(s)
  \/ \E ok \in BOOLEAN : Turn(ok)
  \/ \E graceful, flushed, loaded \in BOOLEAN : Restart(graceful, flushed, loaded)

Spec == Init /\ [][Next]_vars

-----------------------------------------------------------------------------
Kept == ToSet(history.messages)
Ever == ToSet(accepted)

(* The history keeps its two limits, its byte_count is the size of what it *)
(* holds through every removal, and what is saved can be loaded whole.     *)
TypeOK ==
  /\ now \in 0..MaxTime /\ ids.seq \in 0..MaxEvents
  /\ \A s \in Sessions : windows[s].count \in 0..Limit
  /\ Len(history.messages) <= MaxMessages
  /\ history.bytes = Bytes(history.messages) /\ history.bytes <= MaxBytes
  /\ Cardinality(disk) <= MaxMessages /\ Bytes(SetToSeq(disk)) <= MaxBytes

(* Whoever joins is replayed messages in the order they were broadcast,    *)
(* none twice, and none of this process left out between two that are      *)
(* replayed (SendLobbyChatHistory, Append, RemoveOldest, Load).            *)
HistoryIsLatest ==
  /\ \A i, j \in DOMAIN history.messages :
        i < j => history.messages[i].id < history.messages[j].id
  /\ Kept \subseteq Ever
  /\ \A old \in Kept, m \in Ever :
        m.id > old.id /\ m.id >= ids.epoch * SeqSpan /\ ids.epoch # 0 => m \in Kept

(* A saved message goes away by age or because the messages since then     *)
(* fill the history, never by a crash or a restart; only a load that fails *)
(* lets the next flush overwrite what it did not read.                     *)
Since(m) == SelectSeq(accepted', LAMBDA a : a.id >= m.id)
SavedMayGo(m) ==
  \/ ~Retained(m, now')
  \/ Len(Since(m)) > MaxMessages
  \/ Bytes(Since(m)) > MaxBytes
SavedStay == [][~faulty => \A m \in disk \ disk' : SavedMayGo(m)]_vars

=============================================================================
