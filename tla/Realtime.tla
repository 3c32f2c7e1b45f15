------------------------------- MODULE Realtime -------------------------------
(***************************************************************************)
(* Realtime sessions: codex announces a session of a thread, its items and *)
(* its audio; WorkbenchService broadcasts them and the store of the page   *)
(* keeps them.  The audio is played from an object URL of one WAV blob,    *)
(* which a timer makes anew after the chunks have come.                    *)
(*                                                                         *)
(* A session is a number; a part (an item or a chunk) is the number of the *)
(* session it belongs to, with the sample rate for a chunk.                *)
(***************************************************************************)
EXTENDS Naturals, FiniteSets, Sequences

CONSTANTS Threads, Rates,  \* threads; sample rates, of which 0 is none
          None,            \* no session, no URL
          MaxSent,         \* bound: messages codex sends
          MaxCloses        \* bound: lost sockets

VARIABLES
  codex,    \* codex: thread |-> the number of its live session, or 0
  rate,     \* codex: thread |-> the rate of that session
  sent, inbox, online, closes,
  sessions, \* store: realtimeSessionsByThreadId: thread |-> session or None
  timers,   \* realtimeAudioUrlTimers: threads whose timer is running
  urls,     \* browser: object URLs that are not revoked, with the chunks they play
  made,     \* URLs made so far
  missed    \* history: threads of which a "started" was lost, and none came since

vars == <<codex, rate, sent, inbox, online, closes, sessions, timers, urls, made, missed>>
pageVars == <<sessions, timers, urls, made>>
wireVars == <<codex, rate, sent, online, closes>>

Session == [id : Nat, status : {"live", "error", "closed"}, items : Seq(Nat), chunks : Seq(Nat),
            rate : Nat, broken : BOOLEAN, url : Nat \cup {None}]

TypeOK ==
  /\ codex \in [Threads -> 0..MaxSent] /\ rate \in [Threads -> Rates \cup {0}]
  /\ sessions \in [Threads -> Session \cup {None}]
  /\ timers \subseteq Threads /\ missed \subseteq Threads
  /\ \A u \in urls : u.id \in 1..made
  /\ ~online => inbox = <<>>

Init ==
  /\ codex = [t \in Threads |-> 0] /\ rate = [t \in Threads |-> 0]
  /\ sent = 0 /\ inbox = <<>> /\ online = TRUE /\ closes = 0
  /\ sessions = [t \in Threads |-> None]
  /\ timers = {} /\ urls = {} /\ made = 0 /\ missed = {}

-----------------------------------------------------------------------------
(* Codex and the broadcasts. *)

Send(m) ==
  /\ sent < MaxSent /\ sent' = sent + 1
  /\ inbox' = IF online THEN Append(inbox, m) ELSE inbox
  /\ UNCHANGED <<online, closes, pageVars>>

Message(kind, t) == [kind |-> kind, thread |-> t, session |-> codex[t], rate |-> 0]

Started(t) ==
  /\ codex[t] = 0
  /\ codex' = [codex EXCEPT ![t] = sent + 1]
  /\ \E r \in Rates : rate' = [rate EXCEPT ![t] = r]
  /\ Send([Message("started", t) EXCEPT !.session = sent + 1])
  /\ missed' = IF online THEN missed ELSE missed \cup {t}

\* A chunk that decodes, or (rate 0) one that does not.
AudioDelta(t) ==
  /\ codex[t] # 0
  /\ \E r \in {rate[t], 0} : Send([Message("audio", t) EXCEPT !.rate = r])
  /\ UNCHANGED <<codex, rate, missed>>

ItemAdded(t) ==
  /\ codex[t] # 0
  /\ Send(Message("item", t))
  /\ UNCHANGED <<codex, rate, missed>>

Failed(t) ==
  /\ codex[t] # 0
  /\ Send(Message("error", t))
  /\ UNCHANGED <<codex, rate, missed>>

Closed(t) ==
  /\ codex[t] # 0
  /\ Send(Message("closed", t))
  /\ codex' = [codex EXCEPT ![t] = 0]
  /\ UNCHANGED <<rate, missed>>

SocketCloses ==
  /\ online /\ closes < MaxCloses
  /\ closes' = closes + 1 /\ online' = FALSE /\ inbox' = <<>>
  /\ missed' = missed \cup {inbox[i].thread : i \in {j \in DOMAIN inbox : inbox[j].kind = "started"}}
  /\ UNCHANGED <<codex, rate, sent, pageVars>>

SocketOpens ==
  /\ ~online
  /\ online' = TRUE
  /\ UNCHANGED <<codex, rate, sent, inbox, closes, pageVars, missed>>

-----------------------------------------------------------------------------
(* The store. *)

Created(id) ==
  [id |-> id, status |-> "live", items |-> <<>>, chunks |-> <<>>, rate |-> 0,
   broken |-> FALSE, url |-> None]

\* What a message other than "started" finds, or creates without a session id.
Found(t) == IF sessions[t] = None THEN Created(0) ELSE sessions[t]

Revoked(url) == {u \in urls : u.id # url}

\* Mutation: cleanupRealtimeSession() is not called.
StartOver(t, id) ==
  /\ sessions' = [sessions EXCEPT ![t] = Created(id)]
  /\ UNCHANGED <<timers, urls, made>>

\* Mutation: a session that is there goes on.
StartIfNone(t, id) ==
  /\ sessions' = [sessions EXCEPT ![t] = IF @ = None THEN Created(id) ELSE [@ EXCEPT !.status = "live"]]
  /\ UNCHANGED <<timers, urls, made>>

StartRealtimeSession(t, id) ==
  /\ sessions' = [sessions EXCEPT ![t] = Created(id)]
  /\ IF sessions[t] = None THEN UNCHANGED <<timers, urls>>
     ELSE timers' = timers \ {t} /\ urls' = Revoked(sessions[t].url)
  /\ UNCHANGED made

AppendRealtimeItem(t, id) ==
  /\ sessions' = [sessions EXCEPT ![t] = [Found(t) EXCEPT !.items = Append(@, id)]]
  /\ UNCHANGED <<timers, urls, made>>

\* decodeRealtimeAudioChunk() takes a chunk of the rate of those before it.
Decodes(session, r) == r # 0 /\ session.rate \in {0, r}

\* Mutation: the timer is only started by the first chunk.
AppendUntimed(t, id, r) ==
  /\ Decodes(Found(t), r)
  /\ sessions' = [sessions EXCEPT ![t] = [Found(t) EXCEPT !.chunks = Append(@, id), !.rate = r]]
  /\ timers' = IF Found(t).chunks = <<>> THEN timers \cup {t} ELSE timers
  /\ UNCHANGED <<urls, made>>

\* The timer starts again in every case, after a chunk that does not decode too.
AppendRealtimeAudio(t, id, r) ==
  /\ \/ /\ Found(t).broken
        /\ sessions' = [sessions EXCEPT ![t] = Found(t)]
        /\ UNCHANGED urls
     \/ /\ ~Found(t).broken /\ Decodes(Found(t), r)
        /\ sessions' = [sessions EXCEPT ![t] = [Found(t) EXCEPT !.chunks = Append(@, id), !.rate = r]]
        /\ UNCHANGED urls
     \/ /\ ~Found(t).broken /\ ~Decodes(Found(t), r)
        /\ sessions' = [sessions EXCEPT ![t] = [Found(t) EXCEPT !.broken = TRUE, !.url = None]]
        /\ urls' = Revoked(Found(t).url)
  /\ timers' = timers \cup {t}
  /\ UNCHANGED made

FailRealtimeSession(t) ==
  /\ sessions' = [sessions EXCEPT ![t] = [Found(t) EXCEPT !.status = "error"]]
  /\ UNCHANGED <<timers, urls, made>>

\* Mutation: the URL that is replaced is not revoked.
RebuildUrlOnly(t, session) ==
  /\ timers' = timers \ {t}
  /\ IF session.broken \/ session.chunks = <<>>
     THEN sessions' = [sessions EXCEPT ![t] = session] /\ UNCHANGED <<urls, made>>
     ELSE /\ made' = made + 1
          /\ urls' = urls \cup {[id |-> made + 1, chunks |-> session.chunks]}
          /\ sessions' = [sessions EXCEPT ![t] = [session EXCEPT !.url = made + 1]]

\* rebuild(): a URL of all the chunks, in place of the one before.
Rebuild(t, session) ==
  /\ timers' = timers \ {t}
  /\ IF session.broken \/ session.chunks = <<>>
     THEN sessions' = [sessions EXCEPT ![t] = session] /\ UNCHANGED <<urls, made>>
     ELSE /\ made' = made + 1
          /\ urls' = Revoked(session.url) \cup {[id |-> made + 1, chunks |-> session.chunks]}
          /\ sessions' = [sessions EXCEPT ![t] = [session EXCEPT !.url = made + 1]]

\* An error stays an error; the audio is made at once.
CloseRealtimeSession(t) ==
  Rebuild(t, [Found(t) EXCEPT !.status = IF @ = "error" THEN "error" ELSE "closed"])

Receive ==
  /\ online /\ inbox # <<>>
  /\ LET m == Head(inbox)
         t == m.thread
     IN /\ inbox' = Tail(inbox)
        /\ \/ m.kind = "started" /\ StartRealtimeSession(t, m.session)
           \/ m.kind = "item" /\ AppendRealtimeItem(t, m.session)
           \/ m.kind = "audio" /\ AppendRealtimeAudio(t, m.session, m.rate)
           \/ m.kind = "error" /\ FailRealtimeSession(t)
           \/ m.kind = "closed" /\ CloseRealtimeSession(t)
        /\ missed' = IF m.kind = "started" THEN missed \ {t} ELSE missed
  /\ UNCHANGED wireVars

TimerFires(t) ==
  /\ t \in timers /\ sessions[t] # None
  /\ Rebuild(t, sessions[t])
  /\ UNCHANGED <<wireVars, inbox, missed>>

Next ==
  \/ \E t \in Threads :
       \/ Started(t) \/ AudioDelta(t) \/ ItemAdded(t) \/ Failed(t) \/ Closed(t)
       \/ TimerFires(t)
  \/ Receive \/ SocketCloses \/ SocketOpens

Spec == Init /\ [][Next]_vars

-----------------------------------------------------------------------------
(* Properties. *)

Owned(t) == sessions[t] # None /\ sessions[t].url # None

\* The object URLs the browser keeps are those the sessions play, one each: none
\* leaks and none is played after it was revoked.  What a URL plays is all the
\* audio of its session, or the timer that will make it anew is running.
AudioIsDue ==
  /\ {u.id : u \in urls} = {sessions[t].url : t \in {x \in Threads : Owned(x)}}
  /\ Cardinality(urls) = Cardinality({t \in Threads : Owned(t)})
  /\ \A t \in Threads : sessions[t] # None /\ ~sessions[t].broken /\ sessions[t].chunks # <<>> =>
       t \in timers \/ \E u \in urls : u.id = sessions[t].url /\ u.chunks = sessions[t].chunks
  /\ \A t \in Threads : sessions[t] # None /\ sessions[t].broken => sessions[t].url = None

\* A session shows items and plays audio of itself only; parts of another one get
\* into it only when the message that started that one was lost with the socket.
PartsOfOneSession ==
  \A t \in Threads \ missed : sessions[t] # None =>
    \A parts \in {sessions[t].items, sessions[t].chunks} :
      \A i \in DOMAIN parts : parts[i] = sessions[t].id
=============================================================================
