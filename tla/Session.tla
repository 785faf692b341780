------------------------------ MODULE Session ------------------------------
(***************************************************************************)
(* The life of a connection: networkTick, disconnect and clear of          *)
(* src/src/main.zig; init, deinit, onError, accept, sendPacket and         *)
(* queuePacket of src/src/network.zig; the player's input that reaches     *)
(* them.                                                                   *)
(*                                                                         *)
(* Two threads share, without a lock, the flags connected,                 *)
(* selected_server, sent_hello and tick_frame, the packet queue and the    *)
(* socket: the network thread "net" and the window thread "win".  A step   *)
(* is one access to what they share.  The queue is a sequence here: what   *)
(* its own steps do is the subject of Spsc, as what TCP does to the bytes  *)
(* is that of PacketStream.                                                *)
(*                                                                         *)
(* Touching a queue that is not there (before init, after deinit) is       *)
(* undefined behaviour.  The history variable broken says which access it  *)
(* was, and the model stops there.                                         *)
(***************************************************************************)
EXTENDS Naturals, Sequences, FiniteSets

CONSTANTS
  MaxConn,    \* bound on the connections opened
  MaxServed,  \* bound on the packets the server sends on one connection
  MaxActs,    \* bound on what the player does after selecting a character
  WindowOps   \* what the player does: subset of {"act", "escape", "disconnect"}

ASSUME SessionAssumption ==
  /\ MaxConn \in Nat /\ MaxServed \in Nat /\ MaxActs \in Nat
  /\ WindowOps \subseteq {"act", "escape", "disconnect"}

Thread == {"win", "net"}
Conn == 1..MaxConn

VARIABLES
  flags,    \* connected, selected_server, sent_hello, tick_frame
  queue,    \* state: "none" before the first init, "live" or "freed"; items
  stream,   \* the connection network.stream stands for, 0 before the first
  player,   \* in_game: the game screen is up; local: local_player_id is set
  pc,       \* where each thread is
  return,   \* and where the call it is in returns to
  packet,   \* the packet each thread is sending or queueing
  writer,   \* the packets in writer.buffer[0 .. writer.index]
  batch,    \* packets of one read that are still to be dispatched
  link,     \* of every connection: client: "unused", "open", "closed";
            \* server: it has not closed; inbox: sent and not yet read;
            \* served: how many were sent; wire: what the server received
  log,      \* history: failed, packets of failed writes; refused, packets
            \* logged as not sent; late, a packet was handled after
            \* disconnect; did, what the player did since; acts, how often
  broken    \* history: the access to a queue that is not there

vars == <<flags, queue, stream, player, pc, return, packet, writer, batch, link, log, broken>>

\* Where a thread is between two things it does.
Home(t) == IF t = "win" THEN "idle" ELSE "tick"

Goto(t, label) == pc' = [pc EXCEPT ![t] = label]
Call(t, label, then) == Goto(t, label) /\ return' = [return EXCEPT ![t] = then]
Return(t) == Goto(t, return[t]) /\ return' = [return EXCEPT ![t] = Home(t)]

\* What a packet is, and the connection it was made for.
For(kind) == [kind |-> kind, conn |-> stream]

Opened == {c \in Conn : link[c].client # "unused"}

-----------------------------------------------------------------------------
\* Mutant of DisconnectCheck: connected is not looked at again.
DisconnectUnchecked(t) ==
  /\ pc[t] = "disconnect"
  /\ Goto(t, "deinit")
  /\ UNCHANGED <<flags, queue, stream, player, return, packet, writer, batch, link, log, broken>>

\* main.disconnect, run by either thread.
DisconnectCheck(t) ==
  /\ pc[t] = "disconnect"
  /\ Goto(t, IF flags.connected THEN "deinit" ELSE "clear")
  /\ UNCHANGED <<flags, queue, stream, player, return, packet, writer, batch, link, log, broken>>

\* network.deinit empties and frees the queue and closes the socket, in one
\* step here; the last thing it does is to unset connected.
Deinit(t) ==
  /\ pc[t] = "deinit"
  /\ IF queue.state = "live"
     THEN /\ queue' = [state |-> "freed", items |-> <<>>]
          /\ link' = [link EXCEPT ![stream].client = "closed", ![stream].inbox = <<>>]
          /\ Goto(t, "unset connected")
          /\ UNCHANGED broken
     ELSE broken' = [thread |-> t, op |-> "deinit", state |-> queue.state]
          /\ UNCHANGED <<queue, link, pc>>
  /\ UNCHANGED <<flags, stream, player, return, packet, writer, batch, log>>

Unset(t, flag, from, to) ==
  /\ pc[t] = from
  /\ flags' = [flags EXCEPT ![flag] = FALSE]
  /\ Goto(t, to)
  /\ UNCHANGED <<queue, stream, player, return, packet, writer, batch, link, log, broken>>

\* clear, input.reset and switchScreen(.char_select).  tick_frame stays on.
Clear(t) ==
  /\ pc[t] = "clear"
  /\ player' = [in_game |-> FALSE, local |-> FALSE]
  /\ Return(t)
  /\ UNCHANGED <<flags, queue, stream, packet, writer, batch, link, log, broken>>

\* Mutant of Disconnect: the next connection is taken to have been greeted.
DisconnectKeepsSentHello(t) ==
  \/ DisconnectCheck(t)
  \/ Deinit(t)
  \/ Unset(t, "connected", "unset connected", "unset selected_server")
  \/ Unset(t, "selected_server", "unset selected_server", "clear")
  \/ Clear(t)

\* Mutant of Disconnect: connected is unset before the socket is closed.
DisconnectUnsetsFirst(t) ==
  \/ DisconnectCheck(t)
  \/ Unset(t, "connected", "deinit", "close")
  \/ /\ pc[t] = "close"
     /\ queue' = [state |-> "freed", items |-> <<>>]
     /\ link' = [link EXCEPT ![stream].client = "closed", ![stream].inbox = <<>>]
     /\ Goto(t, "unset selected_server")
     /\ UNCHANGED <<flags, stream, player, return, packet, writer, batch, log, broken>>
  \/ Unset(t, "selected_server", "unset selected_server", "unset sent_hello")
  \/ Unset(t, "sent_hello", "unset sent_hello", "clear")
  \/ Clear(t)

Disconnect(t) ==
  \/ DisconnectCheck(t)
  \/ Deinit(t)
  \/ Unset(t, "connected", "unset connected", "unset selected_server")
  \/ Unset(t, "selected_server", "unset selected_server", "unset sent_hello")
  \/ Unset(t, "sent_hello", "unset sent_hello", "clear")
  \/ Clear(t)

\* network.onError: "Only disconnect if we are still connected".
OnError ==
  /\ pc["net"] = "onError"
  /\ IF flags.connected THEN Goto("net", "disconnect") /\ UNCHANGED return ELSE Return("net")
  /\ UNCHANGED <<flags, queue, stream, player, packet, writer, batch, link, log, broken>>

-----------------------------------------------------------------------------
\* networkTick: one turn starts when a server is selected.
Tick ==
  /\ pc["net"] = "tick" /\ flags.selected_server
  /\ Goto("net", IF flags.connected THEN "hello" ELSE "init")
  /\ UNCHANGED <<flags, queue, stream, player, return, packet, writer, batch, link, log, broken>>

\* network.init.  When the connection cannot be made nothing changes, and
\* the next turn tries again.
Connect ==
  /\ pc["net"] = "init"
  /\ \/ \E c \in Conn \ Opened :
          /\ Opened = 1 .. c - 1
          /\ stream' = c
          /\ link' = [link EXCEPT ![c].client = "open"]
          /\ queue' = [state |-> "live", items |-> <<>>]
          /\ flags' = [flags EXCEPT !.connected = TRUE]
          /\ Goto("net", "hello")
     \/ Goto("net", "tick") /\ UNCHANGED <<stream, link, queue, flags>>
  /\ UNCHANGED <<player, return, packet, writer, batch, log, broken>>

\* The second test of connected in networkTick, and the hello packet.
\* queuePacket(hello) is Push.
Hello ==
  /\ pc["net"] = "hello"
  /\ \/ ~flags.connected /\ Goto("net", "tick") /\ UNCHANGED <<return, packet>>
     \/ flags.connected /\ flags.sent_hello /\ Goto("net", "drain") /\ UNCHANGED <<return, packet>>
     \/ /\ flags.connected /\ ~flags.sent_hello
        /\ packet' = [packet EXCEPT !["net"] = For("hello")]
        /\ Call("net", "push", "set sent_hello")
  /\ UNCHANGED <<flags, queue, stream, player, writer, batch, link, log, broken>>

\* Mutant of SetSentHello: the flag is not set.
SetSentHelloForgotten ==
  /\ pc["net"] = "set sent_hello"
  /\ Goto("net", "drain")
  /\ UNCHANGED <<flags, queue, stream, player, return, packet, writer, batch, link, log, broken>>

SetSentHello ==
  /\ pc["net"] = "set sent_hello"
  /\ flags' = [flags EXCEPT !.sent_hello = TRUE]
  /\ Goto("net", "drain")
  /\ UNCHANGED <<queue, stream, player, return, packet, writer, batch, link, log, broken>>

\* The loop at the head of accept that sends what is queued.
Drain ==
  /\ pc["net"] = "drain"
  /\ IF queue.state = "live"
     THEN /\ UNCHANGED broken
          /\ IF queue.items = <<>>
             THEN Goto("net", "read") /\ UNCHANGED <<queue, packet, return>>
             ELSE /\ packet' = [packet EXCEPT !["net"] = Head(queue.items)]
                  /\ queue' = [queue EXCEPT !.items = Tail(@)]
                  /\ Call("net", "send", "drain")
     ELSE /\ broken' = [thread |-> "net", op |-> "pop", state |-> queue.state]
          /\ UNCHANGED <<queue, packet, pc, return>>
  /\ UNCHANGED <<flags, stream, player, writer, batch, link, log>>

\* Mutant of Send: the buffer is not emptied after a write.
SendKeepsBuffer ==
  LET p == packet["net"]
      bytes == Append(writer, p)
      c == stream IN
  /\ pc["net"] = "send"
  /\ Len(writer) < 3
  /\ writer' = bytes
  /\ \/ /\ link[c].client = "open"
        /\ link' = IF link[c].server THEN [link EXCEPT ![c].wire = @ \o bytes] ELSE link
        /\ Return("net")
        /\ UNCHANGED log
     \/ /\ link[c].client = "open" => ~link[c].server
        /\ Goto("net", "onError") /\ UNCHANGED <<return, link>>
        /\ log' = [log EXCEPT !.failed = @ \cup {p}]
  /\ UNCHANGED <<flags, queue, stream, player, packet, batch, broken>>

\* sendPacket.  Without a connection it says so in the log and goes on.  What
\* is written is all of the writer's buffer, which only a write that succeeds
\* empties.  A write to a socket the client has closed fails; one to a server
\* that is gone may fail.
Send ==
  LET p == packet["net"]
      bytes == Append(writer, p)
      c == stream IN
  /\ pc["net"] = "send"
  /\ \/ /\ link[c].client = "open"
        /\ link' = IF link[c].server THEN [link EXCEPT ![c].wire = @ \o bytes] ELSE link
        /\ writer' = <<>>
        /\ Return("net")
        /\ log' = [log EXCEPT !.refused = IF flags.connected THEN @ ELSE @ \cup {p}]
     \/ /\ link[c].client = "open" => ~link[c].server
        /\ writer' = bytes
        /\ Goto("net", "onError") /\ UNCHANGED <<return, link>>
        /\ log' = [log EXCEPT !.refused = IF flags.connected THEN @ ELSE @ \cup {p},
                              !.failed = @ \cup {p}]
  /\ UNCHANGED <<flags, queue, stream, player, packet, batch, broken>>

\* stream.read: packets, the end of the stream (which accept takes for a
\* short read), or an error.
Read ==
  LET c == stream IN
  /\ pc["net"] = "read"
  /\ \/ /\ link[c].client = "open" /\ link[c].inbox # <<>>
        /\ batch' = link[c].inbox
        /\ link' = [link EXCEPT ![c].inbox = <<>>]
        /\ Goto("net", "dispatch") /\ UNCHANGED return
     \/ /\ link[c].client = "open" /\ link[c].inbox = <<>> /\ ~link[c].server
        /\ Goto("net", "tick") /\ UNCHANGED <<batch, link, return>>
     \/ /\ link[c].client = "open" => ~link[c].server
        /\ Call("net", "onError", "tick") /\ UNCHANGED <<batch, link>>
  /\ UNCHANGED <<flags, queue, stream, player, packet, writer, log, broken>>

\* The packets of one read are handled one after the other, whatever the
\* handlers did to the connection.
Dispatch ==
  /\ pc["net"] = "dispatch" /\ batch # <<>>
  /\ batch' = Tail(batch)
  /\ LET kind == Head(batch) IN
     \/ /\ kind = "failure"
        /\ Call("net", "disconnect", "dispatch") /\ UNCHANGED <<flags, player, packet>>
     \/ /\ kind = "ping" \/ (kind = "update" /\ flags.tick_frame)
        /\ packet' = [packet EXCEPT !["net"] = For(IF kind = "ping" THEN "pong" ELSE "update_ack")]
        /\ Call("net", "send", "dispatch") /\ UNCHANGED <<flags, player>>
     \/ /\ kind = "update" /\ ~flags.tick_frame
        /\ UNCHANGED <<flags, player, packet, pc, return>>
     \/ /\ kind = "map_info"
        /\ flags' = [flags EXCEPT !.tick_frame = TRUE]
        /\ player' = [player EXCEPT !.local = FALSE]
        /\ UNCHANGED <<packet, pc, return>>
     \/ /\ kind = "create_success"
        /\ player' = [player EXCEPT !.local = TRUE]
        /\ UNCHANGED <<flags, packet, pc, return>>
  /\ log' = [log EXCEPT !.late = @ \/ ~flags.connected]
  /\ UNCHANGED <<queue, stream, writer, link, broken>>

Dispatched ==
  /\ pc["net"] = "dispatch" /\ batch = <<>>
  /\ Goto("net", "tick")
  /\ UNCHANGED <<flags, queue, stream, player, return, packet, writer, batch, link, log, broken>>

Net ==
  \/ Tick \/ Connect \/ Hello \/ SetSentHello \/ Drain \/ Send \/ Read
  \/ Dispatch \/ Dispatched \/ OnError

-----------------------------------------------------------------------------
\* The queue.push at the end of queuePacket.
Push(t) ==
  /\ pc[t] = "push"
  /\ IF queue.state = "live"
     THEN /\ queue' = [queue EXCEPT !.items = Append(@, packet[t])]
          /\ Return(t) /\ UNCHANGED broken
     ELSE /\ broken' = [thread |-> t, op |-> "push", state |-> queue.state]
          /\ UNCHANGED <<queue, pc, return>>
  /\ UNCHANGED <<flags, stream, player, packet, writer, batch, link, log>>

\* boxClickCallback of the character screen.  Without a server list the game
\* screen comes up all the same.
SelectCharacter ==
  /\ pc["win"] = "idle" /\ ~player.in_game
  /\ \E found \in BOOLEAN : flags' = [flags EXCEPT !.selected_server = @ \/ found]
  /\ player' = [player EXCEPT !.in_game = TRUE]
  /\ UNCHANGED <<queue, stream, pc, return, packet, writer, batch, link, log, broken>>

Played(op) == log' = [log EXCEPT !.did = @ \cup {op}, !.acts = @ + 1]

\* Anything the player does in the world: it takes a local player, which
\* only a running frame (tick_frame) gives.
Act ==
  /\ "act" \in WindowOps /\ log.acts < MaxActs
  /\ pc["win"] = "idle" /\ player.in_game /\ player.local /\ flags.tick_frame
  /\ packet' = [packet EXCEPT !["win"] = For("play")]
  /\ Call("win", "push", "idle")
  /\ Played("act")
  /\ UNCHANGED <<flags, queue, stream, player, writer, batch, link, broken>>

\* tryEscape asks only for the game screen and a map that is not the Nexus;
\* map.name outlives the map.
Escape ==
  /\ "escape" \in WindowOps /\ log.acts < MaxActs
  /\ pc["win"] = "idle" /\ player.in_game
  /\ Goto("win", "escape")
  /\ Played("escape")
  /\ UNCHANGED <<flags, queue, stream, player, return, packet, writer, batch, link, broken>>

\* queuePacket of an escape: the queue is emptied, the map cleared.
EscapeDrain ==
  /\ pc["win"] = "escape"
  /\ IF queue.state = "live"
     THEN /\ queue' = [queue EXCEPT !.items = <<>>]
          /\ Goto("win", "escape clear") /\ UNCHANGED broken
     ELSE /\ broken' = [thread |-> "win", op |-> "pop", state |-> queue.state]
          /\ UNCHANGED <<queue, pc>>
  /\ UNCHANGED <<flags, stream, player, return, packet, writer, batch, link, log>>

EscapeClear ==
  /\ pc["win"] = "escape clear"
  /\ player' = [player EXCEPT !.local = FALSE]
  /\ flags' = [flags EXCEPT !.tick_frame = FALSE]
  /\ packet' = [packet EXCEPT !["win"] = For("escape")]
  /\ Call("win", "push", "idle")
  /\ UNCHANGED <<queue, stream, writer, batch, link, log, broken>>

\* The disconnect button of the options panel.
DisconnectButton ==
  /\ "disconnect" \in WindowOps /\ log.acts < MaxActs
  /\ pc["win"] = "idle" /\ player.in_game
  /\ Call("win", "disconnect", "idle")
  /\ Played("disconnect")
  /\ UNCHANGED <<flags, queue, stream, player, packet, writer, batch, link, broken>>

Win == SelectCharacter \/ Act \/ Escape \/ EscapeDrain \/ EscapeClear \/ DisconnectButton

-----------------------------------------------------------------------------
\* The server (external) greets nobody before hello; a failure is the last
\* packet it sends.  What it does once the client has closed is not followed.
ServerSends(c, kind) ==
  /\ link[c].client = "open" /\ link[c].server /\ link[c].served < MaxServed
  /\ \E i \in 1..Len(link[c].wire) : link[c].wire[i].kind = "hello"
  /\ link' = [link EXCEPT ![c].inbox = Append(@, kind),
                          ![c].served = IF kind = "failure" THEN MaxServed ELSE @ + 1]
  /\ UNCHANGED <<flags, queue, stream, player, pc, return, packet, writer, batch, log, broken>>

ServerCloses(c) ==
  /\ link[c].client = "open" /\ link[c].server
  /\ link' = [link EXCEPT ![c].server = FALSE]
  /\ UNCHANGED <<flags, queue, stream, player, pc, return, packet, writer, batch, log, broken>>

-----------------------------------------------------------------------------
S2C == {"map_info", "create_success", "update", "ping", "failure"}

NoBreak == [thread |-> "net", op |-> "none", state |-> "live"]

Init ==
  /\ flags = [connected |-> FALSE, selected_server |-> FALSE,
              sent_hello |-> FALSE, tick_frame |-> FALSE]
  /\ queue = [state |-> "none", items |-> <<>>]
  /\ stream = 0
  /\ player = [in_game |-> FALSE, local |-> FALSE]
  /\ pc = [t \in Thread |-> Home(t)]
  /\ return = [t \in Thread |-> Home(t)]
  /\ packet = [t \in Thread |-> For("hello")]
  /\ writer = <<>> /\ batch = <<>>
  /\ link = [c \in Conn |-> [client |-> "unused", server |-> TRUE, inbox |-> <<>>,
                             served |-> 0, wire |-> <<>>]]
  /\ log = [failed |-> {}, refused |-> {}, late |-> FALSE, did |-> {}, acts |-> 0]
  /\ broken = NoBreak

Next ==
  /\ broken = NoBreak
  /\ \/ Net \/ Win
     \/ \E t \in Thread : Push(t) \/ Disconnect(t)
     \/ \E c \in Conn : ServerCloses(c) \/ \E kind \in S2C : ServerSends(c, kind)

Spec == Init /\ [][Next]_vars

\* The network thread runs; nobody has to do anything else.
FairSpec ==
  Spec /\ WF_vars(broken = NoBreak /\ (Net \/ Push("net") \/ Disconnect("net")))

-----------------------------------------------------------------------------
Packet == [kind : {"hello", "play", "escape", "pong", "update_ack"}, conn : 0..MaxConn]

\* A queue that is not live is empty, and stream counts the connections made.
TypeOK ==
  /\ flags \in [{"connected", "selected_server", "sent_hello", "tick_frame"} -> BOOLEAN]
  /\ queue.state \in {"none", "live", "freed"}
  /\ queue.items \in Seq(Packet)
  /\ queue.state # "live" => queue.items = <<>>
  /\ stream \in 0..MaxConn /\ Opened = 1..stream
  /\ player \in [in_game : BOOLEAN, local : BOOLEAN]
  /\ packet \in [Thread -> Packet]
  /\ writer \in Seq(Packet) /\ batch \in Seq(S2C)
  /\ \A c \in Conn : link[c].wire \in Seq(Packet) /\ link[c].inbox \in Seq(S2C)

\* What the server of c received: its hello, and what was made for it.
HelloOf(c) == [kind |-> "hello", conn |-> c]
Received(c) == 1..Len(link[c].wire)
Greeted(c) == \E i \in Received(c) : link[c].wire[i] = HelloOf(c)

\* What follows is about the network thread disconnecting by itself, as it
\* does when the server fails or goes: with the button too, the connection
\* can be torn down by both threads at once.
NetOnly == "disconnect" \notin log.did

\* A connection is greeted at most once, whatever the server sends and
\* whenever it closes.
HelloOnce ==
  NetOnly => \A c \in Conn : \A i, j \in Received(c) :
    link[c].wire[i] = HelloOf(c) /\ link[c].wire[j] = HelloOf(c) => i = j

\* Nothing is sent on a connection before its hello, unless the player
\* escaped (which may drop it), or packets were handled after disconnect had
\* cleared the map: they bring the old map, and its player, back.
HelloFirst ==
  (NetOnly /\ ~log.late /\ "escape" \notin log.did) =>
    \A c \in Conn : \A i \in Received(c) :
      link[c].wire[i].conn = c => \E j \in 1..i : link[c].wire[j] = HelloOf(c)

\* A server receives a packet made for an earlier connection only when its
\* write failed: the queue never carries one over.  (A packet handled after
\* disconnect is the exception again: the old player lives on and plays
\* while the next connection is made.  With the button there is another: a
\* disconnect before the connection is made leaves the player on the
\* character screen with a map that runs.)
LeftoversFailed ==
  NetOnly => \A c \in Conn : \A i \in Received(c) :
     link[c].wire[i].conn # c => (link[c].wire[i] \in log.failed \/ log.late)

\* No socket is left open behind another one, whichever threads disconnect
\* and whenever: a new connection is made only after the last one was closed.
OneSocket == \A c \in Conn : link[c].client = "open" => c = stream

\* The queue is touched while it is not there in three ways only: the loop
\* of accept pops on after a failed write has torn the connection down; the
\* player's packet comes after the connection has gone; the player escapes
\* before the first connection.  It is never torn down twice.
TouchesWhenGone ==
  (NetOnly /\ broken # NoBreak) =>
    \/ broken.thread = "net" /\ broken.op = "pop" /\ log.failed # {}
    \/ broken.thread = "win" /\ (broken.state = "none" => "escape" \in log.did)

\* Whatever the server sends and whenever it closes, the hello is the first
\* packet of its connection and the only one of its kind, in the cases above;
\* the two threads' variables keep their types.
\* (main.zig 126-153, network.zig 234-309)
Greetings == TypeOK /\ HelloOnce /\ HelloFirst

\* A connection that stays up is greeted, if the player stays as well.
EventuallyGreeted ==
  \A c \in Conn :
    (link[c].client = "open") ~>
       \/ Greeted(c) \/ link[c].client = "closed" \/ ~link[c].server
       \/ broken # NoBreak \/ log.did \cap {"escape", "disconnect"} # {}
=============================================================================
