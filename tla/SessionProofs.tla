---------------------------- MODULE SessionProofs ----------------------------
(***************************************************************************)
(* The safety properties of Session hold for any number of connections,    *)
(* packets and things the player does.                                     *)
(***************************************************************************)
EXTENDS Session, SequenceTheorems, TLAPS

Teardown == {"disconnect", "deinit", "unset connected", "unset selected_server",
             "unset sent_hello", "clear"}
NetLabel == {"tick", "init", "hello", "push", "set sent_hello", "drain", "send", "read",
             "dispatch", "onError"} \cup Teardown
WinLabel == {"idle", "push", "escape", "escape clear"} \cup Teardown
Link == [client : {"unused", "open", "closed"}, server : BOOLEAN, inbox : Seq(S2C),
         served : Nat, wire : Seq(Packet)]

\* The types of the variables, with what ties them together.
FlagsOK == flags \in [{"connected", "selected_server", "sent_hello", "tick_frame"} -> BOOLEAN]
QueueOK ==
  /\ queue \in [state : {"none", "live", "freed"}, items : Seq(Packet)]
  /\ queue.state # "live" => queue.items = <<>>
PlayerOK == player \in [in_game : BOOLEAN, local : BOOLEAN]
PacketOK == packet \in [Thread -> Packet]
BuffersOK ==
  /\ writer \in Seq(Packet) /\ batch \in Seq(S2C)
  /\ \A i \in 1..Len(writer) : writer[i] \in log.failed
LinkOK ==
  /\ link \in [Conn -> Link]
  /\ \A c \in Conn : link[c].client = "unused" => link[c].wire = <<>>
LogOK == log \in [failed : SUBSET Packet, refused : SUBSET Packet, late : BOOLEAN,
                  did : SUBSET {"act", "escape", "disconnect"}, acts : Nat]

\* stream counts the connections made.
Counted ==
  /\ stream \in 0..MaxConn
  /\ \A c \in Conn : link[c].client # "unused" <=> c <= stream
  /\ queue.state = "none" <=> stream = 0
  /\ pc["net"] \notin {"tick", "init"} => stream # 0
  /\ flags.connected => stream # 0

\* The threads' labels are theirs, and a call returns to where it was made.
Labels ==
  /\ pc \in [Thread -> NetLabel \cup WinLabel] /\ return \in [Thread -> NetLabel \cup WinLabel]
  /\ pc["net"] \in NetLabel /\ pc["win"] \in WinLabel /\ return["win"] = "idle"
  /\ return["net"] \in {"tick", "drain", "dispatch", "set sent_hello"}
  /\ (pc["net"] = "push") = (return["net"] = "set sent_hello")
  /\ pc["net"] = "send" => return["net"] # "tick"

Types ==
  /\ FlagsOK /\ QueueOK /\ PlayerOK /\ PacketOK /\ BuffersOK /\ LinkOK /\ LogOK
  /\ Counted /\ Labels

\* The socket that is open is the last one, and its queue is live; a thread
\* that has closed it unsets connected before anybody connects again.
Sockets ==
  /\ \A c \in Conn : link[c].client = "open" => c = stream /\ queue.state = "live"
  /\ queue.state = "live" => flags.connected /\ link[stream].client = "open"
  /\ pc["net"] = "init" => ~flags.connected
  /\ \A t \in Thread : pc[t] = "unset connected" => flags.connected /\ queue.state = "freed"
  /\ ~(pc["net"] = "unset connected" /\ pc["win"] = "unset connected")

Up == flags.connected /\ queue.state = "live"

\* When only the network thread disconnects: who finds the queue live.
Queues ==
  /\ pc["win"] \notin Teardown
  /\ flags.connected /\ pc["net"] # "unset connected" => queue.state = "live"
  /\ pc["net"] \in {"hello", "push", "set sent_hello", "read", "deinit"} => flags.connected
  /\ pc["net"] \in {"unset selected_server", "unset sent_hello", "clear"} => ~flags.connected
  /\ return["net"] = "drain" =>
       /\ pc["net"] \in {"send", "onError", "disconnect"} => flags.connected
       /\ pc["net"] = "onError" \/ pc["net"] \in Teardown => log.failed # {}
  /\ pc["net"] = "drain" => Up \/ (~flags.connected /\ log.failed # {})
  /\ pc["win"] \in {"push", "escape clear"} \/ player.local => stream # 0
  /\ pc["win"] \in {"escape", "escape clear"} => "escape" \in log.did

IsHello(p) == p.kind = "hello"
HelloInQueue == \E i \in 1..Len(queue.items) : IsHello(queue.items[i])
HelloOnWire == \E i \in 1..Len(link[stream].wire) : IsHello(link[stream].wire[i])
HelloInWriter == \E i \in 1..Len(writer) : IsHello(writer[i])
StreamGreeted == Greeted(stream)

\* Where a hello can be, and that it is in one place only: in the packet
\* that is pushed, in the queue, in the packet that is sent, or received; a
\* write that failed may leave it in the writer's buffer.
HelloPushed == pc["net"] = "push" => packet["net"] = HelloOf(stream) /\ ~flags.sent_hello
NoneFromWin == pc["win"] = "push" => ~IsHello(packet["win"])
HelloQueued ==
  /\ \A i \in 1..Len(queue.items) : IsHello(queue.items[i]) => queue.items[i] = HelloOf(stream)
  /\ \A i, j \in 1..Len(queue.items) : IsHello(queue.items[i]) /\ IsHello(queue.items[j]) => i = j
HelloSent ==
  pc["net"] = "send" /\ IsHello(packet["net"]) =>
    /\ packet["net"] = HelloOf(stream) /\ return["net"] = "drain"
    /\ flags.sent_hello /\ ~HelloInQueue /\ ~HelloOnWire
QueuedNotReceived == Up /\ HelloInQueue => ~HelloOnWire
NoneYet ==
  Up /\ ~flags.sent_hello /\ pc["net"] # "set sent_hello" => ~HelloInQueue /\ ~HelloOnWire
HelloReceived ==
  \A c \in Conn :
    /\ \A i \in Received(c) : IsHello(link[c].wire[i]) => link[c].wire[i] = HelloOf(c)
    /\ \A i, j \in Received(c) : IsHello(link[c].wire[i]) /\ IsHello(link[c].wire[j]) => i = j
HelloKept ==
  HelloInWriter =>
    \/ return["net"] = "drain" /\ (pc["net"] = "onError" \/ pc["net"] \in Teardown)
    \/ pc["net"] = "drain" /\ queue.state # "live"

Hellos ==
  /\ HelloPushed /\ NoneFromWin /\ HelloQueued /\ HelloSent
  /\ QueuedNotReceived /\ NoneYet /\ HelloReceived /\ HelloKept

\* No packet was handled after disconnect: the player is in the game, and the
\* map runs, only while the connection or its teardown lasts.
Players ==
  /\ pc["net"] = "disconnect" => flags.connected
  /\ pc["net"] = "send" => flags.connected
  /\ pc["net"] \in {"unset sent_hello", "clear"} => ~flags.selected_server
  /\ \/ flags.connected \/ flags.selected_server
     \/ pc["net"] \in {"init", "unset selected_server", "unset sent_hello", "clear"}
     => player.in_game
  /\ player.local /\ ~flags.connected =>
       pc["net"] \in {"unset selected_server", "unset sent_hello", "clear"}
  /\ pc["win"] \in {"push", "escape clear"} /\ ~flags.connected =>
       /\ pc["net"] # "init"
       /\ pc["net"] = "unset selected_server" \/ ~flags.selected_server

\* What is queued or sent is of this connection, what is left over is not.
QueuedIsOwn == \A i \in 1..Len(queue.items) : queue.items[i].conn = stream
SentIsOwn ==
  /\ pc["net"] \in {"push", "send"} => packet["net"].conn = stream
  /\ pc["win"] = "push" => packet["win"].conn = stream
KeptIsOld ==
  \A i \in 1..Len(writer) :
    /\ writer[i].conn <= stream
    /\ writer[i].conn = stream /\ Up => pc["net"] \in {"onError", "disconnect", "deinit"}
Leftovers == QueuedIsOwn /\ SentIsOwn /\ KeptIsOld

\* The player did not escape either: the hello leads what is made for its
\* connection, wherever it is.
SentHelloSet ==
  /\ flags.sent_hello => flags.connected \/ pc["net"] \in {"unset selected_server", "unset sent_hello"}
  /\ pc["net"] \in {"drain", "send", "read", "dispatch"} /\ flags.connected => flags.sent_hello
NothingBefore ==
  (flags.connected /\ ~flags.sent_hello /\ pc["net"] # "set sent_hello") =>
    ~player.local /\ pc["win"] # "push" /\ queue.items = <<>>
HelloOnTheWay ==
  \/ pc["net"] \in {"set sent_hello", "drain"} /\ queue.items # <<>> /\ queue.items[1] = HelloOf(stream)
  \/ pc["net"] = "send" /\ packet["net"] = HelloOf(stream)
  \/ StreamGreeted \/ ~link[stream].server
  \/ pc["net"] \in {"onError", "disconnect", "deinit"}
HelloLeads == Up /\ (flags.sent_hello \/ pc["net"] = "set sent_hello") => HelloOnTheWay
Leads == SentHelloSet /\ NothingBefore /\ HelloLeads

\* What holds until the program breaks.
Sound ==
  /\ Sockets
  /\ NetOnly => Queues /\ Hellos
  /\ NetOnly /\ ~log.late => Players /\ Leftovers
  /\ NetOnly /\ ~log.late /\ "escape" \notin log.did => Leads

IInv ==
  /\ Types /\ Sockets /\ (broken = NoBreak => Sound)
  /\ TouchesWhenGone /\ HelloOnce /\ HelloFirst /\ LeftoversFailed

\* Nothing is sent by this step, and the history only grows.
Unsent ==
  /\ \A c \in Conn : link'[c].wire = link[c].wire
  /\ log.failed \subseteq log'.failed /\ (log.late => log'.late) /\ log.did \subseteq log'.did

-----------------------------------------------------------------------------
(* What the updates of the model do to the types. *)

LEMMA Packets ==
  ASSUME stream \in 0..MaxConn
  PROVE  /\ For("hello") \in Packet /\ For("play") \in Packet /\ For("escape") \in Packet
         /\ For("pong") \in Packet /\ For("update_ack") \in Packet
BY DEF For, Packet

\* An inbox and the client's side of a link.
LEMMA ClientUpdates ==
  ASSUME LinkOK, NEW c \in Conn
  PROVE  /\ [link EXCEPT ![c].client = "open"] \in [Conn -> Link]
         /\ [link EXCEPT ![c].client = "closed", ![c].inbox = <<>>] \in [Conn -> Link]
         /\ [link EXCEPT ![c].inbox = <<>>] \in [Conn -> Link]
<1>1. <<>> \in Seq(S2C)
  OBVIOUS
<1>2. \A w \in Seq(S2C) : [link EXCEPT ![c].client = "closed", ![c].inbox = w] \in [Conn -> Link]
  BY DEF LinkOK, Link
<1>3. \A w \in Seq(S2C) : [link EXCEPT ![c].inbox = w] \in [Conn -> Link]
  BY DEF LinkOK, Link
<1>4. [link EXCEPT ![c].client = "open"] \in [Conn -> Link]
  BY DEF LinkOK, Link
<1> QED
  BY <1>1, <1>2, <1>3, <1>4

\* What is sent on a link.
LEMMA WireUpdates ==
  ASSUME LinkOK, NEW c \in Conn, NEW w \in Seq(Packet)
  PROVE  [link EXCEPT ![c].wire = @ \o w] \in [Conn -> Link]
<1>1. link[c].wire \o w \in Seq(Packet)
  BY DEF LinkOK, Link
<1> QED
  BY <1>1 DEF LinkOK, Link

LEMMA PlayedLog ==
  ASSUME LogOK, NEW op \in {"act", "escape", "disconnect"}, Played(op)
  PROVE  /\ LogOK' /\ log'.failed = log.failed /\ log'.late = log.late
         /\ log'.did = log.did \cup {op}
<1>1. log.did \cup {op} \in SUBSET {"act", "escape", "disconnect"} /\ log.acts + 1 \in Nat
  BY DEF LogOK
<1>2. LogOK'
  BY <1>1 DEF LogOK, Played
<1>3. log'.failed = log.failed /\ log'.late = log.late /\ log'.did = log.did \cup {op}
  BY DEF LogOK, Played
<1> QED
  BY <1>2, <1>3

\* The next connection is the one after the last.
LEMMA NextConnection ==
  ASSUME Types, NEW c \in Conn \ Opened, Opened = 1 .. c - 1
  PROVE  c = stream + 1 /\ stream \in Nat
<1>1. c \in Nat /\ stream \in Nat /\ stream < c /\ c <= MaxConn
  BY SessionAssumption DEF Types, Counted, Opened, Conn
<1>2. SUFFICES ASSUME stream + 1 # c PROVE FALSE
  BY <1>1
<1>3. stream + 1 \in 1 .. c - 1
  BY <1>1, <1>2
<1>4. stream + 1 \in Conn
  BY <1>1, SessionAssumption DEF Conn
<1> QED
  BY <1>1, <1>3, <1>4 DEF Types, Counted, Opened

\* What the server receives in one write: the buffer, then the packet.
LEMMA Sent ==
  ASSUME NEW w \in Seq(Packet), NEW v \in Seq(Packet), NEW p \in Packet
  PROVE  LET s == w \o Append(v, p) IN
         /\ Len(s) = Len(w) + Len(v) + 1 /\ Len(w) \in Nat /\ Len(v) \in Nat
         /\ \A i \in 1..Len(w) : s[i] = w[i]
         /\ \A i \in 1..Len(v) : s[Len(w) + i] = v[i]
         /\ \A i \in Len(w) + 1 .. Len(w) + Len(v) : i - Len(w) \in 1..Len(v) /\ s[i] = v[i - Len(w)]
         /\ s[Len(s)] = p
<1> DEFINE a == Append(v, p)
           s == w \o a
<1>1. /\ a \in Seq(Packet) /\ Len(a) = Len(v) + 1 /\ a[Len(v) + 1] = p
      /\ \A i \in 1..Len(v) : a[i] = v[i]
  BY AppendProperties
<1>2. Len(w) \in Nat /\ Len(v) \in Nat
  OBVIOUS
<1> HIDE DEF a
<1>3. /\ Len(s) = Len(w) + Len(a)
      /\ \A i \in 1..Len(w) + Len(a) : s[i] = IF i <= Len(w) THEN w[i] ELSE a[i - Len(w)]
  BY <1>1, ConcatProperties
<1> HIDE DEF s
<1>4. \A i \in 1..Len(w) : s[i] = w[i]
  BY <1>1, <1>2, <1>3
<1>5. \A i \in 1..Len(v) : s[Len(w) + i] = v[i]
  <2> TAKE i \in 1..Len(v)
  <2>1. Len(w) + i \in 1..Len(w) + Len(a) /\ ~(Len(w) + i <= Len(w)) /\ Len(w) + i - Len(w) = i
    BY <1>1, <1>2
  <2>2. s[Len(w) + i] = a[Len(w) + i - Len(w)]
    BY <1>3, <2>1
  <2> QED
    BY <1>1, <2>1, <2>2
<1>6. s[Len(s)] = p
  <2>1. Len(s) \in 1..Len(w) + Len(a) /\ ~(Len(s) <= Len(w)) /\ Len(s) - Len(w) = Len(v) + 1
    BY <1>1, <1>2, <1>3
  <2>2. s[Len(s)] = a[Len(s) - Len(w)]
    BY <1>3, <2>1
  <2> QED
    BY <1>1, <2>1, <2>2
<1>7. \A i \in Len(w) + 1 .. Len(w) + Len(v) : i - Len(w) \in 1..Len(v) /\ s[i] = v[i - Len(w)]
  <2> TAKE i \in Len(w) + 1 .. Len(w) + Len(v)
  <2>1. i - Len(w) \in 1..Len(v) /\ i = Len(w) + (i - Len(w))
    BY <1>2
  <2> QED
    BY <1>5, <2>1
<1> QED
  BY <1>1, <1>2, <1>3, <1>4, <1>5, <1>6, <1>7 DEF s, a

\* What sendPacket does: the write succeeds, or it fails and the buffer keeps
\* what it holds.
LEMMA SendEffect ==
  ASSUME Types, Send
  PROVE  /\ stream \in Conn /\ pc["net"] = "send" /\ pc'["win"] = pc["win"] /\ packet["net"] \in Packet
         /\ log'.late = log.late /\ log'.did = log.did /\ log.failed \subseteq log'.failed
         /\ \A c \in Conn : link'[c].client = link[c].client /\ link'[c].server = link[c].server
         /\ \A c \in Conn \ {stream} : link'[c].wire = link[c].wire
         /\ \/ /\ link[stream].client = "open" /\ pc'["net"] = return["net"] /\ return'["net"] = "tick"
               /\ writer' = <<>>
               /\ \/ /\ link[stream].server
                     /\ link'[stream].wire = link[stream].wire \o Append(writer, packet["net"])
                  \/ ~link[stream].server /\ link'[stream].wire = link[stream].wire
            \/ /\ pc'["net"] = "onError" /\ UNCHANGED <<return, link>>
               /\ writer' = Append(writer, packet["net"])
               /\ log'.failed = log.failed \cup {packet["net"]}
<1>1. stream \in Conn /\ packet["net"] \in Packet
  BY DEF Send, Types, Counted, Conn, PacketOK, Thread
<1>2. log'.late = log.late /\ log'.did = log.did /\ log.failed \subseteq log'.failed
  <2>1. \/ log' = [log EXCEPT !.refused = IF flags.connected THEN @ ELSE @ \cup {packet["net"]}]
        \/ log' = [log EXCEPT !.refused = IF flags.connected THEN @ ELSE @ \cup {packet["net"]},
                              !.failed = @ \cup {packet["net"]}]
    BY DEF Send
  <2> QED
    BY <2>1 DEF Types, LogOK
<1>3. \/ UNCHANGED link
      \/ link' = [link EXCEPT ![stream].wire = @ \o Append(writer, packet["net"])]
  BY DEF Send
<1>4. \A c \in Conn : link'[c].client = link[c].client /\ link'[c].server = link[c].server
  <2>1. CASE UNCHANGED link
    BY <2>1
  <2>2. CASE link' = [link EXCEPT ![stream].wire = @ \o Append(writer, packet["net"])]
    BY <1>1, <2>2 DEF Types, LinkOK, Link
  <2> QED
    BY <1>3, <2>1, <2>2
<1>5. \A c \in Conn \ {stream} : link'[c].wire = link[c].wire
  BY <1>1, <1>3 DEF Types, LinkOK, Link
<1>6. CASE link[stream].client = "open" /\ writer' = <<>> /\ Return("net")
           /\ link' = IF link[stream].server
                      THEN [link EXCEPT ![stream].wire = @ \o Append(writer, packet["net"])] ELSE link
  <2>1. pc'["net"] = return["net"] /\ return'["net"] = "tick" /\ pc'["win"] = pc["win"]
    BY <1>6 DEF Return, Goto, Home, Types, Labels, Thread
  <2>2. \/ link[stream].server /\ link'[stream].wire = link[stream].wire \o Append(writer, packet["net"])
        \/ ~link[stream].server /\ link'[stream].wire = link[stream].wire
    BY <1>1, <1>6 DEF Types, LinkOK, Link
  <2> QED
    BY <1>1, <1>2, <1>4, <1>5, <1>6, <2>1, <2>2 DEF Send
<1>7. CASE /\ writer' = Append(writer, packet["net"]) /\ Goto("net", "onError") /\ UNCHANGED <<return, link>>
           /\ log' = [log EXCEPT !.refused = IF flags.connected THEN @ ELSE @ \cup {packet["net"]},
                                 !.failed = @ \cup {packet["net"]}]
  <2>1. pc'["net"] = "onError" /\ pc'["win"] = pc["win"]
    BY <1>7 DEF Goto, Types, Labels, Thread
  <2>2. log'.failed = log.failed \cup {packet["net"]}
    BY <1>7 DEF Types, LogOK
  <2> QED
    BY <1>1, <1>2, <1>4, <1>5, <1>7, <2>1, <2>2 DEF Send
<1> QED
  BY <1>6, <1>7 DEF Send

-----------------------------------------------------------------------------
(* Every action keeps the types. *)

LEMMA TickTypes ==
  ASSUME Types, Tick
  PROVE  Types'
<1>1. UNCHANGED <<flags, queue, stream, player, return, packet, writer, batch, link, log, broken>>
  BY DEF Tick
<1>2. FlagsOK' /\ QueueOK' /\ PlayerOK' /\ PacketOK' /\ BuffersOK' /\ LinkOK' /\ LogOK'
  BY <1>1 DEF Types, FlagsOK, QueueOK, PlayerOK, PacketOK, BuffersOK, LinkOK, LogOK
<1>3. Counted'
  BY <1>1 DEF Tick, Goto, Types, Conn, Counted, NetLabel
<1>4. Labels'
  BY <1>1 DEF Tick, Goto, Types, Labels, NetLabel, Teardown, Thread, WinLabel
<1> QED
  BY <1>1, <1>2, <1>3, <1>4 DEF Types

LEMMA ConnectTypes ==
  ASSUME Types, Connect
  PROVE  Types'
<1>1. UNCHANGED <<player, return, packet, writer, batch, log, broken>>
  BY DEF Connect
<1>2. PlayerOK' /\ PacketOK' /\ BuffersOK' /\ LogOK'
  BY <1>1 DEF Types, PlayerOK, PacketOK, BuffersOK, LogOK
<1>3. CASE Goto("net", "tick") /\ UNCHANGED <<stream, link, queue, flags>>
  <2>1. FlagsOK' /\ QueueOK' /\ LinkOK'
    BY <1>3 DEF Types, FlagsOK, QueueOK, LinkOK
  <2>2. Counted' /\ Labels'
    BY <1>1, <1>3 DEF Connect, Types, Counted, Labels, Goto, NetLabel, WinLabel, Teardown, Thread
  <2> QED
    BY <1>2, <2>1, <2>2 DEF Types
<1>4. ASSUME NEW c \in Conn \ Opened, Opened = 1 .. c - 1, stream' = c,
             link' = [link EXCEPT ![c].client = "open"],
             queue' = [state |-> "live", items |-> <<>>],
             flags' = [flags EXCEPT !.connected = TRUE], Goto("net", "hello")
      PROVE  Types'
  <2>1. FlagsOK'
    BY <1>4 DEF Types, FlagsOK
  <2>2. QueueOK'
    BY <1>4 DEF QueueOK
  <2>3. link' \in [Conn -> Link]
    BY <1>4, ClientUpdates DEF Types
  <2>4. /\ link'[c].client = "open"
        /\ \A d \in Conn \ {c} : link'[d] = link[d]
    BY <1>4 DEF Types, LinkOK, Link
  <2>5. LinkOK'
    BY <2>3, <2>4 DEF Types, LinkOK
  <2>6. c \in Nat /\ stream \in Nat /\ c <= MaxConn
    BY <1>4, SessionAssumption DEF Types, Counted, Conn
  <2>7. c = stream + 1
    BY <1>4, NextConnection
  <2>8. \A d \in Conn : link'[d].client # "unused" <=> d <= c
    <3>1. \A d \in Conn \ {c} : d <= stream <=> d <= c
      BY <2>6, <2>7 DEF Conn
    <3> QED
      BY <2>4, <2>6, <3>1 DEF Types, Counted
  <2>9. Counted'
    BY <1>4, <2>6, <2>7, <2>8, SessionAssumption DEF Counted
  <2>10. Labels'
    BY <1>1, <1>4 DEF Connect, Types, Labels, Goto, NetLabel, WinLabel, Teardown, Thread
  <2> QED
    BY <1>2, <2>1, <2>2, <2>5, <2>9, <2>10 DEF Types
<1> QED
  BY <1>3, <1>4 DEF Connect

LEMMA HelloTypes ==
  ASSUME Types, Hello
  PROVE  Types'
<1>1. UNCHANGED <<flags, queue, stream, player, writer, batch, link, log, broken>>
  BY DEF Hello
<1>2. FlagsOK' /\ QueueOK' /\ PlayerOK' /\ BuffersOK' /\ LinkOK' /\ LogOK'
  BY <1>1 DEF Types, FlagsOK, QueueOK, PlayerOK, BuffersOK, LinkOK, LogOK
<1>3. PacketOK'
  BY <1>1, Packets DEF Hello, Types, Counted, PacketOK, Call
<1>4. Counted'
  BY <1>1 DEF Hello, Goto, Call, For, Types, Conn, Counted, NetLabel
<1>5. Labels'
  BY <1>1, ZenonT(60) DEF Hello, Goto, Call, For, Types, Labels, NetLabel, Teardown, Thread, WinLabel
<1> QED
  BY <1>1, <1>2, <1>3, <1>4, <1>5 DEF Types

LEMMA SetSentHelloTypes ==
  ASSUME Types, SetSentHello
  PROVE  Types'
<1>1. UNCHANGED <<queue, stream, player, return, packet, writer, batch, link, log, broken>>
  BY DEF SetSentHello
<1>2. QueueOK' /\ PlayerOK' /\ PacketOK' /\ BuffersOK' /\ LinkOK' /\ LogOK'
  BY <1>1 DEF Types, QueueOK, PlayerOK, PacketOK, BuffersOK, LinkOK, LogOK
<1>3. FlagsOK'
  BY <1>1 DEF SetSentHello, Goto, Types, FlagsOK
<1>4. Counted'
  BY <1>1 DEF SetSentHello, Goto, Types, Conn, Counted, NetLabel
<1>5. Labels'
  BY <1>1 DEF SetSentHello, Goto, Types, Labels, NetLabel, Teardown, Thread, WinLabel
<1> QED
  BY <1>1, <1>2, <1>3, <1>4, <1>5 DEF Types

LEMMA DrainTypes ==
  ASSUME Types, Drain
  PROVE  Types'
<1>1. UNCHANGED <<flags, stream, player, writer, batch, link, log>>
  BY DEF Drain
<1>2. FlagsOK' /\ PlayerOK' /\ BuffersOK' /\ LinkOK' /\ LogOK'
  BY <1>1 DEF Types, FlagsOK, PlayerOK, BuffersOK, LinkOK, LogOK
<1>3. QueueOK'
  BY HeadTailProperties DEF Drain, Types, QueueOK
<1>4. PacketOK'
  BY HeadTailProperties DEF Drain, Types, QueueOK, PacketOK, Thread
<1>5. Counted'
  BY <1>1 DEF Drain, Goto, Call, Types, Conn, Counted, FlagsOK, Labels, Link, LinkOK, NetLabel, QueueOK, Teardown, Thread, WinLabel
<1>6. Labels'
  BY <1>1 DEF Drain, Goto, Call, Types, Labels, NetLabel, Teardown, Thread, WinLabel
<1> QED
  BY <1>1, <1>2, <1>3, <1>4, <1>5, <1>6 DEF Types

LEMMA SendTypes ==
  ASSUME Types, Send
  PROVE  Types'
<1>1. UNCHANGED <<flags, queue, stream, player, packet, batch, broken>>
  BY DEF Send
<1>2. FlagsOK' /\ QueueOK' /\ PlayerOK' /\ PacketOK'
  BY <1>1 DEF Types, FlagsOK, QueueOK, PlayerOK, PacketOK
<1>3. BuffersOK'
  <2>1. packet["net"] \in Packet
    BY DEF Types, PacketOK, Thread
  <2>2. CASE writer' = <<>>
    BY <1>1, <2>2 DEF Types, BuffersOK
  <2>3. CASE writer' = Append(writer, packet["net"]) /\ log'.failed = log.failed \cup {packet["net"]}
    BY <1>1, <2>1, <2>3 DEF Types, BuffersOK
  <2> QED
    BY <2>2, <2>3 DEF Send, Types, LogOK
<1>4. LinkOK'
  <2>1. Append(writer, packet["net"]) \in Seq(Packet)
    BY DEF Types, PacketOK, Thread, BuffersOK
  <2>2. CASE UNCHANGED link
    BY <2>2 DEF Types, LinkOK
  <2>3. CASE /\ link[stream].client = "open"
             /\ link' = [link EXCEPT ![stream].wire = @ \o Append(writer, packet["net"])]
    <3>1. stream \in Conn
      BY DEF Send, Types, Counted, Conn
    <3>2. link' \in [Conn -> Link]
      BY <2>1, <2>3, <3>1, WireUpdates DEF Types
    <3>3. \A c \in Conn : link'[c].client = link[c].client /\ (c # stream => link'[c] = link[c])
      BY <2>3, <3>1 DEF Types, LinkOK, Link
    <3> QED
      BY <2>3, <3>2, <3>3 DEF Types, LinkOK
  <2> QED
    BY <2>2, <2>3 DEF Send
<1>5. LogOK'
  <2>1. packet["net"] \in Packet
    BY DEF Types, PacketOK, Thread
  <2>2. /\ log.refused \in SUBSET Packet /\ log.refused \cup {packet["net"]} \in SUBSET Packet
        /\ log.failed \cup {packet["net"]} \in SUBSET Packet
    BY <2>1 DEF Types, LogOK
  <2>3. \E refused \in SUBSET Packet :
          \/ log' = [log EXCEPT !.refused = refused]
          \/ log' = [log EXCEPT !.refused = refused, !.failed = @ \cup {packet["net"]}]
    BY <2>2 DEF Send
  <2> QED
    BY <2>2, <2>3 DEF Types, LogOK
<1>6. Counted'
  <2>1. stream \in Conn /\ stream # 0
    BY DEF Send, Types, Counted, Conn
  <2>2. \A c \in Conn : link'[c].client = link[c].client
    BY <2>1 DEF Send, Types, LinkOK, Link
  <2> QED
    BY <1>1, <2>1, <2>2 DEF Types, Counted
<1>7. Labels'
  BY <1>1, ZenonT(60) DEF Send, Goto, Return, Home, Types, Labels, NetLabel, Teardown, Thread, WinLabel
<1> QED
  BY <1>1, <1>2, <1>3, <1>4, <1>5, <1>6, <1>7 DEF Types

LEMMA ReadTypes ==
  ASSUME Types, Read
  PROVE  Types'
<1>1. UNCHANGED <<flags, queue, stream, player, packet, writer, log, broken>>
  BY DEF Read
<1>2. FlagsOK' /\ QueueOK' /\ PlayerOK' /\ PacketOK' /\ LogOK'
  BY <1>1 DEF Types, FlagsOK, QueueOK, PlayerOK, PacketOK, LogOK
<1>3. BuffersOK'
  <2>1. stream \in Conn
    BY DEF Read, Types, Counted, Conn
  <2>2. link[stream].inbox \in Seq(S2C)
    BY <2>1 DEF Types, LinkOK, Link
  <2> QED
    BY <1>1, <2>2 DEF Read, Types, BuffersOK
<1>4. LinkOK'
  <2>1. CASE UNCHANGED link
    BY <2>1 DEF Types, LinkOK
  <2>2. CASE link' = [link EXCEPT ![stream].inbox = <<>>]
    <3>1. stream \in Conn
      BY DEF Read, Types, Counted, Conn
    <3>2. link' \in [Conn -> Link]
      BY <2>2, <3>1, ClientUpdates DEF Types
    <3>3. \A c \in Conn : link'[c].client = link[c].client /\ link'[c].wire = link[c].wire
      <4> TAKE c \in Conn
      <4>1. CASE c = stream
        BY <2>2, <3>1, <4>1 DEF Types, LinkOK, Link
      <4>2. CASE c # stream
        BY <2>2, <3>1, <4>2 DEF Types, LinkOK, Link
      <4> QED
        BY <4>1, <4>2
    <3> QED
      BY <3>2, <3>3 DEF Types, LinkOK
  <2> QED
    BY <2>1, <2>2 DEF Read
<1>5. Counted'
  <2>1. stream \in Conn
    BY DEF Read, Types, Counted, Conn
  <2>2. \A c \in Conn : link'[c].client = link[c].client
    BY <2>1 DEF Read, Types, LinkOK, Link
  <2> QED
    BY <1>1, <2>2 DEF Read, Goto, Call, Types, Counted, Labels, Thread
<1>6. Labels'
  BY <1>1, ZenonT(60) DEF Read, Goto, Call, Types, Labels, NetLabel, Teardown, Thread, WinLabel
<1> QED
  BY <1>1, <1>2, <1>3, <1>4, <1>5, <1>6 DEF Types

LEMMA DispatchTypes ==
  ASSUME Types, Dispatch
  PROVE  Types'
<1>1. UNCHANGED <<queue, stream, writer, link, broken>>
  BY DEF Dispatch
<1>2. QueueOK' /\ LinkOK'
  BY <1>1 DEF Types, QueueOK, LinkOK
<1>3. FlagsOK'
  BY <1>1 DEF Dispatch, Goto, Call, For, S2C, Types, FlagsOK
<1>4. PlayerOK'
  BY <1>1 DEF Dispatch, Goto, Call, For, S2C, Types, PlayerOK
<1>5. PacketOK'
  BY <1>1, Packets DEF Dispatch, Types, Counted, PacketOK, Thread
<1>6. BuffersOK'
  BY <1>1 DEF Dispatch, Goto, Call, For, S2C, Types, BuffersOK
<1>7. LogOK'
  BY <1>1 DEF Dispatch, Goto, Call, For, S2C, Types, LogOK
<1>8. Counted'
  BY <1>1 DEF Dispatch, Goto, Call, For, S2C, Types, Conn, Counted, NetLabel
<1>9. Labels'
  BY <1>1, ZenonT(60) DEF Dispatch, Goto, Call, For, S2C, Types, Labels, NetLabel, Teardown, Thread, WinLabel
<1> QED
  BY <1>1, <1>2, <1>3, <1>4, <1>5, <1>6, <1>7, <1>8, <1>9 DEF Types

LEMMA DispatchedTypes ==
  ASSUME Types, Dispatched
  PROVE  Types'
<1>1. UNCHANGED <<flags, queue, stream, player, return, packet, writer, batch, link, log, broken>>
  BY DEF Dispatched
<1>2. FlagsOK' /\ QueueOK' /\ PlayerOK' /\ PacketOK' /\ BuffersOK' /\ LinkOK' /\ LogOK'
  BY <1>1 DEF Types, FlagsOK, QueueOK, PlayerOK, PacketOK, BuffersOK, LinkOK, LogOK
<1>3. Counted'
  BY <1>1 DEF Dispatched, Goto, Types, Conn, Counted, NetLabel
<1>4. Labels'
  BY <1>1 DEF Dispatched, Goto, Types, Labels, NetLabel, Teardown, Thread, WinLabel
<1> QED
  BY <1>1, <1>2, <1>3, <1>4 DEF Types

LEMMA OnErrorTypes ==
  ASSUME Types, OnError
  PROVE  Types'
<1>1. UNCHANGED <<flags, queue, stream, player, packet, writer, batch, link, log, broken>>
  BY DEF OnError
<1>2. FlagsOK' /\ QueueOK' /\ PlayerOK' /\ PacketOK' /\ BuffersOK' /\ LinkOK' /\ LogOK'
  BY <1>1 DEF Types, FlagsOK, QueueOK, PlayerOK, PacketOK, BuffersOK, LinkOK, LogOK
<1>3. Counted'
  BY <1>1 DEF OnError, Goto, Return, Home, Types, Conn, Counted, NetLabel
<1>4. Labels'
  BY <1>1, ZenonT(60) DEF OnError, Goto, Return, Home, Types, Labels, NetLabel, Teardown, Thread, WinLabel
<1> QED
  BY <1>1, <1>2, <1>3, <1>4 DEF Types

LEMMA PushTypes ==
  ASSUME NEW t \in Thread, Types, Push(t)
  PROVE  Types'
<1>1. UNCHANGED <<flags, stream, player, packet, writer, batch, link, log>>
  BY DEF Push
<1>2. FlagsOK' /\ PlayerOK' /\ PacketOK' /\ BuffersOK' /\ LinkOK' /\ LogOK'
  BY <1>1 DEF Types, FlagsOK, PlayerOK, PacketOK, BuffersOK, LinkOK, LogOK
<1>3. QueueOK'
  <2>1. packet[t] \in Packet
    BY DEF Types, PacketOK
  <2> QED
    BY <2>1 DEF Push, Types, QueueOK
<1>4. Counted'
  BY <1>1 DEF Push, Goto, Return, Home, Types, Conn, Counted, FlagsOK, Labels, Link, LinkOK, NetLabel, QueueOK, Teardown, Thread, WinLabel
<1>5. Labels'
  <2>1. CASE UNCHANGED <<pc, return>>
    BY <2>1 DEF Types, Labels
  <2>2. CASE t = "net" /\ Return(t)
    BY <1>1, <2>2 DEF Push, Return, Goto, Home, Types, Labels, NetLabel, Teardown, Thread
  <2>3. CASE t = "win" /\ Return(t)
    BY <1>1, <2>3 DEF Push, Return, Goto, Home, Types, Labels, WinLabel, Teardown, Thread
  <2> QED
    BY <2>1, <2>2, <2>3 DEF Push, Thread
<1> QED
  BY <1>1, <1>2, <1>3, <1>4, <1>5 DEF Types

LEMMA DisconnectCheckTypes ==
  ASSUME NEW t \in Thread, Types, DisconnectCheck(t)
  PROVE  Types'
<1>1. UNCHANGED <<flags, queue, stream, player, return, packet, writer, batch, link, log, broken>>
  BY DEF DisconnectCheck
<1>2. FlagsOK' /\ QueueOK' /\ PlayerOK' /\ PacketOK' /\ BuffersOK' /\ LinkOK' /\ LogOK'
  BY <1>1 DEF Types, FlagsOK, QueueOK, PlayerOK, PacketOK, BuffersOK, LinkOK, LogOK
<1>3. Counted'
  BY <1>1 DEF DisconnectCheck, Goto, Types, Conn, Counted, NetLabel
<1>4. Labels'
  BY <1>1 DEF DisconnectCheck, Goto, Types, Labels, NetLabel, Teardown, Thread, WinLabel
<1> QED
  BY <1>1, <1>2, <1>3, <1>4 DEF Types

LEMMA DeinitTypes ==
  ASSUME NEW t \in Thread, Types, Deinit(t)
  PROVE  Types'
<1>1. UNCHANGED <<flags, stream, player, return, packet, writer, batch, log>>
  BY DEF Deinit
<1>2. FlagsOK' /\ PlayerOK' /\ PacketOK' /\ BuffersOK' /\ LogOK'
  BY <1>1 DEF Types, FlagsOK, PlayerOK, PacketOK, BuffersOK, LogOK
<1>3. QueueOK'
  <2>1. <<>> \in Seq(Packet)
    OBVIOUS
  <2>2. CASE UNCHANGED queue
    BY <2>2 DEF Types, QueueOK
  <2>3. CASE queue' = [state |-> "freed", items |-> <<>>]
    BY <2>1, <2>3 DEF QueueOK
  <2> QED
    BY <2>2, <2>3 DEF Deinit
<1>4. LinkOK'
  <2>1. CASE UNCHANGED link
    BY <2>1 DEF Types, LinkOK
  <2>2. CASE queue.state = "live" /\ link' = [link EXCEPT ![stream].client = "closed", ![stream].inbox = <<>>]
    <3>1. stream \in Conn
      BY <2>2 DEF Types, Counted, Conn
    <3>2. link' \in [Conn -> Link]
      BY <2>2, <3>1, ClientUpdates DEF Types
    <3>3. \A c \in Conn : link'[c].client = "unused" => link[c].client = "unused" /\ c # stream
      BY <2>2, <3>1 DEF Types, LinkOK, Link
    <3>4. \A c \in Conn \ {stream} : link'[c] = link[c]
      BY <2>2 DEF Types, LinkOK
    <3> QED
      BY <3>2, <3>3, <3>4 DEF Types, LinkOK
  <2> QED
    BY <2>1, <2>2 DEF Deinit
<1>5. Counted'
  <2>1. CASE UNCHANGED <<queue, link, pc>>
    BY <1>1, <2>1 DEF Types, Counted
  <2>2. CASE /\ queue.state = "live" /\ queue' = [state |-> "freed", items |-> <<>>]
             /\ link' = [link EXCEPT ![stream].client = "closed", ![stream].inbox = <<>>]
    <3>1. stream \in Conn /\ stream # 0
      BY <2>2 DEF Types, Counted, Conn
    <3>2. \A c \in Conn : link'[c].client # "unused" <=> link[c].client # "unused"
      BY <2>2, <3>1 DEF Types, Counted, LinkOK, Link
    <3> QED
      BY <1>1, <2>2, <3>1, <3>2 DEF Types, Counted
  <2> QED
    BY <2>1, <2>2 DEF Deinit
<1>6. Labels'
  BY <1>1 DEF Deinit, Goto, Types, Labels, NetLabel, Teardown, Thread, WinLabel
<1> QED
  BY <1>1, <1>2, <1>3, <1>4, <1>5, <1>6 DEF Types

LEMMA UnsetConnectedTypes ==
  ASSUME NEW t \in Thread, Types, Unset(t, "connected", "unset connected", "unset selected_server")
  PROVE  Types'
<1>1. UNCHANGED <<queue, stream, player, return, packet, writer, batch, link, log, broken>>
  BY DEF Unset
<1>2. QueueOK' /\ PlayerOK' /\ PacketOK' /\ BuffersOK' /\ LinkOK' /\ LogOK'
  BY <1>1 DEF Types, QueueOK, PlayerOK, PacketOK, BuffersOK, LinkOK, LogOK
<1>3. FlagsOK'
  BY <1>1 DEF Unset, Goto, Types, FlagsOK
<1>4. Counted'
  BY <1>1 DEF Unset, Goto, Types, Conn, Counted, FlagsOK, Labels, Link, LinkOK, NetLabel, QueueOK, Teardown, Thread, WinLabel
<1>5. Labels'
  BY <1>1 DEF Unset, Goto, Types, Labels, NetLabel, Teardown, Thread, WinLabel
<1> QED
  BY <1>1, <1>2, <1>3, <1>4, <1>5 DEF Types

LEMMA UnsetServerTypes ==
  ASSUME NEW t \in Thread, Types, Unset(t, "selected_server", "unset selected_server", "unset sent_hello")
  PROVE  Types'
<1>1. UNCHANGED <<queue, stream, player, return, packet, writer, batch, link, log, broken>>
  BY DEF Unset
<1>2. QueueOK' /\ PlayerOK' /\ PacketOK' /\ BuffersOK' /\ LinkOK' /\ LogOK'
  BY <1>1 DEF Types, QueueOK, PlayerOK, PacketOK, BuffersOK, LinkOK, LogOK
<1>3. FlagsOK'
  BY <1>1 DEF Unset, Goto, Types, FlagsOK
<1>4. Counted'
  BY <1>1 DEF Unset, Goto, Types, Conn, Counted, FlagsOK, Labels, Link, LinkOK, NetLabel, QueueOK, Teardown, Thread, WinLabel
<1>5. Labels'
  BY <1>1 DEF Unset, Goto, Types, Labels, NetLabel, Teardown, Thread, WinLabel
<1> QED
  BY <1>1, <1>2, <1>3, <1>4, <1>5 DEF Types

LEMMA UnsetHelloTypes ==
  ASSUME NEW t \in Thread, Types, Unset(t, "sent_hello", "unset sent_hello", "clear")
  PROVE  Types'
<1>1. UNCHANGED <<queue, stream, player, return, packet, writer, batch, link, log, broken>>
  BY DEF Unset
<1>2. QueueOK' /\ PlayerOK' /\ PacketOK' /\ BuffersOK' /\ LinkOK' /\ LogOK'
  BY <1>1 DEF Types, QueueOK, PlayerOK, PacketOK, BuffersOK, LinkOK, LogOK
<1>3. FlagsOK'
  BY <1>1 DEF Unset, Goto, Types, FlagsOK
<1>4. Counted'
  BY <1>1 DEF Unset, Goto, Types, Conn, Counted, FlagsOK, Labels, Link, LinkOK, NetLabel, QueueOK, Teardown, Thread, WinLabel
<1>5. Labels'
  BY <1>1 DEF Unset, Goto, Types, Labels, NetLabel, Teardown, Thread, WinLabel
<1> QED
  BY <1>1, <1>2, <1>3, <1>4, <1>5 DEF Types

LEMMA ClearTypes ==
  ASSUME NEW t \in Thread, Types, Clear(t)
  PROVE  Types'
<1>1. UNCHANGED <<flags, queue, stream, packet, writer, batch, link, log, broken>>
  BY DEF Clear
<1>2. FlagsOK' /\ QueueOK' /\ PacketOK' /\ BuffersOK' /\ LinkOK' /\ LogOK'
  BY <1>1 DEF Types, FlagsOK, QueueOK, PacketOK, BuffersOK, LinkOK, LogOK
<1>3. PlayerOK'
  BY DEF Clear, PlayerOK
<1>4. Counted'
  BY <1>1 DEF Clear, Goto, Return, Home, Types, Conn, Counted, NetLabel
<1>5. Labels'
  BY <1>1 DEF Clear, Goto, Return, Home, Types, Labels, NetLabel, Teardown, Thread, WinLabel
<1> QED
  BY <1>1, <1>2, <1>3, <1>4, <1>5 DEF Types

LEMMA SelectCharacterTypes ==
  ASSUME Types, SelectCharacter
  PROVE  Types'
<1>1. UNCHANGED <<queue, stream, pc, return, packet, writer, batch, link, log, broken>>
  BY DEF SelectCharacter
<1>2. QueueOK' /\ PacketOK' /\ BuffersOK' /\ LinkOK' /\ LogOK' /\ Labels'
  BY <1>1 DEF Types, QueueOK, PacketOK, BuffersOK, LinkOK, LogOK, Labels
<1>3. FlagsOK'
  BY <1>1 DEF SelectCharacter, Types, FlagsOK
<1>4. PlayerOK'
  BY <1>1 DEF SelectCharacter, Types, PlayerOK
<1>5. Counted'
  BY <1>1 DEF SelectCharacter, Types, Conn, Counted, NetLabel
<1> QED
  BY <1>1, <1>2, <1>3, <1>4, <1>5 DEF Types

LEMMA ActTypes ==
  ASSUME Types, Act
  PROVE  Types'
<1>1. UNCHANGED <<flags, queue, stream, player, writer, batch, link, broken>>
  BY DEF Act
<1>2. FlagsOK' /\ QueueOK' /\ PlayerOK' /\ LinkOK'
  BY <1>1 DEF Types, FlagsOK, QueueOK, PlayerOK, LinkOK
<1>3. PacketOK'
  BY <1>1, Packets DEF Act, Types, Counted, PacketOK, Thread
<1>4. BuffersOK'
  BY <1>1 DEF Act, Goto, Call, Played, For, Types, BuffersOK
<1>5. LogOK'
  BY PlayedLog DEF Act, Types
<1>6. Counted'
  BY <1>1 DEF Act, Goto, Call, Played, For, Types, Conn, Counted, NetLabel
<1>7. Labels'
  BY <1>1 DEF Act, Goto, Call, Played, For, Types, Labels, NetLabel, Teardown, Thread, WinLabel
<1> QED
  BY <1>1, <1>2, <1>3, <1>4, <1>5, <1>6, <1>7 DEF Types

LEMMA EscapeTypes ==
  ASSUME Types, Escape
  PROVE  Types'
<1>1. UNCHANGED <<flags, queue, stream, player, return, packet, writer, batch, link, broken>>
  BY DEF Escape
<1>2. FlagsOK' /\ QueueOK' /\ PlayerOK' /\ PacketOK' /\ LinkOK'
  BY <1>1 DEF Types, FlagsOK, QueueOK, PlayerOK, PacketOK, LinkOK
<1>3. BuffersOK'
  BY <1>1 DEF Escape, Goto, Played, Types, BuffersOK
<1>4. LogOK'
  BY PlayedLog DEF Escape, Types
<1>5. Counted'
  BY <1>1 DEF Escape, Goto, Played, Types, Conn, Counted, NetLabel
<1>6. Labels'
  BY <1>1 DEF Escape, Goto, Played, Types, Labels, NetLabel, Teardown, Thread, WinLabel
<1> QED
  BY <1>1, <1>2, <1>3, <1>4, <1>5, <1>6 DEF Types

LEMMA EscapeDrainTypes ==
  ASSUME Types, EscapeDrain
  PROVE  Types'
<1>1. UNCHANGED <<flags, stream, player, return, packet, writer, batch, link, log>>
  BY DEF EscapeDrain
<1>2. FlagsOK' /\ PlayerOK' /\ PacketOK' /\ BuffersOK' /\ LinkOK' /\ LogOK'
  BY <1>1 DEF Types, FlagsOK, PlayerOK, PacketOK, BuffersOK, LinkOK, LogOK
<1>3. QueueOK'
  <2>1. <<>> \in Seq(Packet)
    OBVIOUS
  <2>2. UNCHANGED queue \/ queue' = [queue EXCEPT !.items = <<>>]
    BY DEF EscapeDrain
  <2> QED
    BY <2>1, <2>2 DEF Types, QueueOK
<1>4. Counted'
  BY <1>1 DEF EscapeDrain, Goto, Types, Conn, Counted, FlagsOK, Labels, Link, LinkOK, NetLabel, QueueOK, Teardown, Thread, WinLabel
<1>5. Labels'
  BY <1>1 DEF EscapeDrain, Goto, Types, Labels, NetLabel, Teardown, Thread, WinLabel
<1> QED
  BY <1>1, <1>2, <1>3, <1>4, <1>5 DEF Types

LEMMA EscapeClearTypes ==
  ASSUME Types, EscapeClear
  PROVE  Types'
<1>1. UNCHANGED <<queue, stream, writer, batch, link, log, broken>>
  BY DEF EscapeClear
<1>2. QueueOK' /\ BuffersOK' /\ LinkOK' /\ LogOK'
  BY <1>1 DEF Types, QueueOK, BuffersOK, LinkOK, LogOK
<1>3. FlagsOK'
  BY <1>1 DEF EscapeClear, Goto, Call, For, Types, FlagsOK
<1>4. PlayerOK'
  BY <1>1 DEF EscapeClear, Goto, Call, For, Types, Conn, Counted, NetLabel, PlayerOK
<1>5. PacketOK'
  BY <1>1, Packets DEF EscapeClear, Types, Counted, PacketOK, Thread
<1>6. Counted'
  BY <1>1 DEF EscapeClear, Goto, Call, For, Types, Conn, Counted, FlagsOK, Labels, Link, LinkOK, NetLabel, QueueOK, Teardown, Thread, WinLabel
<1>7. Labels'
  BY <1>1 DEF EscapeClear, Goto, Call, For, Types, Labels, NetLabel, Teardown, Thread, WinLabel
<1> QED
  BY <1>1, <1>2, <1>3, <1>4, <1>5, <1>6, <1>7 DEF Types

LEMMA DisconnectButtonTypes ==
  ASSUME Types, DisconnectButton
  PROVE  Types'
<1>1. UNCHANGED <<flags, queue, stream, player, packet, writer, batch, link, broken>>
  BY DEF DisconnectButton
<1>2. FlagsOK' /\ QueueOK' /\ PlayerOK' /\ PacketOK' /\ LinkOK'
  BY <1>1 DEF Types, FlagsOK, QueueOK, PlayerOK, PacketOK, LinkOK
<1>3. BuffersOK'
  BY <1>1 DEF DisconnectButton, Goto, Call, Played, Types, BuffersOK
<1>4. LogOK'
  BY PlayedLog DEF DisconnectButton, Types
<1>5. Counted'
  BY <1>1 DEF DisconnectButton, Goto, Call, Played, Types, Conn, Counted, NetLabel
<1>6. Labels'
  BY <1>1 DEF DisconnectButton, Goto, Call, Played, Types, Labels, NetLabel, Teardown, Thread, WinLabel
<1> QED
  BY <1>1, <1>2, <1>3, <1>4, <1>5, <1>6 DEF Types

LEMMA ServerSendsTypes ==
  ASSUME NEW c \in Conn, NEW kind \in S2C, Types, ServerSends(c, kind)
  PROVE  Types'
<1>1. UNCHANGED <<flags, queue, stream, player, pc, return, packet, writer, batch, log, broken>>
  BY DEF ServerSends
<1>2. FlagsOK' /\ QueueOK' /\ PlayerOK' /\ PacketOK' /\ BuffersOK' /\ LogOK' /\ Labels'
  BY <1>1 DEF Types, FlagsOK, QueueOK, PlayerOK, PacketOK, BuffersOK, LogOK, Labels
<1>3. LinkOK'
  BY <1>1, SMTT(30) DEF ServerSends, S2C, Types, Conn, Counted, Link, LinkOK, NetLabel
<1>4. Counted'
  BY <1>1, ZenonT(60) DEF ServerSends, S2C, Types, Conn, Counted, FlagsOK, Labels, Link, LinkOK, NetLabel, QueueOK, Teardown, Thread, WinLabel
<1> QED
  BY <1>1, <1>2, <1>3, <1>4 DEF Types

LEMMA ServerClosesTypes ==
  ASSUME NEW c \in Conn, Types, ServerCloses(c)
  PROVE  Types'
<1>1. UNCHANGED <<flags, queue, stream, player, pc, return, packet, writer, batch, log, broken>>
  BY DEF ServerCloses
<1>2. FlagsOK' /\ QueueOK' /\ PlayerOK' /\ PacketOK' /\ BuffersOK' /\ LogOK' /\ Labels'
  BY <1>1 DEF Types, FlagsOK, QueueOK, PlayerOK, PacketOK, BuffersOK, LogOK, Labels
<1>3. LinkOK'
  BY <1>1 DEF ServerCloses, Types, Conn, Counted, Link, LinkOK, NetLabel
<1>4. Counted'
  BY <1>1 DEF ServerCloses, Types, Conn, Counted, FlagsOK, Labels, Link, LinkOK, NetLabel, QueueOK, Teardown, Thread, WinLabel
<1> QED
  BY <1>1, <1>2, <1>3, <1>4 DEF Types

-----------------------------------------------------------------------------
(* What the actions do to the links, and sendPacket to what the server
   receives. *)

\* init: nothing changed, or the next connection is up.
LEMMA ConnectEffect ==
  ASSUME Types, Connect
  PROVE  /\ pc["net"] = "init" /\ pc'["win"] = pc["win"]
         /\ \/ pc'["net"] = "tick" /\ UNCHANGED <<stream, link, queue, flags>>
            \/ /\ pc'["net"] = "hello" /\ stream' = stream + 1 /\ stream \in Nat /\ stream' \in Conn
               /\ link'[stream'].client = "open" /\ link'[stream'].wire = <<>>
               /\ \A d \in Conn : link'[d].wire = link[d].wire
               /\ \A d \in Conn \ {stream'} : link'[d].client = link[d].client
               /\ queue'.state = "live" /\ queue'.items = <<>> /\ Len(queue'.items) = 0
               /\ flags'.connected /\ flags'.sent_hello = flags.sent_hello
               /\ flags'.selected_server = flags.selected_server
<1>1. pc["net"] = "init" /\ pc'["win"] = pc["win"]
  BY DEF Connect, Goto, Types, Labels, Thread
<1>2. CASE Goto("net", "tick") /\ UNCHANGED <<stream, link, queue, flags>>
  <2>1. pc'["net"] = "tick"
    BY <1>2 DEF Goto, Types, Labels, Thread
  <2> QED
    BY <1>1, <1>2, <2>1
<1>3. ASSUME NEW c \in Conn \ Opened, Opened = 1 .. c - 1, stream' = c,
             link' = [link EXCEPT ![c].client = "open"],
             queue' = [state |-> "live", items |-> <<>>],
             flags' = [flags EXCEPT !.connected = TRUE], Goto("net", "hello")
      PROVE  /\ pc'["net"] = "hello" /\ stream' = stream + 1 /\ stream \in Nat /\ stream' \in Conn
             /\ link'[stream'].client = "open" /\ link'[stream'].wire = <<>>
             /\ \A d \in Conn : link'[d].wire = link[d].wire
             /\ \A d \in Conn \ {stream'} : link'[d].client = link[d].client
             /\ queue'.state = "live" /\ queue'.items = <<>> /\ Len(queue'.items) = 0
             /\ flags'.connected /\ flags'.sent_hello = flags.sent_hello
             /\ flags'.selected_server = flags.selected_server
  <2>1. pc'["net"] = "hello"
    BY <1>3 DEF Goto, Types, Labels, Thread
  <2>2. c = stream + 1 /\ stream \in Nat
    BY <1>3, NextConnection
  <2>3. link[c].wire = <<>> /\ c \in Conn
    BY <1>3 DEF Types, LinkOK, Opened
  <2>4. /\ link'[c].client = "open" /\ link'[c].wire = link[c].wire
        /\ \A d \in Conn \ {c} : link'[d] = link[d]
    BY <1>3, <2>3 DEF Types, LinkOK, Link
  <2>5. queue'.state = "live" /\ queue'.items = <<>> /\ Len(queue'.items) = 0
    BY <1>3
  <2>6. /\ flags'.connected /\ flags'.sent_hello = flags.sent_hello
        /\ flags'.selected_server = flags.selected_server
    BY <1>3 DEF Types, FlagsOK
  <2> QED
    BY <1>3, <2>1, <2>2, <2>3, <2>4, <2>5, <2>6
<1> QED
  BY <1>1, <1>2, <1>3 DEF Connect

\* A read takes from the inbox only.
LEMMA ReadLink ==
  ASSUME Types, Read
  PROVE  /\ stream \in Conn
         /\ \A d \in Conn : /\ link'[d].wire = link[d].wire /\ link'[d].client = link[d].client
                            /\ link'[d].server => link[d].server
<1>1. stream \in Conn
  BY DEF Read, Types, Counted, Conn
<1>2. link' = link \/ link' = [link EXCEPT ![stream].inbox = <<>>]
  BY DEF Read
<1>3. SUFFICES ASSUME NEW d \in Conn
               PROVE  /\ link'[d].wire = link[d].wire /\ link'[d].client = link[d].client
                      /\ link'[d].server => link[d].server
  BY <1>1
<1>4. CASE d = stream
  BY <1>1, <1>2, <1>4 DEF Types, LinkOK, Link
<1>5. CASE d # stream
  BY <1>1, <1>2, <1>5 DEF Types, LinkOK, Link
<1> QED
  BY <1>4, <1>5

\* The server adds to the inbox.
LEMMA ServerSendsLink ==
  ASSUME NEW c \in Conn, NEW kind \in S2C, Types, ServerSends(c, kind)
  PROVE  \A d \in Conn : /\ link'[d].wire = link[d].wire /\ link'[d].client = link[d].client
                         /\ link'[d].server => link[d].server
<1> TAKE d \in Conn
<1>1. CASE c = d
  BY <1>1 DEF ServerSends, Types, LinkOK, Link
<1>2. CASE c # d
  BY <1>2 DEF ServerSends, Types, LinkOK, Link
<1> QED
  BY <1>1, <1>2

\* The server closes its side.
LEMMA ServerClosesLink ==
  ASSUME NEW c \in Conn, Types, ServerCloses(c)
  PROVE  \A d \in Conn : /\ link'[d].wire = link[d].wire /\ link'[d].client = link[d].client
                         /\ link'[d].server => link[d].server
<1> TAKE d \in Conn
<1>1. CASE c = d
  BY <1>1 DEF ServerCloses, Types, LinkOK, Link
<1>2. CASE c # d
  BY <1>2 DEF ServerCloses, Types, LinkOK, Link
<1> QED
  BY <1>1, <1>2

\* deinit closes the socket of the last connection.
LEMMA DeinitLink ==
  ASSUME NEW t \in Thread, Types, Deinit(t), queue.state = "live"
  PROVE  /\ stream \in Conn /\ \A d \in Conn : link'[d].wire = link[d].wire /\ link'[d].server = link[d].server
         /\ link'[stream].client = "closed"
         /\ \A d \in Conn \ {stream} : link'[d].client = link[d].client
<1>1. stream \in Conn
  BY DEF Types, Counted, Conn
<1>2. link' = [link EXCEPT ![stream].client = "closed", ![stream].inbox = <<>>]
  BY DEF Deinit
<1>3. /\ link'[stream].client = "closed" /\ link'[stream].wire = link[stream].wire
      /\ link'[stream].server = link[stream].server
      /\ \A d \in Conn \ {stream} : link'[d] = link[d]
  BY <1>1, <1>2 DEF Types, LinkOK, Link
<1> QED
  BY <1>1, <1>3

LEMMA SendWire ==
  ASSUME Types, Send
  PROVE  \/ link'[stream].wire = link[stream].wire
         \/ /\ link[stream].client = "open" /\ link[stream].server
            /\ Len(link[stream].wire) \in Nat /\ Len(writer) \in Nat
            /\ Len(link'[stream].wire) = Len(link[stream].wire) + Len(writer) + 1
            /\ \A i \in 1..Len(link[stream].wire) : link'[stream].wire[i] = link[stream].wire[i]
            /\ \A i \in Len(link[stream].wire) + 1 .. Len(link[stream].wire) + Len(writer) :
                 /\ i - Len(link[stream].wire) \in 1..Len(writer)
                 /\ link'[stream].wire[i] = writer[i - Len(link[stream].wire)]
            /\ link'[stream].wire[Len(link'[stream].wire)] = packet["net"]
<1> DEFINE w == link[stream].wire
           s == w \o Append(writer, packet["net"])
<1>1. w \in Seq(Packet) /\ writer \in Seq(Packet) /\ packet["net"] \in Packet
  BY SendEffect DEF Types, BuffersOK, LinkOK, Link
<1>2. /\ Len(s) = Len(w) + Len(writer) + 1 /\ Len(w) \in Nat /\ Len(writer) \in Nat
      /\ \A i \in 1..Len(w) : s[i] = w[i]
      /\ \A i \in Len(w) + 1 .. Len(w) + Len(writer) :
           i - Len(w) \in 1..Len(writer) /\ s[i] = writer[i - Len(w)]
      /\ s[Len(s)] = packet["net"]
  <2> HIDE DEF w
  <2> QED
    BY <1>1, Sent
<1>3. \/ link'[stream].wire = link[stream].wire
      \/ link[stream].client = "open" /\ link[stream].server /\ link'[stream].wire = s
  BY SendEffect
<1> HIDE DEF s
<1> QED
  BY <1>2, <1>3

LEMMA SendSends ==
  ASSUME Types, Send, link[stream].server, pc'["net"] # "onError"
  PROVE  link'[stream].wire # link[stream].wire
<1> DEFINE w == link[stream].wire
           s == w \o Append(writer, packet["net"])
<1>1. w \in Seq(Packet) /\ writer \in Seq(Packet) /\ packet["net"] \in Packet
  BY SendEffect DEF Types, BuffersOK, LinkOK, Link
<1>2. Len(s) = Len(w) + Len(writer) + 1 /\ Len(w) \in Nat /\ Len(writer) \in Nat
  <2> HIDE DEF w
  <2> QED
    BY <1>1, Sent
<1>3. link'[stream].wire = s
  BY SendEffect
<1> HIDE DEF s
<1>4. Len(s) # Len(w)
  BY <1>2
<1> QED
  BY <1>3, <1>4

LEMMA SendBuffer ==
  ASSUME Types, Send
  PROVE  \/ writer' = <<>> /\ Len(writer') = 0
         \/ /\ pc'["net"] = "onError" /\ UNCHANGED return /\ packet["net"] \in log'.failed
            /\ Len(writer) \in Nat /\ Len(writer') = Len(writer) + 1
            /\ \A i \in 1..Len(writer) : writer'[i] = writer[i]
            /\ writer'[Len(writer')] = packet["net"]
<1> DEFINE a == Append(writer, packet["net"])
<1>1. writer \in Seq(Packet) /\ packet["net"] \in Packet
  BY SendEffect DEF Types, BuffersOK
<1>2. /\ Len(a) = Len(writer) + 1 /\ Len(writer) \in Nat
      /\ \A i \in 1..Len(writer) : a[i] = writer[i]
      /\ a[Len(writer) + 1] = packet["net"]
  BY <1>1, AppendProperties
<1>3. \/ writer' = <<>>
      \/ writer' = a /\ pc'["net"] = "onError" /\ UNCHANGED return /\ packet["net"] \in log'.failed
  BY SendEffect
<1> HIDE DEF a
<1> QED
  BY <1>2, <1>3

LEMMA SendWires ==
  ASSUME Types, Sound, Send
  PROVE  /\ ~HelloInWriter /\ HelloOnWire' => HelloOnWire \/ IsHello(packet["net"])
         /\ StreamGreeted => StreamGreeted'
         /\ packet["net"] = HelloOf(stream) /\ link[stream].server /\ link'[stream].wire # link[stream].wire => StreamGreeted'
<1>1. UNCHANGED stream
  BY DEF Send
<1>2. ASSUME ~HelloInWriter, HelloOnWire' PROVE HelloOnWire \/ IsHello(packet["net"])
  <2>1. PICK i \in 1..Len(link'[stream].wire) : IsHello(link'[stream].wire[i])
    BY <1>1, <1>2 DEF HelloOnWire, IsHello
  <2>2. \A j \in 1..Len(writer) : ~IsHello(writer[j])
    BY <1>2 DEF HelloInWriter
  <2>3. CASE link'[stream].wire = link[stream].wire
    BY <2>1, <2>3 DEF HelloOnWire
  <2>4. CASE link'[stream].wire # link[stream].wire
    <3> DEFINE n == Len(link[stream].wire)
    <3>1. \/ i \in 1..n
          \/ i \in n + 1 .. n + Len(writer)
          \/ i = Len(link'[stream].wire)
      BY <2>1, <2>4, SendWire
    <3> QED
      BY <2>1, <2>2, <2>4, <3>1, SendWire DEF HelloOnWire
  <2> QED
    BY <2>3, <2>4
<1>3. StreamGreeted => StreamGreeted'
  BY <1>1, SendWire, SMTT(30) DEF StreamGreeted, Greeted, Received, HelloOf
<1>4. packet["net"] = HelloOf(stream) /\ link[stream].server /\ link'[stream].wire # link[stream].wire => StreamGreeted'
  BY <1>1, SendWire DEF StreamGreeted, Greeted, Received, HelloOf
<1> QED
  BY <1>2, <1>3, <1>4

-----------------------------------------------------------------------------
(* Until the program breaks, every action keeps what is Sound: the sockets,
   and then, part by part, what holds of a network thread that alone
   disconnects. *)

LEMMA TickKeeps ==
  ASSUME Types, Types', Sound, Tick
  PROVE  Sound'
<1>1. UNCHANGED <<flags, queue, stream, player, return, packet, writer, batch, link, log, broken>>
  BY DEF Tick
<1>2. /\ pc["net"] = "tick" /\ flags.selected_server /\ pc'["win"] = pc["win"]
      /\ pc'["net"] = IF flags.connected THEN "hello" ELSE "init"
  BY DEF Tick, Goto, Types, Labels, Thread
<1>3. HelloInQueue' <=> HelloInQueue
  BY <1>1 DEF HelloInQueue, IsHello
<1>4. HelloOnWire' <=> HelloOnWire
  BY <1>1 DEF HelloOnWire, IsHello
<1>5. HelloInWriter' <=> HelloInWriter
  BY <1>1 DEF HelloInWriter, IsHello
<1>6. StreamGreeted' <=> StreamGreeted
  BY <1>1 DEF StreamGreeted, Greeted, Received, HelloOf
<1>7. Sockets
  BY DEF Sound
<1>8. Sockets'
  BY <1>1, <1>2, <1>7 DEF Sockets, Conn, Thread
<1>9. ASSUME NetOnly'
      PROVE  Queues' /\ Hellos'
  <2>1. Queues /\ Hellos
    BY <1>1, <1>2, <1>9 DEF Sound, NetOnly
  <2>2. HelloQueued' /\ QueuedNotReceived' /\ HelloReceived'
    BY <1>1, <2>1 DEF HelloQueued, IsHello, HelloOf, QueuedNotReceived, Up, HelloReceived, Received,
      Hellos, HelloInQueue, IsHello, HelloOnWire, IsHello
  <2>3. Queues'
    BY <1>1, <1>2, <1>7, <1>9, <2>1 DEF Queues, Teardown, Up, Sockets, Thread, Counted, Types, Conn
  <2>4. HelloPushed'
    BY <1>1, <1>2, <1>7, <1>9, <2>1 DEF HelloPushed, HelloOf, Queues, Thread, Hellos, Teardown, Up
  <2>5. NoneFromWin'
    BY <1>1, <1>2, <1>7, <1>9, <2>1 DEF NoneFromWin, IsHello, Queues, Teardown, Thread, Hellos, Up
  <2>6. HelloSent'
    BY <1>1, <1>2, <1>3, <1>4, <1>7, <1>9, <2>1 DEF HelloSent, IsHello, HelloOf, Queues, Thread,
      Hellos, Teardown, Up
  <2>7. NoneYet'
    BY <1>1, <1>2, <1>3, <1>4, <1>7, <1>9, <2>1 DEF NoneYet, Up, Queues, Thread, Hellos, Teardown
  <2>8. HelloKept'
    BY <1>1, <1>2, <1>5, <1>7, <1>9, <2>1 DEF HelloKept, Teardown, Queues, Thread, Hellos, Up
  <2> QED
    BY <2>2, <2>3, <2>4, <2>5, <2>6, <2>7, <2>8 DEF Hellos
<1>10. ASSUME NetOnly', ~log'.late
       PROVE  Players' /\ Leftovers'
  <2>1. Queues /\ Hellos /\ Players /\ Leftovers
    BY <1>1, <1>2, <1>10 DEF Sound, NetOnly
  <2>2. QueuedIsOwn'
    BY <1>1, <2>1 DEF QueuedIsOwn, Leftovers
  <2>3. Players'
    BY <1>1, <1>2, <1>7, <1>10, <2>1 DEF Players, Queues, Teardown, Up, Sockets, Thread, Conn
  <2>4. SentIsOwn'
    BY <1>1, <1>2, <1>7, <1>10, <2>1 DEF SentIsOwn, Thread, Leftovers
  <2>5. KeptIsOld'
    BY <1>1, <1>2, <1>7, <1>10, <2>1 DEF KeptIsOld, Up, Queues, Players, Teardown, Thread, Leftovers
  <2> QED
    BY <2>2, <2>3, <2>4, <2>5 DEF Leftovers
<1>11. ASSUME NetOnly', ~log'.late, "escape" \notin log'.did
       PROVE  Leads'
  <2>1. Queues /\ Hellos /\ Players /\ Leftovers /\ Leads
    BY <1>1, <1>2, <1>11 DEF Sound, NetOnly
  <2>2. SentHelloSet'
    BY <1>1, <1>2, <1>7, <1>11, <2>1 DEF SentHelloSet, Queues, Players, Teardown, Thread, Leads, Up
  <2>3. NothingBefore'
    BY <1>1, <1>2, <1>7, <1>11, <2>1 DEF NothingBefore, Queues, Teardown, Players, Thread, Leads, Up
  <2>4. HelloLeads'
    BY <1>1, <1>2, <1>6, <1>7, <1>11, <2>1 DEF HelloLeads, HelloOnTheWay, Up, HelloOf, SentHelloSet,
      Queues, Teardown, Players, Thread, Leads
  <2> QED
    BY <2>2, <2>3, <2>4 DEF Leads
<1> QED
  BY <1>8, <1>9, <1>10, <1>11 DEF Sound

LEMMA ConnectKeeps ==
  ASSUME Types, Types', Sound, Connect
  PROVE  Sound'
<1>1. UNCHANGED <<player, return, packet, writer, batch, log, broken>>
  BY DEF Connect
<1>2. /\ pc["net"] = "init" /\ pc'["win"] = pc["win"]
      /\ \/ pc'["net"] = "tick" /\ UNCHANGED <<stream, link, queue, flags>>
         \/ /\ pc'["net"] = "hello" /\ stream' = stream + 1 /\ stream \in Nat /\ stream' \in Conn
            /\ link'[stream'].client = "open" /\ link'[stream'].wire = <<>>
            /\ \A d \in Conn : link'[d].wire = link[d].wire
            /\ \A d \in Conn \ {stream'} : link'[d].client = link[d].client
            /\ queue'.state = "live" /\ queue'.items = <<>> /\ Len(queue'.items) = 0
            /\ flags'.connected /\ flags'.sent_hello = flags.sent_hello
            /\ flags'.selected_server = flags.selected_server
  BY ConnectEffect
<1>3. \/ pc'["net"] = "tick" /\ (HelloInQueue' <=> HelloInQueue)
      \/ pc'["net"] = "hello" /\ ~HelloInQueue'
  <2>1. UNCHANGED <<stream, link, queue, flags>> => (HelloInQueue' <=> HelloInQueue)
    BY DEF HelloInQueue, IsHello
  <2>2. CASE pc'["net"] = "hello" /\ Len(queue'.items) = 0
    BY <2>2 DEF HelloInQueue, IsHello
  <2> QED
    BY <1>2, <2>1, <2>2
<1>4. \/ pc'["net"] = "tick" /\ (HelloOnWire' <=> HelloOnWire)
      \/ pc'["net"] = "hello" /\ ~HelloOnWire'
  <2>1. UNCHANGED <<stream, link, queue, flags>> => (HelloOnWire' <=> HelloOnWire)
    BY DEF HelloOnWire, IsHello
  <2>2. CASE pc'["net"] = "hello" /\ link'[stream'].wire = <<>>
    BY <2>2 DEF HelloOnWire, IsHello
  <2> QED
    BY <1>2, <2>1, <2>2
<1>5. HelloInWriter' <=> HelloInWriter
  BY <1>1 DEF HelloInWriter, IsHello
<1>6. pc'["net"] = "tick" => (StreamGreeted' <=> StreamGreeted)
  <2>1. pc'["net"] = "tick" => UNCHANGED <<stream, link>>
    BY <1>2
  <2> QED
    BY <2>1 DEF StreamGreeted, Greeted, Received, HelloOf
<1>7. Sockets
  BY DEF Sound
<1>8. Sockets'
  BY <1>1, <1>2, <1>7 DEF Sockets, Conn, Thread
<1>9. ASSUME NetOnly'
      PROVE  Queues' /\ Hellos'
  <2>1. Queues /\ Hellos
    BY <1>1, <1>2, <1>9 DEF Sound, NetOnly
  <2>2. Queues'
    BY <1>1, <1>2, <1>7, <1>9, <2>1 DEF Queues, Teardown, Up, Sockets, Thread, Counted, Types, Conn
  <2>3. HelloPushed'
    BY <1>1, <1>2, <1>7, <1>9, <2>1 DEF HelloPushed, HelloOf, Queues, Thread, Hellos, Teardown, Up
  <2>4. NoneFromWin'
    BY <1>1, <1>2, <1>7, <1>9, <2>1 DEF NoneFromWin, IsHello, Queues, Teardown, Thread, Hellos, Up
  <2>5. HelloQueued'
    BY <1>1, <1>2, <1>7, <1>9, <2>1 DEF HelloQueued, IsHello, HelloOf, Hellos
  <2>6. HelloSent'
    BY <1>1, <1>2, <1>3, <1>4, <1>7, <1>9, <2>1 DEF HelloSent, IsHello, HelloOf, Queues, Thread,
      Hellos, Teardown, Up
  <2>7. QueuedNotReceived'
    BY <1>1, <1>2, <1>3, <1>4, <1>7, <1>9, <2>1 DEF QueuedNotReceived, Up, Hellos
  <2>8. NoneYet'
    BY <1>1, <1>2, <1>3, <1>4, <1>7, <1>9, <2>1 DEF NoneYet, Up, Queues, Thread, Hellos, Teardown
  <2>9. HelloReceived'
    BY <1>1, <1>2, <1>7, <1>9, <2>1, SMTT(30) DEF HelloReceived, Received, Hellos
  <2>10. HelloKept'
    BY <1>1, <1>2, <1>5, <1>7, <1>9, <2>1 DEF HelloKept, Teardown, Queues, Thread, Hellos, Up
  <2> QED
    BY <2>2, <2>3, <2>4, <2>5, <2>6, <2>7, <2>8, <2>9, <2>10 DEF Hellos
<1>10. ASSUME NetOnly', ~log'.late
       PROVE  Players' /\ Leftovers'
  <2>1. Queues /\ Hellos /\ Players /\ Leftovers
    BY <1>1, <1>2, <1>10 DEF Sound, NetOnly
  <2>2. Players'
    BY <1>1, <1>2, <1>7, <1>10, <2>1 DEF Players, Queues, Teardown, Up, Sockets, Thread, Conn
  <2>3. QueuedIsOwn'
    BY <1>1, <1>2, <1>7, <1>10, <2>1 DEF QueuedIsOwn, Leftovers
  <2>4. SentIsOwn'
    BY <1>1, <1>2, <2>1, <1>7 DEF Leftovers, SentIsOwn, Players, Sockets
  <2>5. KeptIsOld'
    <3>1. \A i \in 1..Len(writer) : writer[i].conn \in Nat
      <4>1. \A i \in 1..Len(writer) : writer[i] \in Packet
        BY DEF Types, BuffersOK
      <4> QED
        BY <4>1, SessionAssumption DEF Packet
    <3>2. CASE UNCHANGED <<stream, link, queue, flags>>
      BY <1>1, <1>2, <2>1, <3>2 DEF Leftovers, KeptIsOld, Up
    <3>3. CASE stream' = stream + 1 /\ stream \in Nat
      BY <1>1, <2>1, <3>1, <3>3 DEF Leftovers, KeptIsOld
    <3> QED
      BY <1>2, <3>2, <3>3
  <2> QED
    BY <2>2, <2>3, <2>4, <2>5 DEF Leftovers
<1>11. ASSUME NetOnly', ~log'.late, "escape" \notin log'.did
       PROVE  Leads'
  <2>1. Queues /\ Hellos /\ Players /\ Leftovers /\ Leads
    BY <1>1, <1>2, <1>11 DEF Sound, NetOnly
  <2>2. SentHelloSet'
    BY <1>1, <1>2, <1>7, <1>11, <2>1 DEF SentHelloSet, Queues, Players, Teardown, Thread, Leads, Up
  <2>3. NothingBefore'
    BY <1>1, <1>2, <1>7, <1>11, <2>1 DEF NothingBefore, Queues, Teardown, Players, Thread, Leads, Up
  <2>4. HelloLeads'
    <3>1. CASE UNCHANGED <<stream, link, queue, flags>> /\ pc'["net"] = "tick"
      BY <1>1, <1>2, <1>6, <2>1, <3>1 DEF Leads, HelloLeads, HelloOnTheWay, Up, HelloOf
    <3>2. CASE pc'["net"] = "hello" /\ ~flags'.sent_hello
      BY <3>2 DEF HelloLeads
    <3>3. ~flags.sent_hello
      BY <1>2, <2>1, <1>7 DEF Leads, SentHelloSet, Sockets
    <3> QED
      BY <1>2, <3>1, <3>2, <3>3
  <2> QED
    BY <2>2, <2>3, <2>4 DEF Leads
<1> QED
  BY <1>8, <1>9, <1>10, <1>11 DEF Sound

LEMMA HelloKeeps ==
  ASSUME Types, Types', Sound, Hello
  PROVE  Sound'
<1>1. UNCHANGED <<flags, queue, stream, player, writer, batch, link, log, broken>>
  BY DEF Hello
<1>2. /\ pc["net"] = "hello" /\ pc'["win"] = pc["win"] /\ packet'["win"] = packet["win"]
      /\ \/ ~flags.connected /\ pc'["net"] = "tick" /\ UNCHANGED <<return, packet>>
         \/ /\ flags.connected /\ flags.sent_hello
            /\ pc'["net"] = "drain" /\ UNCHANGED <<return, packet>>
         \/ /\ flags.connected /\ ~flags.sent_hello
            /\ pc'["net"] = "push" /\ return'["net"] = "set sent_hello"
            /\ packet'["net"] = HelloOf(stream)
  BY DEF Hello, Call, Goto, For, HelloOf, Types, Labels, PacketOK, Thread
<1>3. packet'["net"] = HelloOf(stream) => packet'["net"].conn = stream
  BY DEF HelloOf
<1>4. HelloInQueue' <=> HelloInQueue
  BY <1>1 DEF HelloInQueue, IsHello
<1>5. HelloOnWire' <=> HelloOnWire
  BY <1>1 DEF HelloOnWire, IsHello
<1>6. HelloInWriter' <=> HelloInWriter
  BY <1>1 DEF HelloInWriter, IsHello
<1>7. StreamGreeted' <=> StreamGreeted
  BY <1>1 DEF StreamGreeted, Greeted, Received, HelloOf
<1>8. Sockets
  BY DEF Sound
<1>9. Sockets'
  BY <1>1, <1>2, <1>3, <1>8 DEF Sockets, Conn, Thread
<1>10. ASSUME NetOnly'
       PROVE  Queues' /\ Hellos'
  <2>1. Queues /\ Hellos
    BY <1>1, <1>2, <1>3, <1>10 DEF Sound, NetOnly
  <2>2. HelloQueued' /\ QueuedNotReceived' /\ HelloReceived'
    BY <1>1, <2>1 DEF HelloQueued, IsHello, HelloOf, QueuedNotReceived, Up, HelloReceived, Received,
      Hellos, HelloInQueue, IsHello, HelloOnWire, IsHello
  <2>3. Queues'
    BY <1>1, <1>2, <1>3, <1>8, <1>10, <2>1 DEF Queues, Teardown, Up, Sockets, Thread, Counted,
      Types, Conn
  <2>4. HelloPushed'
    BY <1>1, <1>2, <1>3, <1>8, <1>10, <2>1 DEF HelloPushed, HelloOf, Queues, Thread, Hellos,
      Teardown, Up
  <2>5. NoneFromWin'
    BY <1>1, <1>2, <1>3, <1>8, <1>10, <2>1 DEF NoneFromWin, IsHello, Queues, Teardown, Thread,
      Hellos, Up
  <2>6. HelloSent'
    BY <1>1, <1>2, <1>3, <1>4, <1>5, <1>8, <1>10, <2>1 DEF HelloSent, IsHello, HelloOf, Queues,
      Thread, Hellos, Teardown, Up
  <2>7. NoneYet'
    BY <1>1, <1>2, <1>3, <1>4, <1>5, <1>8, <1>10, <2>1 DEF NoneYet, Up, Queues, Thread, Hellos,
      Teardown
  <2>8. HelloKept'
    BY <1>1, <1>2, <1>3, <1>6, <1>8, <1>10, <2>1 DEF HelloKept, Teardown, Queues, Thread, Hellos, Up
  <2> QED
    BY <2>2, <2>3, <2>4, <2>5, <2>6, <2>7, <2>8 DEF Hellos
<1>11. ASSUME NetOnly', ~log'.late
       PROVE  Players' /\ Leftovers'
  <2>1. Queues /\ Hellos /\ Players /\ Leftovers
    BY <1>1, <1>2, <1>3, <1>11 DEF Sound, NetOnly
  <2>2. QueuedIsOwn'
    BY <1>1, <2>1 DEF QueuedIsOwn, Leftovers
  <2>3. Players'
    BY <1>1, <1>2, <1>3, <1>8, <1>11, <2>1 DEF Players, Queues, Teardown, Up, Sockets, Thread, Conn
  <2>4. SentIsOwn'
    BY <1>1, <1>2, <1>3, <1>8, <1>11, <2>1 DEF SentIsOwn, Thread, Leftovers
  <2>5. KeptIsOld'
    BY <1>1, <1>2, <1>3, <1>8, <1>11, <2>1 DEF KeptIsOld, Up, Queues, Players, Teardown, Thread,
      Leftovers
  <2> QED
    BY <2>2, <2>3, <2>4, <2>5 DEF Leftovers
<1>12. ASSUME NetOnly', ~log'.late, "escape" \notin log'.did
       PROVE  Leads'
  <2>1. Queues /\ Hellos /\ Players /\ Leftovers /\ Leads
    BY <1>1, <1>2, <1>3, <1>12 DEF Sound, NetOnly
  <2>2. SentHelloSet'
    BY <1>1, <1>2, <1>3, <1>8, <1>12, <2>1 DEF SentHelloSet, Queues, Players, Teardown, Thread,
      Leads, Up
  <2>3. NothingBefore'
    BY <1>1, <1>2, <1>3, <1>8, <1>12, <2>1 DEF NothingBefore, Queues, Teardown, Players, Thread,
      Leads, Up
  <2>4. HelloLeads'
    BY <1>1, <1>2, <1>3, <1>7, <1>8, <1>12, <2>1 DEF HelloLeads, HelloOnTheWay, Up, HelloOf,
      SentHelloSet, Queues, Teardown, Players, Thread, Leads
  <2> QED
    BY <2>2, <2>3, <2>4 DEF Leads
<1> QED
  BY <1>9, <1>10, <1>11, <1>12 DEF Sound

LEMMA SetSentHelloKeeps ==
  ASSUME Types, Types', Sound, SetSentHello
  PROVE  Sound'
<1>1. UNCHANGED <<queue, stream, player, return, packet, writer, batch, link, log, broken>>
  BY DEF SetSentHello
<1>2. /\ pc["net"] = "set sent_hello" /\ pc'["net"] = "drain" /\ pc'["win"] = pc["win"]
      /\ flags'.sent_hello /\ flags'.connected = flags.connected
      /\ flags'.selected_server = flags.selected_server
  BY DEF SetSentHello, Goto, Types, Labels, FlagsOK, Thread
<1>3. HelloInQueue' <=> HelloInQueue
  BY <1>1 DEF HelloInQueue, IsHello
<1>4. HelloOnWire' <=> HelloOnWire
  BY <1>1 DEF HelloOnWire, IsHello
<1>5. HelloInWriter' <=> HelloInWriter
  BY <1>1 DEF HelloInWriter, IsHello
<1>6. StreamGreeted' <=> StreamGreeted
  BY <1>1 DEF StreamGreeted, Greeted, Received, HelloOf
<1>7. Sockets
  BY DEF Sound
<1>8. Sockets'
  BY <1>1, <1>2, <1>7 DEF Sockets, Conn, Thread
<1>9. ASSUME NetOnly'
      PROVE  Queues' /\ Hellos'
  <2>1. Queues /\ Hellos
    BY <1>1, <1>2, <1>9 DEF Sound, NetOnly
  <2>2. HelloQueued' /\ HelloReceived'
    BY <1>1, <2>1 DEF HelloQueued, IsHello, HelloOf, HelloReceived, Received, Hellos
  <2>3. Queues'
    BY <1>1, <1>2, <1>7, <1>9, <2>1 DEF Queues, Teardown, Up, Sockets, Thread, Counted, Types, Conn
  <2>4. HelloPushed'
    BY <1>1, <1>2, <1>7, <1>9, <2>1 DEF HelloPushed, HelloOf, Queues, Thread, Hellos, Teardown, Up
  <2>5. NoneFromWin'
    BY <1>1, <1>2, <1>7, <1>9, <2>1 DEF NoneFromWin, IsHello, Queues, Teardown, Thread, Hellos, Up
  <2>6. HelloSent'
    BY <1>1, <1>2, <1>3, <1>4, <1>7, <1>9, <2>1 DEF HelloSent, IsHello, HelloOf, Queues, Thread,
      Hellos, Teardown, Up
  <2>7. QueuedNotReceived'
    BY <1>1, <1>2, <1>3, <1>4, <1>7, <1>9, <2>1 DEF QueuedNotReceived, Up, Hellos
  <2>8. NoneYet'
    BY <1>1, <1>2, <1>3, <1>4, <1>7, <1>9, <2>1 DEF NoneYet, Up, Queues, Thread, Hellos, Teardown
  <2>9. HelloKept'
    BY <1>1, <1>2, <1>5, <1>7, <1>9, <2>1 DEF HelloKept, Teardown, Queues, Thread, Hellos, Up
  <2> QED
    BY <2>2, <2>3, <2>4, <2>5, <2>6, <2>7, <2>8, <2>9 DEF Hellos
<1>10. ASSUME NetOnly', ~log'.late
       PROVE  Players' /\ Leftovers'
  <2>1. Queues /\ Hellos /\ Players /\ Leftovers
    BY <1>1, <1>2, <1>10 DEF Sound, NetOnly
  <2>2. QueuedIsOwn'
    BY <1>1, <2>1 DEF QueuedIsOwn, Leftovers
  <2>3. Players'
    BY <1>1, <1>2, <1>7, <1>10, <2>1 DEF Players, Queues, Teardown, Up, Sockets, Thread, Conn
  <2>4. SentIsOwn'
    BY <1>1, <1>2, <1>7, <1>10, <2>1 DEF SentIsOwn, Thread, Leftovers
  <2>5. KeptIsOld'
    BY <1>1, <1>2, <1>7, <1>10, <2>1 DEF KeptIsOld, Up, Queues, Players, Teardown, Thread, Leftovers
  <2> QED
    BY <2>2, <2>3, <2>4, <2>5 DEF Leftovers
<1>11. ASSUME NetOnly', ~log'.late, "escape" \notin log'.did
       PROVE  Leads'
  <2>1. Queues /\ Hellos /\ Players /\ Leftovers /\ Leads
    BY <1>1, <1>2, <1>11 DEF Sound, NetOnly
  <2>2. SentHelloSet'
    BY <1>1, <1>2, <1>7, <1>11, <2>1 DEF SentHelloSet, Queues, Players, Teardown, Thread, Leads, Up
  <2>3. NothingBefore'
    BY <1>1, <1>2, <1>7, <1>11, <2>1 DEF NothingBefore, Queues, Teardown, Players, Thread, Leads, Up
  <2>4. HelloLeads'
    BY <1>1, <1>2, <1>6, <1>7, <1>11, <2>1 DEF HelloLeads, HelloOnTheWay, Up, HelloOf, SentHelloSet,
      Queues, Teardown, Players, Thread, Leads
  <2> QED
    BY <2>2, <2>3, <2>4 DEF Leads
<1> QED
  BY <1>8, <1>9, <1>10, <1>11 DEF Sound

LEMMA DrainKeeps ==
  ASSUME Types, Types', Sound, Drain, broken' = NoBreak
  PROVE  Sound'
<1>1. UNCHANGED <<flags, stream, player, writer, batch, link, log>>
  BY DEF Drain
<1>2. /\ pc["net"] = "drain" /\ pc'["win"] = pc["win"] /\ packet'["win"] = packet["win"]
      /\ queue.state = "live" /\ queue'.state = "live"
      /\ \/ queue.items = <<>> /\ pc'["net"] = "read" /\ UNCHANGED <<queue, packet, return>>
         \/ /\ queue.items # <<>> /\ queue'.items = Tail(queue.items)
            /\ packet'["net"] = Head(queue.items)
            /\ pc'["net"] = "send" /\ return'["net"] = "drain"
  BY DEF Drain, Types, QueueOK, Call, Goto, Labels, PacketOK, NoBreak, Thread
<1>3. queue.items \in Seq(Packet)
  BY DEF Types, QueueOK
<1>4. queue.items # <<>> =>
        /\ Len(queue.items) >= 1 /\ Len(queue.items) \in Nat /\ Head(queue.items) = queue.items[1]
        /\ Len(Tail(queue.items)) = Len(queue.items) - 1
        /\ \A i \in 1..Len(Tail(queue.items)) : Tail(queue.items)[i] = queue.items[i + 1]
  BY <1>3, HeadTailProperties
<1>5. \/ UNCHANGED <<queue, packet>> /\ queue.items = <<>>
      \/ /\ Len(queue'.items) = Len(queue.items) - 1 /\ packet'["net"] = queue.items[1]
         /\ Len(queue.items) \in Nat /\ Len(queue.items) >= 1
         /\ \A i \in 1..Len(queue'.items) : queue'.items[i] = queue.items[i + 1]
  BY <1>2, <1>4
<1>6. HelloInQueue' => HelloInQueue
  BY <1>5 DEF HelloInQueue, IsHello
<1>7. HelloOnWire' <=> HelloOnWire
  BY <1>1 DEF HelloOnWire, IsHello
<1>8. HelloInWriter' <=> HelloInWriter
  BY <1>1 DEF HelloInWriter, IsHello
<1>9. StreamGreeted' <=> StreamGreeted
  BY <1>1 DEF StreamGreeted, Greeted, Received, HelloOf
<1>10. Sockets
  BY DEF Sound
<1>11. Sockets'
  BY <1>1, <1>2, <1>3, <1>4, <1>5, <1>10 DEF Sockets, Conn, Thread
<1>12. ASSUME NetOnly'
       PROVE  Queues' /\ Hellos'
  <2>1. Queues /\ Hellos
    BY <1>1, <1>2, <1>3, <1>4, <1>5, <1>12 DEF Sound, NetOnly
  <2>2. HelloReceived'
    BY <1>1, <2>1 DEF HelloReceived, Received, Hellos
  <2>3. Queues'
    BY <1>1, <1>2, <1>3, <1>4, <1>5, <1>10, <1>12, <2>1 DEF Queues, Teardown, Up, Sockets, Thread,
      Counted, Types, Conn
  <2>4. HelloPushed'
    BY <1>1, <1>2, <1>3, <1>4, <1>5, <1>10, <1>12, <2>1 DEF HelloPushed, HelloOf, Queues, Thread,
      Hellos, Teardown, Up
  <2>5. NoneFromWin'
    BY <1>1, <1>2, <1>3, <1>4, <1>5, <1>10, <1>12, <2>1 DEF NoneFromWin, IsHello, Queues, Teardown,
      Thread, Hellos, Up
  <2>6. HelloQueued'
    <3>1. CASE UNCHANGED queue
      BY <1>1, <2>1, <3>1 DEF Hellos, HelloQueued, IsHello, HelloOf
    <3>2. CASE ~UNCHANGED queue
      <4>1. \A i \in 1..Len(queue'.items) :
              i + 1 \in 1..Len(queue.items) /\ queue'.items[i] = queue.items[i + 1]
        BY <1>5, <3>2
      <4>2. \A i \in 1..Len(queue'.items) : IsHello(queue'.items[i]) => queue'.items[i] = HelloOf(stream)
        BY <2>1, <4>1 DEF Hellos, HelloQueued
      <4>3. \A i, j \in 1..Len(queue'.items) :
              IsHello(queue'.items[i]) /\ IsHello(queue'.items[j]) => i + 1 = j + 1
        BY <2>1, <4>1 DEF Hellos, HelloQueued
      <4>4. \A i, j \in 1..Len(queue'.items) :
              IsHello(queue'.items[i]) /\ IsHello(queue'.items[j]) => i = j
        BY <4>3
      <4> QED
        BY <1>1, <4>2, <4>4 DEF HelloQueued, IsHello, HelloOf
    <3> QED
      BY <3>1, <3>2
  <2>7. HelloSent'
    <3>1. SUFFICES ASSUME pc'["net"] = "send", IsHello(packet'["net"])
                   PROVE  /\ packet'["net"] = HelloOf(stream) /\ return'["net"] = "drain"
                          /\ flags.sent_hello /\ ~HelloInQueue' /\ ~HelloOnWire'
      BY <1>1 DEF HelloSent, IsHello, HelloOf
    <3>2. /\ Len(queue'.items) = Len(queue.items) - 1 /\ packet'["net"] = queue.items[1]
          /\ Len(queue.items) \in Nat /\ Len(queue.items) >= 1
          /\ \A i \in 1..Len(queue'.items) : queue'.items[i] = queue.items[i + 1]
      BY <1>2, <1>5, <3>1
    <3>3. packet'["net"] = HelloOf(stream) /\ HelloInQueue /\ ~HelloInQueue'
      BY <2>1, <3>1, <3>2 DEF Hellos, HelloQueued, HelloInQueue, IsHello
    <3>4. flags.connected /\ Up
      BY <1>2, <1>10 DEF Sockets, Up
    <3> QED
      BY <1>1, <1>2, <2>1, <3>1, <3>3, <3>4, <1>7 DEF Hellos, QueuedNotReceived, NoneYet
  <2>8. QueuedNotReceived'
    BY <1>1, <1>2, <1>3, <1>4, <1>5, <1>6, <1>7, <1>10, <1>12, <2>1 DEF QueuedNotReceived, Up,
      Hellos
  <2>9. NoneYet'
    BY <1>1, <1>2, <1>3, <1>4, <1>5, <1>6, <1>7, <1>10, <1>12, <2>1 DEF NoneYet, Up, Queues, Thread,
      Hellos, Teardown
  <2>10. HelloKept'
    BY <1>1, <1>2, <1>3, <1>4, <1>5, <1>8, <1>10, <1>12, <2>1 DEF HelloKept, Teardown, Queues,
      Thread, Hellos, Up
  <2> QED
    BY <2>2, <2>3, <2>4, <2>5, <2>6, <2>7, <2>8, <2>9, <2>10 DEF Hellos
<1>13. ASSUME NetOnly', ~log'.late
       PROVE  Players' /\ Leftovers'
  <2>1. Queues /\ Hellos /\ Players /\ Leftovers
    BY <1>1, <1>2, <1>3, <1>4, <1>5, <1>13 DEF Sound, NetOnly
  <2>2. Players'
    BY <1>1, <1>2, <1>3, <1>4, <1>5, <1>10, <1>13, <2>1 DEF Players, Queues, Teardown, Up, Sockets,
      Thread, Conn
  <2>3. QueuedIsOwn'
    BY <1>1, <1>5, <2>1, SMTT(30) DEF Leftovers, QueuedIsOwn
  <2>4. SentIsOwn'
    BY <1>1, <1>2, <1>5, <2>1 DEF Leftovers, QueuedIsOwn, SentIsOwn
  <2>5. KeptIsOld'
    BY <1>1, <1>2, <1>3, <1>4, <1>5, <1>10, <1>13, <2>1 DEF KeptIsOld, Up, Queues, Players,
      Teardown, Thread, Leftovers
  <2> QED
    BY <2>2, <2>3, <2>4, <2>5 DEF Leftovers
<1>14. ASSUME NetOnly', ~log'.late, "escape" \notin log'.did
       PROVE  Leads'
  <2>1. Queues /\ Hellos /\ Players /\ Leftovers /\ Leads
    BY <1>1, <1>2, <1>3, <1>4, <1>5, <1>14 DEF Sound, NetOnly
  <2>2. SentHelloSet'
    BY <1>1, <1>2, <1>3, <1>4, <1>5, <1>10, <1>14, <2>1 DEF SentHelloSet, Queues, Players, Teardown,
      Thread, Leads, Up
  <2>3. NothingBefore'
    BY <1>1, <1>2, <1>3, <1>4, <1>5, <1>10, <1>14, <2>1 DEF NothingBefore, Queues, Teardown,
      Players, Thread, Leads, Up
  <2>4. HelloLeads'
    BY <1>1, <1>2, <1>3, <1>4, <1>5, <1>9, <1>10, <1>14, <2>1 DEF HelloLeads, HelloOnTheWay, Up,
      HelloOf, SentHelloSet, Queues, Teardown, Players, Thread, Leads
  <2> QED
    BY <2>2, <2>3, <2>4 DEF Leads
<1> QED
  BY <1>11, <1>12, <1>13, <1>14 DEF Sound

LEMMA SendKeeps ==
  ASSUME Types, Types', Sound, Send
  PROVE  Sound'
<1>1. UNCHANGED <<flags, queue, stream, player, packet, batch, broken>>
  BY DEF Send
<1>2. /\ stream \in Conn /\ pc["net"] = "send" /\ pc'["win"] = pc["win"]
      /\ log'.late = log.late /\ log'.did = log.did /\ log.failed \subseteq log'.failed
      /\ \A c \in Conn : link'[c].client = link[c].client /\ link'[c].server = link[c].server
      /\ \A c \in Conn \ {stream} : link'[c].wire = link[c].wire
      /\ \/ link[stream].client = "open" /\ pc'["net"] = return["net"] /\ return'["net"] = "tick"
         \/ pc'["net"] = "onError" /\ UNCHANGED <<return, link>>
  BY SendEffect
<1>3. return["net"] \in {"drain", "dispatch"}
  BY <1>2 DEF Types, Labels
<1>4. Sockets
  BY DEF Sound
<1>5. Sockets'
  BY <1>1, <1>2, <1>3, <1>4 DEF Sockets, Conn, Thread
<1>6. HelloInQueue' <=> HelloInQueue
  BY <1>1 DEF HelloInQueue, IsHello
<1>7. ASSUME NetOnly'
      PROVE  Queues' /\ Hellos'
  <2>1. Queues /\ Hellos
    BY <1>2, <1>7 DEF Sound, NetOnly
  <2>2. ~HelloInWriter
    BY <1>2, <2>1 DEF Hellos, HelloKept, Teardown
  <2>3. HelloOnWire' => HelloOnWire \/ IsHello(packet["net"])
    BY <2>2, SendWires
  <2>4. IsHello(packet["net"]) =>
          /\ packet["net"] = HelloOf(stream) /\ return["net"] = "drain"
          /\ flags.sent_hello /\ ~HelloInQueue /\ ~HelloOnWire
    BY <1>2, <2>1 DEF Hellos, HelloSent
  <2>5. Queues'
    <3>1. pc'["net"] = "onError" => log'.failed # {}
      BY <1>3, SendEffect
    <3>2. link[stream].client = "open" => Up
      BY <1>2, <1>4 DEF Sockets, Up
    <3> QED
      BY <1>1, <1>2, <1>3, <2>1, <3>1, <3>2 DEF Queues, Teardown, Up
  <2>6. HelloPushed' /\ NoneFromWin' /\ HelloSent'
    BY <1>1, <1>2, <1>3, <2>1 DEF Hellos, HelloPushed, NoneFromWin, HelloSent, IsHello, HelloOf
  <2>7. HelloQueued'
    BY <1>1, <2>1 DEF Hellos, HelloQueued, IsHello, HelloOf
  <2>8. QueuedNotReceived' /\ NoneYet'
    BY <1>1, <1>2, <1>6, <2>1, <2>3, <2>4 DEF Hellos, QueuedNotReceived, NoneYet, Up
  <2>9. HelloReceived'
    <3> SUFFICES ASSUME NEW c \in Conn
                 PROVE  /\ \A i \in 1..Len(link'[c].wire) :
                             IsHello(link'[c].wire[i]) => link'[c].wire[i] = HelloOf(c)
                        /\ \A i, j \in 1..Len(link'[c].wire) :
                             IsHello(link'[c].wire[i]) /\ IsHello(link'[c].wire[j]) => i = j
      BY DEF HelloReceived, Received, IsHello, HelloOf
    <3>1. CASE link'[c].wire = link[c].wire
      BY <2>1, <3>1 DEF Hellos, HelloReceived, Received
    <3>2. CASE c = stream /\ link'[c].wire # link[c].wire
      <4> DEFINE w == link[c].wire
                 n == Len(w)
                 s == link'[c].wire
      <4>1. /\ n \in Nat /\ Len(writer) \in Nat /\ Len(s) = n + Len(writer) + 1
            /\ \A i \in 1..n : s[i] = w[i]
            /\ \A i \in n + 1 .. n + Len(writer) : ~IsHello(s[i])
            /\ s[Len(s)] = packet["net"]
        BY <2>2, <3>2, SendWire DEF HelloInWriter
      <4>2. /\ \A i \in 1..n : IsHello(w[i]) => w[i] = HelloOf(c)
            /\ \A i, j \in 1..n : IsHello(w[i]) /\ IsHello(w[j]) => i = j
            /\ IsHello(packet["net"]) => packet["net"] = HelloOf(c) /\ \A i \in 1..n : ~IsHello(w[i])
        BY <2>1, <2>4, <3>2 DEF Hellos, HelloReceived, Received, HelloOnWire
      <4> HIDE DEF w, n, s
      <4>3. \A i \in 1..Len(s) : IsHello(s[i]) => i \in 1..n \/ i = Len(s)
        BY <4>1
      <4>4. \A i \in 1..Len(s) : IsHello(s[i]) => s[i] = HelloOf(c)
        BY <4>1, <4>2, <4>3
      <4>5. \A i, j \in 1..Len(s) : IsHello(s[i]) /\ IsHello(s[j]) => i = j
        <5> SUFFICES ASSUME NEW i \in 1..Len(s), NEW j \in 1..Len(s), IsHello(s[i]), IsHello(s[j])
                     PROVE  i = j
          OBVIOUS
        <5>1. CASE IsHello(packet["net"])
          BY <4>1, <4>2, <4>3, <5>1
        <5>2. CASE ~IsHello(packet["net"])
          BY <4>1, <4>2, <4>3, <5>2
        <5> QED
          BY <5>1, <5>2
      <4> QED
        BY <4>4, <4>5 DEF s
    <3> QED
      BY <1>2, <3>1, <3>2
  <2>10. HelloKept'
    <3>1. CASE Len(writer') = 0
      BY <3>1 DEF HelloKept, HelloInWriter
    <3>2. CASE Len(writer') # 0
      <4>1. HelloInWriter' => IsHello(packet["net"])
        BY <2>2, <3>2, SendBuffer DEF HelloInWriter, IsHello
      <4> QED
        BY <2>4, <3>2, <4>1, SendBuffer DEF HelloKept
    <3> QED
      BY <3>1, <3>2
  <2> QED
    BY <2>5, <2>6, <2>7, <2>8, <2>9, <2>10 DEF Hellos
<1>8. ASSUME NetOnly', ~log'.late
      PROVE  Players' /\ Leftovers'
  <2>1. Players /\ Leftovers /\ Queues
    BY <1>2, <1>8 DEF Sound, NetOnly
  <2>2. Players'
    BY <1>1, <1>2, <1>3, <2>1 DEF Players
  <2>3. QueuedIsOwn' /\ SentIsOwn'
    BY <1>1, <1>2, <1>3, <2>1 DEF Leftovers, QueuedIsOwn, SentIsOwn
  <2>4. KeptIsOld'
    <3>1. CASE Len(writer') = 0
      BY <3>1 DEF KeptIsOld
    <3>2. CASE Len(writer') # 0
      <4>1. packet["net"].conn = stream /\ stream <= stream
        BY <1>2, <2>1, SessionAssumption DEF Leftovers, SentIsOwn, Types, Counted
      <4>2. \A i \in 1..Len(writer') : i \in 1..Len(writer) \/ i = Len(writer')
        BY <3>2, SendBuffer
      <4> QED
        BY <1>1, <2>1, <3>2, <4>1, <4>2, SendBuffer DEF Leftovers, KeptIsOld
    <3> QED
      BY <3>1, <3>2
  <2> QED
    BY <2>2, <2>3, <2>4 DEF Leftovers
<1>9. ASSUME NetOnly', ~log'.late, "escape" \notin log'.did
      PROVE  Leads'
  <2>1. Queues /\ Players /\ Leads
    BY <1>2, <1>9 DEF Sound, NetOnly
  <2>2. SentHelloSet' /\ NothingBefore'
    BY <1>1, <1>2, <1>3, <2>1 DEF Leads, SentHelloSet, NothingBefore, Players
  <2>3. HelloLeads'
    <3>1. flags.sent_hello
      BY <1>2, <2>1 DEF Leads, SentHelloSet, Players
    <3>2. CASE pc'["net"] = "onError"
      BY <3>2 DEF HelloLeads, HelloOnTheWay
    <3>3. CASE link[stream].client = "open" /\ pc'["net"] = return["net"]
      <4>1. Up
        BY <1>2, <1>4, <3>3 DEF Sockets, Up
      <4>2. packet["net"] = HelloOf(stream) \/ StreamGreeted \/ ~link[stream].server
        BY <1>2, <2>1, <3>1, <4>1 DEF Leads, HelloLeads, HelloOnTheWay
      <4>3. link[stream].server /\ pc'["net"] # "onError" => link'[stream].wire # link[stream].wire
        BY SendSends
      <4>4. StreamGreeted' \/ ~link'[stream].server
        BY <1>2, <3>3, <1>3, <4>2, <4>3, SendWires
      <4> QED
        BY <1>1, <4>4 DEF HelloLeads, HelloOnTheWay
    <3> QED
      BY <1>2, <3>2, <3>3
  <2> QED
    BY <2>2, <2>3 DEF Leads
<1> QED
  BY <1>5, <1>7, <1>8, <1>9 DEF Sound

LEMMA ReadKeeps ==
  ASSUME Types, Types', Sound, Read
  PROVE  Sound'
<1>1. UNCHANGED <<flags, queue, stream, player, packet, writer, log, broken>>
  BY DEF Read
<1>2. /\ pc["net"] = "read" /\ pc'["win"] = pc["win"]
      /\ \/ pc'["net"] \in {"tick", "dispatch"} /\ UNCHANGED return
         \/ pc'["net"] = "onError" /\ return'["net"] = "tick"
  BY DEF Read, Types, Call, Goto, Labels, Thread
<1>3. /\ stream \in Conn
      /\ \A d \in Conn : /\ link'[d].wire = link[d].wire /\ link'[d].client = link[d].client
                         /\ link'[d].server => link[d].server
  BY ReadLink
<1>4. HelloInQueue' <=> HelloInQueue
  BY <1>1 DEF HelloInQueue, IsHello
<1>5. HelloOnWire' <=> HelloOnWire
  BY <1>1, <1>2, <1>3 DEF HelloOnWire, IsHello, Types, Counted, Sockets, Conn, Sound
<1>6. HelloInWriter' <=> HelloInWriter
  BY <1>1 DEF HelloInWriter, IsHello
<1>7. StreamGreeted' <=> StreamGreeted
  BY <1>1, <1>2, <1>3 DEF StreamGreeted, Greeted, Received, HelloOf, Types, Counted, Sockets, Conn,
    Sound
<1>8. Sockets
  BY DEF Sound
<1>9. Sockets'
  BY <1>1, <1>2, <1>3, <1>8 DEF Sockets, Conn, Thread
<1>10. ASSUME NetOnly'
       PROVE  Queues' /\ Hellos'
  <2>1. Queues /\ Hellos
    BY <1>1, <1>2, <1>3, <1>10 DEF Sound, NetOnly
  <2>2. HelloQueued'
    BY <1>1, <2>1 DEF HelloQueued, IsHello, HelloOf, Hellos
  <2>3. Queues'
    BY <1>1, <1>2, <1>3, <1>8, <1>10, <2>1 DEF Queues, Teardown, Up, Sockets, Thread, Counted,
      Types, Conn
  <2>4. HelloPushed'
    BY <1>1, <1>2, <1>3, <1>8, <1>10, <2>1 DEF HelloPushed, HelloOf, Queues, Thread, Hellos,
      Teardown, Up
  <2>5. NoneFromWin'
    BY <1>1, <1>2, <1>3, <1>8, <1>10, <2>1 DEF NoneFromWin, IsHello, Queues, Teardown, Thread,
      Hellos, Up
  <2>6. HelloSent'
    BY <1>1, <1>2, <1>3, <1>4, <1>5, <1>8, <1>10, <2>1 DEF HelloSent, IsHello, HelloOf, Queues,
      Thread, Hellos, Teardown, Up
  <2>7. QueuedNotReceived'
    BY <1>1, <1>2, <1>3, <1>4, <1>5, <1>8, <1>10, <2>1 DEF QueuedNotReceived, Up, Hellos
  <2>8. NoneYet'
    BY <1>1, <1>2, <1>3, <1>4, <1>5, <1>8, <1>10, <2>1 DEF NoneYet, Up, Queues, Thread, Hellos,
      Teardown
  <2>9. HelloReceived'
    <3> SUFFICES ASSUME NEW d \in Conn
                 PROVE  /\ \A i \in Received(d)' : IsHello(link'[d].wire[i]) => link'[d].wire[i] = HelloOf(d)
                        /\ \A i, j \in Received(d)' :
                             IsHello(link'[d].wire[i]) /\ IsHello(link'[d].wire[j]) => i = j
      BY DEF HelloReceived, IsHello, HelloOf
    <3>1. link'[d].wire = link[d].wire
      BY <1>3
    <3> QED
      BY <2>1, <3>1 DEF Hellos, HelloReceived, Received
  <2>10. HelloKept'
    BY <1>1, <1>2, <1>3, <1>6, <1>8, <1>10, <2>1 DEF HelloKept, Teardown, Queues, Thread, Hellos, Up
  <2> QED
    BY <2>2, <2>3, <2>4, <2>5, <2>6, <2>7, <2>8, <2>9, <2>10 DEF Hellos
<1>11. ASSUME NetOnly', ~log'.late
       PROVE  Players' /\ Leftovers'
  <2>1. Queues /\ Hellos /\ Players /\ Leftovers
    BY <1>1, <1>2, <1>3, <1>11 DEF Sound, NetOnly
  <2>2. QueuedIsOwn'
    BY <1>1, <2>1 DEF QueuedIsOwn, Leftovers
  <2>3. Players'
    BY <1>1, <1>2, <1>3, <1>8, <1>11, <2>1 DEF Players, Queues, Teardown, Up, Sockets, Thread, Conn
  <2>4. SentIsOwn'
    BY <1>1, <1>2, <1>3, <1>8, <1>11, <2>1 DEF SentIsOwn, Thread, Leftovers
  <2>5. KeptIsOld'
    BY <1>1, <1>2, <1>3, <1>8, <1>11, <2>1 DEF KeptIsOld, Up, Queues, Players, Teardown, Thread,
      Leftovers
  <2> QED
    BY <2>2, <2>3, <2>4, <2>5 DEF Leftovers
<1>12. ASSUME NetOnly', ~log'.late, "escape" \notin log'.did
       PROVE  Leads'
  <2>1. Queues /\ Hellos /\ Players /\ Leftovers /\ Leads
    BY <1>1, <1>2, <1>3, <1>12 DEF Sound, NetOnly
  <2>2. SentHelloSet'
    BY <1>1, <1>2, <1>3, <1>8, <1>12, <2>1 DEF SentHelloSet, Queues, Players, Teardown, Thread,
      Leads, Up
  <2>3. NothingBefore'
    BY <1>1, <1>2, <1>3, <1>8, <1>12, <2>1 DEF NothingBefore, Queues, Teardown, Players, Thread,
      Leads, Up
  <2>4. HelloLeads'
    BY <1>1, <1>2, <1>3, <1>7, <1>8, <1>12, <2>1 DEF HelloLeads, HelloOnTheWay, Up, HelloOf,
      SentHelloSet, Queues, Teardown, Players, Thread, Leads
  <2> QED
    BY <2>2, <2>3, <2>4 DEF Leads
<1> QED
  BY <1>9, <1>10, <1>11, <1>12 DEF Sound

LEMMA DispatchKeeps ==
  ASSUME Types, Types', Sound, Dispatch
  PROVE  Sound'
<1>1. UNCHANGED <<queue, stream, writer, link, broken>>
  BY DEF Dispatch
<1>2. /\ pc["net"] = "dispatch" /\ pc'["win"] = pc["win"] /\ packet'["win"] = packet["win"]
      /\ \/ pc'["net"] = "disconnect" /\ return'["net"] = "dispatch" /\ UNCHANGED <<flags, player, packet>>
         \/ /\ pc'["net"] = "send" /\ return'["net"] = "dispatch" /\ UNCHANGED <<flags, player>>
            /\ packet'["net"] \in {For("pong"), For("update_ack")}
         \/ /\ UNCHANGED <<pc, return, packet>>
            /\ \/ UNCHANGED <<flags, player>>
               \/ /\ flags'.connected = flags.connected /\ flags'.sent_hello = flags.sent_hello
                  /\ flags'.selected_server = flags.selected_server
                  /\ player'.in_game = player.in_game /\ ~player'.local
               \/ UNCHANGED flags /\ player'.in_game = player.in_game /\ player'.local
  BY DEF Dispatch, Call, Goto, Types, Labels, FlagsOK, PlayerOK, PacketOK, Thread
<1>3. log'.failed = log.failed /\ log'.did = log.did /\ (log'.late <=> (log.late \/ ~flags.connected))
  BY DEF Dispatch, Types, LogOK
<1>4. packet'["net"] \in {For("pong"), For("update_ack")} =>
        packet'["net"].kind # "hello" /\ packet'["net"].conn = stream
  BY DEF For
<1>5. HelloInQueue' <=> HelloInQueue
  BY <1>1 DEF HelloInQueue, IsHello
<1>6. HelloOnWire' <=> HelloOnWire
  BY <1>1 DEF HelloOnWire, IsHello
<1>7. HelloInWriter' <=> HelloInWriter
  BY <1>1 DEF HelloInWriter, IsHello
<1>8. StreamGreeted' <=> StreamGreeted
  BY <1>1 DEF StreamGreeted, Greeted, Received, HelloOf
<1>9. Sockets
  BY DEF Sound
<1>10. Sockets'
  BY <1>1, <1>2, <1>3, <1>4, <1>9 DEF Sockets, Conn, Thread
<1>11. ASSUME NetOnly'
       PROVE  Queues' /\ Hellos'
  <2>1. Queues /\ Hellos
    BY <1>1, <1>2, <1>3, <1>4, <1>11 DEF Sound, NetOnly
  <2>2. HelloQueued' /\ HelloReceived'
    BY <1>1, <2>1 DEF HelloQueued, IsHello, HelloOf, HelloReceived, Received, Hellos
  <2>3. Queues'
    BY <1>1, <1>2, <1>3, <1>4, <1>9, <1>11, <2>1 DEF Queues, Teardown, Up, Sockets, Thread, Counted,
      Types, Conn
  <2>4. HelloPushed'
    BY <1>1, <1>2, <1>3, <1>4, <1>9, <1>11, <2>1 DEF HelloPushed, HelloOf, Queues, Thread, Hellos,
      Teardown, Up
  <2>5. NoneFromWin'
    BY <1>1, <1>2, <1>3, <1>4, <1>9, <1>11, <2>1 DEF NoneFromWin, IsHello, Queues, Teardown, Thread,
      Hellos, Up
  <2>6. HelloSent'
    BY <1>1, <1>2, <1>3, <1>4, <1>5, <1>6, <1>9, <1>11, <2>1 DEF HelloSent, IsHello, HelloOf,
      Queues, Thread, Hellos, Teardown, Up
  <2>7. QueuedNotReceived'
    BY <1>1, <1>2, <1>3, <1>4, <1>5, <1>6, <1>9, <1>11, <2>1 DEF QueuedNotReceived, Up, Hellos
  <2>8. NoneYet'
    BY <1>1, <1>2, <1>3, <1>4, <1>5, <1>6, <1>9, <1>11, <2>1 DEF NoneYet, Up, Queues, Thread,
      Hellos, Teardown
  <2>9. HelloKept'
    BY <1>1, <1>2, <1>3, <1>4, <1>7, <1>9, <1>11, <2>1 DEF HelloKept, Teardown, Queues, Thread,
      Hellos, Up
  <2> QED
    BY <2>2, <2>3, <2>4, <2>5, <2>6, <2>7, <2>8, <2>9 DEF Hellos
<1>12. ASSUME NetOnly', ~log'.late
       PROVE  Players' /\ Leftovers'
  <2>1. Queues /\ Hellos /\ Players /\ Leftovers
    BY <1>1, <1>2, <1>3, <1>4, <1>12 DEF Sound, NetOnly
  <2>2. QueuedIsOwn'
    BY <1>1, <2>1 DEF QueuedIsOwn, Leftovers
  <2>3. Players'
    BY <1>1, <1>2, <1>3, <1>4, <1>9, <1>12, <2>1 DEF Players, Queues, Teardown, Up, Sockets, Thread,
      Conn
  <2>4. SentIsOwn'
    BY <1>1, <1>2, <1>3, <1>4, <1>9, <1>12, <2>1 DEF SentIsOwn, Thread, Leftovers
  <2>5. KeptIsOld'
    BY <1>1, <1>2, <1>3, <1>4, <1>9, <1>12, <2>1 DEF KeptIsOld, Up, Queues, Players, Teardown,
      Thread, Leftovers
  <2> QED
    BY <2>2, <2>3, <2>4, <2>5 DEF Leftovers
<1>13. ASSUME NetOnly', ~log'.late, "escape" \notin log'.did
       PROVE  Leads'
  <2>1. Queues /\ Hellos /\ Players /\ Leftovers /\ Leads
    BY <1>1, <1>2, <1>3, <1>4, <1>13 DEF Sound, NetOnly
  <2>2. SentHelloSet'
    BY <1>1, <1>2, <1>3, <1>4, <1>9, <1>13, <2>1 DEF SentHelloSet, Queues, Players, Teardown,
      Thread, Leads, Up
  <2>3. NothingBefore'
    BY <1>1, <1>2, <1>3, <1>4, <1>9, <1>13, <2>1 DEF NothingBefore, Queues, Teardown, Players,
      Thread, SentHelloSet, Leads, Up
  <2>4. HelloLeads'
    BY <1>1, <1>2, <1>3, <1>4, <1>8, <1>9, <1>13, <2>1 DEF HelloLeads, HelloOnTheWay, Up, HelloOf,
      SentHelloSet, Queues, Teardown, Players, Thread, Leads
  <2> QED
    BY <2>2, <2>3, <2>4 DEF Leads
<1> QED
  BY <1>10, <1>11, <1>12, <1>13 DEF Sound

LEMMA DispatchedKeeps ==
  ASSUME Types, Types', Sound, Dispatched
  PROVE  Sound'
<1>1. UNCHANGED <<flags, queue, stream, player, return, packet, writer, batch, link, log, broken>>
  BY DEF Dispatched
<1>2. pc["net"] = "dispatch" /\ pc'["net"] = "tick" /\ pc'["win"] = pc["win"]
  BY DEF Dispatched, Goto, Types, Labels, Thread
<1>3. HelloInQueue' <=> HelloInQueue
  BY <1>1 DEF HelloInQueue, IsHello
<1>4. HelloOnWire' <=> HelloOnWire
  BY <1>1 DEF HelloOnWire, IsHello
<1>5. HelloInWriter' <=> HelloInWriter
  BY <1>1 DEF HelloInWriter, IsHello
<1>6. StreamGreeted' <=> StreamGreeted
  BY <1>1 DEF StreamGreeted, Greeted, Received, HelloOf
<1>7. Sockets
  BY DEF Sound
<1>8. Sockets'
  BY <1>1, <1>2, <1>7 DEF Sockets, Conn, Thread
<1>9. ASSUME NetOnly'
      PROVE  Queues' /\ Hellos'
  <2>1. Queues /\ Hellos
    BY <1>1, <1>2, <1>9 DEF Sound, NetOnly
  <2>2. HelloQueued' /\ QueuedNotReceived' /\ HelloReceived'
    BY <1>1, <2>1 DEF HelloQueued, IsHello, HelloOf, QueuedNotReceived, Up, HelloReceived, Received,
      Hellos, HelloInQueue, IsHello, HelloOnWire, IsHello
  <2>3. Queues'
    BY <1>1, <1>2, <1>7, <1>9, <2>1 DEF Queues, Teardown, Up, Sockets, Thread, Counted, Types, Conn
  <2>4. HelloPushed'
    BY <1>1, <1>2, <1>7, <1>9, <2>1 DEF HelloPushed, HelloOf, Queues, Thread, Hellos, Teardown, Up
  <2>5. NoneFromWin'
    BY <1>1, <1>2, <1>7, <1>9, <2>1 DEF NoneFromWin, IsHello, Queues, Teardown, Thread, Hellos, Up
  <2>6. HelloSent'
    BY <1>1, <1>2, <1>3, <1>4, <1>7, <1>9, <2>1 DEF HelloSent, IsHello, HelloOf, Queues, Thread,
      Hellos, Teardown, Up
  <2>7. NoneYet'
    BY <1>1, <1>2, <1>3, <1>4, <1>7, <1>9, <2>1 DEF NoneYet, Up, Queues, Thread, Hellos, Teardown
  <2>8. HelloKept'
    BY <1>1, <1>2, <1>5, <1>7, <1>9, <2>1 DEF HelloKept, Teardown, Queues, Thread, Hellos, Up
  <2> QED
    BY <2>2, <2>3, <2>4, <2>5, <2>6, <2>7, <2>8 DEF Hellos
<1>10. ASSUME NetOnly', ~log'.late
       PROVE  Players' /\ Leftovers'
  <2>1. Queues /\ Hellos /\ Players /\ Leftovers
    BY <1>1, <1>2, <1>10 DEF Sound, NetOnly
  <2>2. QueuedIsOwn'
    BY <1>1, <2>1 DEF QueuedIsOwn, Leftovers
  <2>3. Players'
    BY <1>1, <1>2, <1>7, <1>10, <2>1 DEF Players, Queues, Teardown, Up, Sockets, Thread, Conn
  <2>4. SentIsOwn'
    BY <1>1, <1>2, <1>7, <1>10, <2>1 DEF SentIsOwn, Thread, Leftovers
  <2>5. KeptIsOld'
    BY <1>1, <1>2, <1>7, <1>10, <2>1 DEF KeptIsOld, Up, Queues, Players, Teardown, Thread, Leftovers
  <2> QED
    BY <2>2, <2>3, <2>4, <2>5 DEF Leftovers
<1>11. ASSUME NetOnly', ~log'.late, "escape" \notin log'.did
       PROVE  Leads'
  <2>1. Queues /\ Hellos /\ Players /\ Leftovers /\ Leads
    BY <1>1, <1>2, <1>11 DEF Sound, NetOnly
  <2>2. SentHelloSet'
    BY <1>1, <1>2, <1>7, <1>11, <2>1 DEF SentHelloSet, Queues, Players, Teardown, Thread, Leads, Up
  <2>3. NothingBefore'
    BY <1>1, <1>2, <1>7, <1>11, <2>1 DEF NothingBefore, Queues, Teardown, Players, Thread, Leads, Up
  <2>4. HelloLeads'
    BY <1>1, <1>2, <1>6, <1>7, <1>11, <2>1 DEF HelloLeads, HelloOnTheWay, Up, HelloOf, SentHelloSet,
      Queues, Teardown, Players, Thread, Leads
  <2> QED
    BY <2>2, <2>3, <2>4 DEF Leads
<1> QED
  BY <1>8, <1>9, <1>10, <1>11 DEF Sound

LEMMA OnErrorKeeps ==
  ASSUME Types, Types', Sound, OnError
  PROVE  Sound'
<1>1. UNCHANGED <<flags, queue, stream, player, packet, writer, batch, link, log, broken>>
  BY DEF OnError
<1>2. /\ pc["net"] = "onError" /\ pc'["win"] = pc["win"]
      /\ \/ flags.connected /\ pc'["net"] = "disconnect" /\ UNCHANGED return
         \/ ~flags.connected /\ pc'["net"] = return["net"] /\ return'["net"] = "tick"
  BY DEF OnError, Goto, Return, Home, Types, Labels, Thread
<1>3. HelloInQueue' <=> HelloInQueue
  BY <1>1 DEF HelloInQueue, IsHello
<1>4. HelloOnWire' <=> HelloOnWire
  BY <1>1 DEF HelloOnWire, IsHello
<1>5. HelloInWriter' <=> HelloInWriter
  BY <1>1 DEF HelloInWriter, IsHello
<1>6. StreamGreeted' <=> StreamGreeted
  BY <1>1 DEF StreamGreeted, Greeted, Received, HelloOf
<1>7. Sockets
  BY DEF Sound
<1>8. Sockets'
  BY <1>1, <1>2, <1>7 DEF Sockets, Conn, Thread, Labels, Types, Home
<1>9. ASSUME NetOnly'
      PROVE  Queues' /\ Hellos'
  <2>1. Queues /\ Hellos
    BY <1>1, <1>2, <1>9 DEF Sound, NetOnly
  <2>2. HelloQueued' /\ QueuedNotReceived' /\ HelloReceived'
    BY <1>1, <2>1 DEF HelloQueued, IsHello, HelloOf, QueuedNotReceived, Up, HelloReceived, Received,
      Hellos, HelloInQueue, IsHello, HelloOnWire, IsHello
  <2>3. Queues'
    BY <1>1, <1>2, <1>7, <1>9, <2>1 DEF Queues, Teardown, Up, Sockets, Thread, Counted, Labels,
      Types, Home, Conn
  <2>4. HelloPushed'
    BY <1>1, <1>2, <1>7, <1>9, <2>1 DEF HelloPushed, HelloOf, Queues, Thread, Labels, Types, Home,
      Hellos, Teardown, Up
  <2>5. NoneFromWin'
    BY <1>1, <1>2, <1>7, <1>9, <2>1 DEF NoneFromWin, IsHello, Queues, Teardown, Thread, Hellos, Up
  <2>6. HelloSent'
    BY <1>1, <1>2, <1>3, <1>4, <1>7, <1>9, <2>1 DEF HelloSent, IsHello, HelloOf, Queues, Thread,
      Labels, Types, Home, Hellos, Teardown, Up
  <2>7. NoneYet'
    BY <1>1, <1>2, <1>3, <1>4, <1>7, <1>9, <2>1 DEF NoneYet, Up, Queues, Thread, Hellos, Teardown
  <2>8. HelloKept'
    BY <1>1, <1>2, <1>5, <1>7, <1>9, <2>1 DEF HelloKept, Teardown, Queues, Thread, Labels, Types,
      Home, Hellos, Up
  <2> QED
    BY <2>2, <2>3, <2>4, <2>5, <2>6, <2>7, <2>8 DEF Hellos
<1>10. ASSUME NetOnly', ~log'.late
       PROVE  Players' /\ Leftovers'
  <2>1. Queues /\ Hellos /\ Players /\ Leftovers
    BY <1>1, <1>2, <1>10 DEF Sound, NetOnly
  <2>2. QueuedIsOwn'
    BY <1>1, <2>1 DEF QueuedIsOwn, Leftovers
  <2>3. Players'
    BY <1>1, <1>2, <1>7, <1>10, <2>1 DEF Players, Queues, Teardown, Up, Sockets, Thread, Labels,
      Types, Home, Conn
  <2>4. SentIsOwn'
    BY <1>1, <1>2, <1>7, <1>10, <2>1 DEF SentIsOwn, Thread, Labels, Types, Home, Leftovers
  <2>5. KeptIsOld'
    BY <1>1, <1>2, <1>7, <1>10, <2>1 DEF KeptIsOld, Up, Queues, Players, Teardown, Thread, Leftovers
  <2> QED
    BY <2>2, <2>3, <2>4, <2>5 DEF Leftovers
<1>11. ASSUME NetOnly', ~log'.late, "escape" \notin log'.did
       PROVE  Leads'
  <2>1. Queues /\ Hellos /\ Players /\ Leftovers /\ Leads
    BY <1>1, <1>2, <1>11 DEF Sound, NetOnly
  <2>2. SentHelloSet'
    BY <1>1, <1>2, <1>7, <1>11, <2>1 DEF SentHelloSet, Queues, Players, Teardown, Thread, Leads, Up
  <2>3. NothingBefore'
    BY <1>1, <1>2, <1>7, <1>11, <2>1 DEF NothingBefore, Queues, Teardown, Players, Thread, Leads, Up
  <2>4. HelloLeads'
    BY <1>1, <1>2, <1>6, <1>7, <1>11, <2>1 DEF HelloLeads, HelloOnTheWay, Up, HelloOf, SentHelloSet,
      Queues, Teardown, Players, Thread, Leads
  <2> QED
    BY <2>2, <2>3, <2>4 DEF Leads
<1> QED
  BY <1>8, <1>9, <1>10, <1>11 DEF Sound

LEMMA PushKeeps ==
  ASSUME NEW t \in Thread, Types, Types', Sound, Push(t), broken' = NoBreak
  PROVE  Sound'
<1>1. UNCHANGED <<flags, stream, player, packet, writer, batch, link, log>>
  BY DEF Push
<1>2. /\ pc[t] = "push" /\ queue.state = "live" /\ queue'.state = "live"
      /\ queue'.items = Append(queue.items, packet[t])
  BY DEF Push, NoBreak, Types, QueueOK
<1>3. \/ /\ t = "net" /\ pc'["net"] = "set sent_hello" /\ return'["net"] = "tick"
         /\ pc'["win"] = pc["win"]
      \/ /\ t = "win" /\ pc'["win"] = "idle" /\ pc'["net"] = pc["net"] /\ return'["net"] = return["net"]
  <2>1. /\ pc'[t] = return[t] /\ return'[t] = Home(t)
        /\ \A u \in Thread \ {t} : pc'[u] = pc[u] /\ return'[u] = return[u]
    BY <1>2 DEF Push, Return, Goto, Types, Labels
  <2>2. CASE t = "net"
    BY <1>2, <2>1, <2>2 DEF Types, Labels, Home, Thread
  <2>3. CASE t = "win"
    BY <1>2, <2>1, <2>3 DEF Types, Labels, Home, Thread
  <2> QED
    BY <2>2, <2>3 DEF Thread
<1>4. /\ Len(queue'.items) = Len(queue.items) + 1 /\ Len(queue.items) \in Nat
      /\ queue'.items[Len(queue.items) + 1] = packet[t]
      /\ \A i \in 1..Len(queue.items) : queue'.items[i] = queue.items[i]
  <2>1. packet[t] \in Packet /\ queue.items \in Seq(Packet)
    BY DEF Types, PacketOK, QueueOK
  <2> DEFINE a == Append(queue.items, packet[t])
  <2>2. /\ Len(a) = Len(queue.items) + 1 /\ Len(queue.items) \in Nat
        /\ a[Len(queue.items) + 1] = packet[t]
        /\ \A i \in 1..Len(queue.items) : a[i] = queue.items[i]
    BY <2>1, AppendProperties
  <2> QED
    BY <1>2, <2>2
<1>5. HelloInQueue' <=> (HelloInQueue \/ IsHello(packet[t]))
  BY <1>1, <1>2, <1>4 DEF HelloInQueue, IsHello
<1>6. HelloOnWire' <=> HelloOnWire
  BY <1>1 DEF HelloOnWire, IsHello
<1>7. HelloInWriter' <=> HelloInWriter
  BY <1>1 DEF HelloInWriter, IsHello
<1>8. StreamGreeted' <=> StreamGreeted
  BY <1>1 DEF StreamGreeted, Greeted, Received, HelloOf
<1>9. Sockets
  BY DEF Sound
<1>10. Sockets'
  BY <1>1, <1>2, <1>3, <1>4, <1>9 DEF Sockets, Conn, Thread
<1>11. ASSUME NetOnly'
       PROVE  Queues' /\ Hellos'
  <2>1. Queues /\ Hellos
    BY <1>1, <1>2, <1>3, <1>4, <1>11 DEF Sound, NetOnly
  <2>2. HelloReceived'
    BY <1>1, <2>1 DEF HelloReceived, Received, Hellos
  <2>3. Queues'
    BY <1>1, <1>2, <1>3, <1>4, <1>9, <1>11, <2>1 DEF Queues, Teardown, Up, Sockets, Thread, Counted,
      Types, Conn
  <2>4. HelloPushed'
    BY <1>1, <1>2, <1>3, <1>4, <1>9, <1>11, <2>1 DEF HelloPushed, HelloOf, Queues, Thread, Hellos,
      Teardown, Up
  <2>5. NoneFromWin'
    BY <1>1, <1>2, <1>3, <1>4, <1>9, <1>11, <2>1 DEF NoneFromWin, IsHello, Queues, Teardown, Thread,
      Hellos, Up
  <2>6. HelloQueued'
    <3>1. IsHello(packet[t]) => packet[t] = HelloOf(stream) /\ ~HelloInQueue
      BY <1>2, <1>3, <2>1 DEF Hellos, HelloPushed, NoneFromWin, NoneYet, Queues, Up
    <3>2. \A i \in 1..Len(queue'.items) : queue'.items[i] = packet[t] \/ i \in 1..Len(queue.items)
      BY <1>4
    <3>3. \A i \in 1..Len(queue'.items) : IsHello(queue'.items[i]) => queue'.items[i] = HelloOf(stream)
      BY <1>4, <2>1, <3>1, <3>2 DEF Hellos, HelloQueued
    <3>4. \A i, j \in 1..Len(queue'.items) :
            IsHello(queue'.items[i]) /\ IsHello(queue'.items[j]) => i = j
      <4> SUFFICES ASSUME NEW i \in 1..Len(queue'.items), NEW j \in 1..Len(queue'.items),
                          IsHello(queue'.items[i]), IsHello(queue'.items[j])
                   PROVE  i = j
        OBVIOUS
      <4>1. CASE IsHello(packet[t])
        BY <1>4, <3>1, <4>1 DEF HelloInQueue
      <4>2. CASE ~IsHello(packet[t])
        BY <1>4, <2>1, <4>2, SMTT(30) DEF Hellos, HelloQueued
      <4> QED
        BY <4>1, <4>2
    <3> QED
      BY <1>1, <3>3, <3>4 DEF HelloQueued, IsHello, HelloOf
  <2>7. HelloSent'
    <3>1. CASE t = "net"
      BY <1>3, <3>1 DEF HelloSent
    <3>2. CASE t = "win"
      BY <1>1, <1>2, <1>3, <1>5, <1>6, <2>1, <3>2 DEF Hellos, HelloSent, NoneFromWin, IsHello, HelloOf
    <3> QED
      BY <3>1, <3>2 DEF Thread
  <2>8. QueuedNotReceived'
    <3>1. CASE IsHello(packet[t])
      BY <1>1, <1>2, <1>3, <1>6, <2>1, <3>1
      DEF Hellos, HelloPushed, NoneFromWin, NoneYet, Queues, QueuedNotReceived, Up
    <3>2. CASE ~IsHello(packet[t])
      BY <1>1, <1>2, <1>5, <1>6, <2>1, <3>2 DEF Hellos, QueuedNotReceived, Up
    <3> QED
      BY <3>1, <3>2
  <2>9. NoneYet'
    <3>1. CASE t = "net"
      BY <1>3, <3>1 DEF NoneYet
    <3>2. CASE t = "win"
      BY <1>1, <1>2, <1>3, <1>5, <1>6, <2>1, <3>2 DEF Hellos, NoneYet, NoneFromWin, Up
    <3> QED
      BY <3>1, <3>2 DEF Thread
  <2>10. HelloKept'
    BY <1>1, <1>2, <1>3, <1>4, <1>7, <1>9, <1>11, <2>1 DEF HelloKept, Teardown, Queues, Thread,
      Hellos, Up
  <2> QED
    BY <2>2, <2>3, <2>4, <2>5, <2>6, <2>7, <2>8, <2>9, <2>10 DEF Hellos
<1>12. ASSUME NetOnly', ~log'.late
       PROVE  Players' /\ Leftovers'
  <2>1. Queues /\ Hellos /\ Players /\ Leftovers
    BY <1>1, <1>2, <1>3, <1>4, <1>12 DEF Sound, NetOnly
  <2>2. Players'
    BY <1>1, <1>2, <1>3, <1>4, <1>9, <1>12, <2>1 DEF Players, Queues, Teardown, Up, Sockets, Thread,
      Conn
  <2>3. QueuedIsOwn'
    <3>1. \A i \in 1..Len(queue'.items) : queue'.items[i] = packet[t] \/ i \in 1..Len(queue.items)
      BY <1>4
    <3>2. packet[t].conn = stream
      BY <1>2, <1>3, <2>1 DEF Leftovers, SentIsOwn
    <3> QED
      BY <1>1, <1>4, <2>1, <3>1, <3>2 DEF Leftovers, QueuedIsOwn
  <2>4. SentIsOwn'
    BY <1>1, <1>2, <1>3, <1>4, <1>9, <1>12, <2>1 DEF SentIsOwn, Thread, Leftovers
  <2>5. KeptIsOld'
    BY <1>1, <1>2, <1>3, <1>4, <1>9, <1>12, <2>1 DEF KeptIsOld, Up, Queues, Players, Teardown,
      Thread, Leftovers
  <2> QED
    BY <2>2, <2>3, <2>4, <2>5 DEF Leftovers
<1>13. ASSUME NetOnly', ~log'.late, "escape" \notin log'.did
       PROVE  Leads'
  <2>1. Queues /\ Hellos /\ Players /\ Leftovers /\ Leads
    BY <1>1, <1>2, <1>3, <1>4, <1>13 DEF Sound, NetOnly
  <2>2. SentHelloSet'
    BY <1>1, <1>2, <1>3, <1>4, <1>9, <1>13, <2>1 DEF SentHelloSet, Queues, Players, Teardown,
      Thread, Leads, Up
  <2>3. NothingBefore'
    BY <1>1, <1>2, <1>3, <1>4, <1>9, <1>13, <2>1 DEF NothingBefore, Queues, Teardown, Players,
      Thread, Leads, Up
  <2>4. HelloLeads'
    <3>1. CASE t = "net"
      <4>1. queue.items = <<>> /\ packet[t] = HelloOf(stream)
        BY <1>2, <1>3, <2>1, <3>1 DEF Hellos, HelloPushed, Leads, NothingBefore, Queues
      <4>2. queue'.items # <<>> /\ queue'.items[1] = HelloOf(stream)
        <5>1. Len(queue.items) = 0
          BY <4>1
        <5> QED
          BY <1>4, <4>1, <5>1
      <4> QED
        BY <1>1, <1>3, <3>1, <4>2 DEF HelloLeads, HelloOnTheWay, HelloOf
    <3>2. CASE t = "win"
      <4>1. queue.items # <<>> => queue'.items # <<>> /\ queue'.items[1] = queue.items[1]
        <5>1. queue.items # <<>> => 1 \in 1..Len(queue.items)
          <6>1. queue.items \in Seq(Packet)
            BY DEF Types, QueueOK
          <6> QED
            BY <6>1
        <5> QED
          BY <1>4, <5>1
      <4> QED
        BY <1>1, <1>2, <1>3, <1>8, <2>1, <3>2, <4>1 DEF Leads, HelloLeads, HelloOnTheWay, HelloOf, Up
    <3> QED
      BY <3>1, <3>2 DEF Thread
  <2> QED
    BY <2>2, <2>3, <2>4 DEF Leads
<1> QED
  BY <1>10, <1>11, <1>12, <1>13 DEF Sound

LEMMA DisconnectCheckKeeps ==
  ASSUME NEW t \in Thread, Types, Types', Sound, DisconnectCheck(t)
  PROVE  Sound'
<1>1. UNCHANGED <<flags, queue, stream, player, return, packet, writer, batch, link, log, broken>>
  BY DEF DisconnectCheck
<1>2. /\ pc[t] = "disconnect" /\ pc'[t] = IF flags.connected THEN "deinit" ELSE "clear"
      /\ \A u \in Thread \ {t} : pc'[u] = pc[u]
  BY DEF DisconnectCheck, Goto, Types, Labels
<1>3. HelloInQueue' <=> HelloInQueue
  BY <1>1 DEF HelloInQueue, IsHello
<1>4. HelloOnWire' <=> HelloOnWire
  BY <1>1 DEF HelloOnWire, IsHello
<1>5. HelloInWriter' <=> HelloInWriter
  BY <1>1 DEF HelloInWriter, IsHello
<1>6. StreamGreeted' <=> StreamGreeted
  BY <1>1 DEF StreamGreeted, Greeted, Received, HelloOf
<1>7. Sockets
  BY DEF Sound
<1>8. Sockets'
  BY <1>1, <1>2, <1>7 DEF Sockets, Conn, Thread
<1>9. ASSUME NetOnly'
      PROVE  Queues' /\ Hellos'
  <2>1. Queues /\ Hellos
    BY <1>1, <1>2, <1>9 DEF Sound, NetOnly
  <2>2. t = "net"
    BY <1>1, <1>2, <2>1 DEF Queues, Teardown, Thread
  <2>3. HelloQueued' /\ QueuedNotReceived' /\ HelloReceived'
    BY <1>1, <2>1 DEF HelloQueued, IsHello, HelloOf, QueuedNotReceived, Up, HelloReceived, Received,
      Hellos, HelloInQueue, IsHello, HelloOnWire, IsHello
  <2>4. Queues'
    BY <1>1, <1>2, <1>7, <1>9, <2>1, <2>2 DEF Queues, Teardown, Up, Sockets, Thread, Counted, Types,
      Conn
  <2>5. HelloPushed'
    BY <1>1, <1>2, <1>7, <1>9, <2>1, <2>2 DEF HelloPushed, HelloOf, Queues, Thread, Hellos,
      Teardown, Up
  <2>6. NoneFromWin'
    BY <1>1, <1>2, <1>7, <1>9, <2>1, <2>2 DEF NoneFromWin, IsHello, Queues, Teardown, Thread,
      Hellos, Up
  <2>7. HelloSent'
    BY <1>1, <1>2, <1>3, <1>4, <1>7, <1>9, <2>1, <2>2 DEF HelloSent, IsHello, HelloOf, Queues,
      Thread, Hellos, Teardown, Up
  <2>8. NoneYet'
    BY <1>1, <1>2, <1>3, <1>4, <1>7, <1>9, <2>1, <2>2 DEF NoneYet, Up, Queues, Thread, Hellos,
      Teardown
  <2>9. HelloKept'
    BY <1>1, <1>2, <1>5, <1>7, <1>9, <2>1, <2>2 DEF HelloKept, Teardown, Queues, Thread, Hellos, Up
  <2> QED
    BY <2>3, <2>4, <2>5, <2>6, <2>7, <2>8, <2>9 DEF Hellos
<1>10. ASSUME NetOnly', ~log'.late
       PROVE  Players' /\ Leftovers'
  <2>1. Queues /\ Hellos /\ Players /\ Leftovers
    BY <1>1, <1>2, <1>10 DEF Sound, NetOnly
  <2>2. t = "net"
    BY <1>1, <1>2, <2>1 DEF Queues, Teardown, Thread
  <2>3. QueuedIsOwn'
    BY <1>1, <2>1 DEF QueuedIsOwn, Leftovers
  <2>4. Players'
    BY <1>1, <1>2, <1>7, <1>10, <2>1, <2>2 DEF Players, Queues, Teardown, Up, Sockets, Thread, Conn
  <2>5. SentIsOwn'
    BY <1>1, <1>2, <1>7, <1>10, <2>1, <2>2 DEF SentIsOwn, Thread, Leftovers
  <2>6. KeptIsOld'
    BY <1>1, <1>2, <1>7, <1>10, <2>1, <2>2 DEF KeptIsOld, Up, Queues, Players, Teardown, Thread,
      Leftovers
  <2> QED
    BY <2>3, <2>4, <2>5, <2>6 DEF Leftovers
<1>11. ASSUME NetOnly', ~log'.late, "escape" \notin log'.did
       PROVE  Leads'
  <2>1. Queues /\ Hellos /\ Players /\ Leftovers /\ Leads
    BY <1>1, <1>2, <1>11 DEF Sound, NetOnly
  <2>2. t = "net"
    BY <1>1, <1>2, <2>1 DEF Queues, Teardown, Thread
  <2>3. SentHelloSet'
    BY <1>1, <1>2, <1>7, <1>11, <2>1, <2>2 DEF SentHelloSet, Queues, Players, Teardown, Thread,
      Leads, Up
  <2>4. NothingBefore'
    BY <1>1, <1>2, <1>7, <1>11, <2>1, <2>2 DEF NothingBefore, Queues, Teardown, Players, Thread,
      Leads, Up
  <2>5. HelloLeads'
    BY <1>1, <1>2, <1>6, <1>7, <1>11, <2>1, <2>2 DEF HelloLeads, HelloOnTheWay, Up, HelloOf,
      SentHelloSet, Queues, Teardown, Players, Thread, Leads
  <2> QED
    BY <2>3, <2>4, <2>5 DEF Leads
<1> QED
  BY <1>8, <1>9, <1>10, <1>11 DEF Sound

LEMMA DeinitKeeps ==
  ASSUME NEW t \in Thread, Types, Types', Sound, Deinit(t), broken' = NoBreak
  PROVE  Sound'
<1>1. UNCHANGED <<flags, stream, player, return, packet, writer, batch, log>>
  BY DEF Deinit
<1>2. queue.state = "live"
  BY DEF Deinit, NoBreak
<1>3. /\ pc[t] = "deinit" /\ pc'[t] = "unset connected" /\ \A u \in Thread \ {t} : pc'[u] = pc[u]
  BY <1>2 DEF Deinit, Goto, Types, Labels
<1>4. queue'.state = "freed" /\ queue'.items = <<>> /\ Len(queue'.items) = 0
  <2>1. queue' = [state |-> "freed", items |-> <<>>]
    BY <1>2 DEF Deinit
  <2> QED
    BY <2>1
<1>5. /\ stream \in Conn /\ \A d \in Conn : link'[d].wire = link[d].wire /\ link'[d].server = link[d].server
      /\ link'[stream].client = "closed"
      /\ \A d \in Conn \ {stream} : link'[d].client = link[d].client
  BY <1>2, DeinitLink
<1>6. ~HelloInQueue'
  BY <1>4 DEF HelloInQueue, IsHello
<1>7. HelloOnWire' <=> HelloOnWire
  BY <1>1, <1>2, <1>3, <1>4, <1>5, ZenonT(60) DEF HelloOnWire, IsHello, Types, Counted, Sockets, Conn, Sound
<1>8. HelloInWriter' <=> HelloInWriter
  BY <1>1 DEF HelloInWriter, IsHello
<1>9. StreamGreeted' <=> StreamGreeted
  BY <1>1, <1>2, <1>3, <1>4, <1>5, ZenonT(60) DEF StreamGreeted, Greeted, Received, HelloOf, Types, Counted,
    Sockets, Conn, Sound
<1>10. Sockets
  BY DEF Sound
<1>11. Sockets'
  BY <1>1, <1>2, <1>3, <1>4, <1>5, <1>10 DEF Sockets, Conn, Thread
<1>12. ASSUME NetOnly'
       PROVE  Queues' /\ Hellos'
  <2>1. Queues /\ Hellos
    BY <1>1, <1>2, <1>3, <1>4, <1>5, <1>12 DEF Sound, NetOnly
  <2>2. t = "net"
    BY <1>1, <1>2, <1>3, <1>4, <1>5, <2>1 DEF Queues, Teardown, Thread
  <2>3. Queues'
    BY <1>1, <1>2, <1>3, <1>4, <1>5, <1>10, <1>12, <2>1, <2>2 DEF Queues, Teardown, Up, Sockets,
      Thread, Counted, Types, Conn
  <2>4. HelloPushed'
    BY <1>1, <1>2, <1>3, <1>4, <1>5, <1>10, <1>12, <2>1, <2>2 DEF HelloPushed, HelloOf, Queues,
      Thread, Hellos, Teardown, Up
  <2>5. NoneFromWin'
    BY <1>1, <1>2, <1>3, <1>4, <1>5, <1>10, <1>12, <2>1, <2>2 DEF NoneFromWin, IsHello, Queues,
      Teardown, Thread, Hellos, Up
  <2>6. HelloQueued'
    BY <1>4 DEF HelloQueued, IsHello, HelloOf
  <2>7. HelloSent'
    BY <1>1, <1>2, <1>3, <1>4, <1>5, <1>6, <1>7, <1>10, <1>12, <2>1, <2>2 DEF HelloSent, IsHello,
      HelloOf, Queues, Thread, Hellos, Teardown, Up
  <2>8. QueuedNotReceived'
    BY <1>1, <1>2, <1>3, <1>4, <1>5, <1>6, <1>7, <1>10, <1>12, <2>1, <2>2 DEF QueuedNotReceived, Up,
      Hellos
  <2>9. NoneYet'
    BY <1>1, <1>2, <1>3, <1>4, <1>5, <1>6, <1>7, <1>10, <1>12, <2>1, <2>2 DEF NoneYet, Up, Queues,
      Thread, Hellos, Teardown
  <2>10. HelloReceived'
    <3> SUFFICES ASSUME NEW d \in Conn
                 PROVE  /\ \A i \in Received(d)' : IsHello(link'[d].wire[i]) => link'[d].wire[i] = HelloOf(d)
                        /\ \A i, j \in Received(d)' :
                             IsHello(link'[d].wire[i]) /\ IsHello(link'[d].wire[j]) => i = j
      BY DEF HelloReceived, IsHello, HelloOf
    <3>1. link'[d].wire = link[d].wire
      BY <1>5
    <3> QED
      BY <2>1, <3>1 DEF Hellos, HelloReceived, Received
  <2>11. HelloKept'
    BY <1>1, <1>2, <1>3, <1>4, <1>5, <1>8, <1>10, <1>12, <2>1, <2>2 DEF HelloKept, Teardown, Queues,
      Thread, Hellos, Up
  <2> QED
    BY <2>3, <2>4, <2>5, <2>6, <2>7, <2>8, <2>9, <2>10, <2>11 DEF Hellos
<1>13. ASSUME NetOnly', ~log'.late
       PROVE  Players' /\ Leftovers'
  <2>1. Queues /\ Hellos /\ Players /\ Leftovers
    BY <1>1, <1>2, <1>3, <1>4, <1>5, <1>13 DEF Sound, NetOnly
  <2>2. t = "net"
    BY <1>1, <1>2, <1>3, <1>4, <1>5, <2>1 DEF Queues, Teardown, Thread
  <2>3. Players'
    BY <1>1, <1>2, <1>3, <1>4, <1>5, <1>10, <1>13, <2>1, <2>2 DEF Players, Queues, Teardown, Up,
      Sockets, Thread, Conn
  <2>4. QueuedIsOwn'
    BY <1>4 DEF QueuedIsOwn
  <2>5. SentIsOwn'
    BY <1>1, <1>2, <1>3, <1>4, <1>5, <1>10, <1>13, <2>1, <2>2 DEF SentIsOwn, Thread, Leftovers
  <2>6. KeptIsOld'
    BY <1>1, <1>2, <1>3, <1>4, <1>5, <1>10, <1>13, <2>1, <2>2 DEF KeptIsOld, Up, Queues, Players,
      Teardown, Thread, Leftovers
  <2> QED
    BY <2>3, <2>4, <2>5, <2>6 DEF Leftovers
<1>14. ASSUME NetOnly', ~log'.late, "escape" \notin log'.did
       PROVE  Leads'
  <2>1. Queues /\ Hellos /\ Players /\ Leftovers /\ Leads
    BY <1>1, <1>2, <1>3, <1>4, <1>5, <1>14 DEF Sound, NetOnly
  <2>2. t = "net"
    BY <1>1, <1>2, <1>3, <1>4, <1>5, <2>1 DEF Queues, Teardown, Thread
  <2>3. SentHelloSet'
    BY <1>1, <1>2, <1>3, <1>4, <1>5, <1>10, <1>14, <2>1, <2>2 DEF SentHelloSet, Queues, Players,
      Teardown, Thread, Leads, Up
  <2>4. NothingBefore'
    BY <1>1, <1>2, <1>3, <1>4, <1>5, <1>10, <1>14, <2>1, <2>2 DEF NothingBefore, Queues, Teardown,
      Players, Thread, Leads, Up
  <2>5. HelloLeads'
    BY <1>1, <1>2, <1>3, <1>4, <1>5, <1>9, <1>10, <1>14, <2>1, <2>2 DEF HelloLeads, HelloOnTheWay,
      Up, HelloOf, SentHelloSet, Queues, Teardown, Players, Thread, Leads
  <2> QED
    BY <2>3, <2>4, <2>5 DEF Leads
<1> QED
  BY <1>11, <1>12, <1>13, <1>14 DEF Sound

LEMMA UnsetConnectedKeeps ==
  ASSUME NEW t \in Thread, Types, Types', Sound, Unset(t, "connected", "unset connected", "unset selected_server")
  PROVE  Sound'
<1>1. UNCHANGED <<queue, stream, player, return, packet, writer, batch, link, log, broken>>
  BY DEF Unset
<1>2. /\ pc[t] = "unset connected" /\ pc'[t] = "unset selected_server" /\ \A u \in Thread \ {t} : pc'[u] = pc[u]
      /\ ~flags'.connected
      /\ flags'.selected_server = flags.selected_server /\ flags'.sent_hello = flags.sent_hello
  BY DEF Unset, Goto, Types, Labels, FlagsOK
<1>3. HelloInQueue' <=> HelloInQueue
  BY <1>1 DEF HelloInQueue, IsHello
<1>4. HelloOnWire' <=> HelloOnWire
  BY <1>1 DEF HelloOnWire, IsHello
<1>5. HelloInWriter' <=> HelloInWriter
  BY <1>1 DEF HelloInWriter, IsHello
<1>6. StreamGreeted' <=> StreamGreeted
  BY <1>1 DEF StreamGreeted, Greeted, Received, HelloOf
<1>7. Sockets
  BY DEF Sound
<1>8. Sockets'
  BY <1>1, <1>2, <1>7 DEF Sockets, Conn, Thread
<1>9. ASSUME NetOnly'
      PROVE  Queues' /\ Hellos'
  <2>1. Queues /\ Hellos
    BY <1>1, <1>2, <1>9 DEF Sound, NetOnly
  <2>2. t = "net"
    BY <1>1, <1>2, <2>1 DEF Queues, Teardown, Thread
  <2>3. HelloQueued' /\ HelloReceived'
    BY <1>1, <2>1 DEF HelloQueued, IsHello, HelloOf, HelloReceived, Received, Hellos
  <2>4. Queues'
    BY <1>1, <1>2, <1>7, <1>9, <2>1, <2>2 DEF Queues, Teardown, Up, Sockets, Thread, Counted, Types,
      Conn
  <2>5. HelloPushed'
    BY <1>1, <1>2, <1>7, <1>9, <2>1, <2>2 DEF HelloPushed, HelloOf, Queues, Thread, Hellos,
      Teardown, Up
  <2>6. NoneFromWin'
    BY <1>1, <1>2, <1>7, <1>9, <2>1, <2>2 DEF NoneFromWin, IsHello, Queues, Teardown, Thread,
      Hellos, Up
  <2>7. HelloSent'
    BY <1>1, <1>2, <1>3, <1>4, <1>7, <1>9, <2>1, <2>2 DEF HelloSent, IsHello, HelloOf, Queues,
      Thread, Hellos, Teardown, Up
  <2>8. QueuedNotReceived'
    BY <1>1, <1>2, <1>3, <1>4, <1>7, <1>9, <2>1, <2>2 DEF QueuedNotReceived, Up, Hellos
  <2>9. NoneYet'
    BY <1>1, <1>2, <1>3, <1>4, <1>7, <1>9, <2>1, <2>2 DEF NoneYet, Up, Queues, Thread, Hellos,
      Teardown
  <2>10. HelloKept'
    BY <1>1, <1>2, <1>5, <1>7, <1>9, <2>1, <2>2 DEF HelloKept, Teardown, Queues, Thread, Hellos, Up
  <2> QED
    BY <2>3, <2>4, <2>5, <2>6, <2>7, <2>8, <2>9, <2>10 DEF Hellos
<1>10. ASSUME NetOnly', ~log'.late
       PROVE  Players' /\ Leftovers'
  <2>1. Queues /\ Hellos /\ Players /\ Leftovers
    BY <1>1, <1>2, <1>10 DEF Sound, NetOnly
  <2>2. t = "net"
    BY <1>1, <1>2, <2>1 DEF Queues, Teardown, Thread
  <2>3. QueuedIsOwn'
    BY <1>1, <2>1 DEF QueuedIsOwn, Leftovers
  <2>4. Players'
    BY <1>1, <1>2, <1>7, <1>10, <2>1, <2>2 DEF Players, Queues, Teardown, Up, Sockets, Thread, Conn
  <2>5. SentIsOwn'
    BY <1>1, <1>2, <1>7, <1>10, <2>1, <2>2 DEF SentIsOwn, Thread, Leftovers
  <2>6. KeptIsOld'
    BY <1>1, <1>2, <1>7, <1>10, <2>1, <2>2 DEF KeptIsOld, Up, Queues, Players, Teardown, Thread,
      Leftovers
  <2> QED
    BY <2>3, <2>4, <2>5, <2>6 DEF Leftovers
<1>11. ASSUME NetOnly', ~log'.late, "escape" \notin log'.did
       PROVE  Leads'
  <2>1. Queues /\ Hellos /\ Players /\ Leftovers /\ Leads
    BY <1>1, <1>2, <1>11 DEF Sound, NetOnly
  <2>2. t = "net"
    BY <1>1, <1>2, <2>1 DEF Queues, Teardown, Thread
  <2>3. SentHelloSet'
    BY <1>1, <1>2, <1>7, <1>11, <2>1, <2>2 DEF SentHelloSet, Queues, Players, Teardown, Thread,
      Leads, Up
  <2>4. NothingBefore'
    BY <1>1, <1>2, <1>7, <1>11, <2>1, <2>2 DEF NothingBefore, Queues, Teardown, Players, Thread,
      Leads, Up
  <2>5. HelloLeads'
    BY <1>1, <1>2, <1>6, <1>7, <1>11, <2>1, <2>2 DEF HelloLeads, HelloOnTheWay, Up, HelloOf,
      SentHelloSet, Queues, Teardown, Players, Thread, Leads
  <2> QED
    BY <2>3, <2>4, <2>5 DEF Leads
<1> QED
  BY <1>8, <1>9, <1>10, <1>11 DEF Sound

LEMMA UnsetServerKeeps ==
  ASSUME NEW t \in Thread, Types, Types', Sound, Unset(t, "selected_server", "unset selected_server", "unset sent_hello")
  PROVE  Sound'
<1>1. UNCHANGED <<queue, stream, player, return, packet, writer, batch, link, log, broken>>
  BY DEF Unset
<1>2. /\ pc[t] = "unset selected_server" /\ pc'[t] = "unset sent_hello" /\ \A u \in Thread \ {t} : pc'[u] = pc[u]
      /\ ~flags'.selected_server
      /\ flags'.connected = flags.connected /\ flags'.sent_hello = flags.sent_hello
  BY DEF Unset, Goto, Types, Labels, FlagsOK
<1>3. HelloInQueue' <=> HelloInQueue
  BY <1>1 DEF HelloInQueue, IsHello
<1>4. HelloOnWire' <=> HelloOnWire
  BY <1>1 DEF HelloOnWire, IsHello
<1>5. HelloInWriter' <=> HelloInWriter
  BY <1>1 DEF HelloInWriter, IsHello
<1>6. StreamGreeted' <=> StreamGreeted
  BY <1>1 DEF StreamGreeted, Greeted, Received, HelloOf
<1>7. Sockets
  BY DEF Sound
<1>8. Sockets'
  BY <1>1, <1>2, <1>7 DEF Sockets, Conn, Thread
<1>9. ASSUME NetOnly'
      PROVE  Queues' /\ Hellos'
  <2>1. Queues /\ Hellos
    BY <1>1, <1>2, <1>9 DEF Sound, NetOnly
  <2>2. t = "net"
    BY <1>1, <1>2, <2>1 DEF Queues, Teardown, Thread
  <2>3. HelloQueued' /\ HelloReceived'
    BY <1>1, <2>1 DEF HelloQueued, IsHello, HelloOf, HelloReceived, Received, Hellos
  <2>4. Queues'
    BY <1>1, <1>2, <1>7, <1>9, <2>1, <2>2 DEF Queues, Teardown, Up, Sockets, Thread, Counted, Types,
      Conn
  <2>5. HelloPushed'
    BY <1>1, <1>2, <1>7, <1>9, <2>1, <2>2 DEF HelloPushed, HelloOf, Queues, Thread, Hellos,
      Teardown, Up
  <2>6. NoneFromWin'
    BY <1>1, <1>2, <1>7, <1>9, <2>1, <2>2 DEF NoneFromWin, IsHello, Queues, Teardown, Thread,
      Hellos, Up
  <2>7. HelloSent'
    BY <1>1, <1>2, <1>3, <1>4, <1>7, <1>9, <2>1, <2>2 DEF HelloSent, IsHello, HelloOf, Queues,
      Thread, Hellos, Teardown, Up
  <2>8. QueuedNotReceived'
    BY <1>1, <1>2, <1>3, <1>4, <1>7, <1>9, <2>1, <2>2 DEF QueuedNotReceived, Up, Hellos
  <2>9. NoneYet'
    BY <1>1, <1>2, <1>3, <1>4, <1>7, <1>9, <2>1, <2>2 DEF NoneYet, Up, Queues, Thread, Hellos,
      Teardown
  <2>10. HelloKept'
    BY <1>1, <1>2, <1>5, <1>7, <1>9, <2>1, <2>2 DEF HelloKept, Teardown, Queues, Thread, Hellos, Up
  <2> QED
    BY <2>3, <2>4, <2>5, <2>6, <2>7, <2>8, <2>9, <2>10 DEF Hellos
<1>10. ASSUME NetOnly', ~log'.late
       PROVE  Players' /\ Leftovers'
  <2>1. Queues /\ Hellos /\ Players /\ Leftovers
    BY <1>1, <1>2, <1>10 DEF Sound, NetOnly
  <2>2. t = "net"
    BY <1>1, <1>2, <2>1 DEF Queues, Teardown, Thread
  <2>3. QueuedIsOwn'
    BY <1>1, <2>1 DEF QueuedIsOwn, Leftovers
  <2>4. Players'
    BY <1>1, <1>2, <1>7, <1>10, <2>1, <2>2 DEF Players, Queues, Teardown, Up, Sockets, Thread, Conn
  <2>5. SentIsOwn'
    BY <1>1, <1>2, <1>7, <1>10, <2>1, <2>2 DEF SentIsOwn, Thread, Leftovers
  <2>6. KeptIsOld'
    BY <1>1, <1>2, <1>7, <1>10, <2>1, <2>2 DEF KeptIsOld, Up, Queues, Players, Teardown, Thread,
      Leftovers
  <2> QED
    BY <2>3, <2>4, <2>5, <2>6 DEF Leftovers
<1>11. ASSUME NetOnly', ~log'.late, "escape" \notin log'.did
       PROVE  Leads'
  <2>1. Queues /\ Hellos /\ Players /\ Leftovers /\ Leads
    BY <1>1, <1>2, <1>11 DEF Sound, NetOnly
  <2>2. t = "net"
    BY <1>1, <1>2, <2>1 DEF Queues, Teardown, Thread
  <2>3. SentHelloSet'
    BY <1>1, <1>2, <1>7, <1>11, <2>1, <2>2 DEF SentHelloSet, Queues, Players, Teardown, Thread,
      Leads, Up
  <2>4. NothingBefore'
    BY <1>1, <1>2, <1>7, <1>11, <2>1, <2>2 DEF NothingBefore, Queues, Teardown, Players, Thread,
      Leads, Up
  <2>5. HelloLeads'
    BY <1>1, <1>2, <1>6, <1>7, <1>11, <2>1, <2>2 DEF HelloLeads, HelloOnTheWay, Up, HelloOf,
      SentHelloSet, Queues, Teardown, Players, Thread, Leads
  <2> QED
    BY <2>3, <2>4, <2>5 DEF Leads
<1> QED
  BY <1>8, <1>9, <1>10, <1>11 DEF Sound

LEMMA UnsetHelloKeeps ==
  ASSUME NEW t \in Thread, Types, Types', Sound, Unset(t, "sent_hello", "unset sent_hello", "clear")
  PROVE  Sound'
<1>1. UNCHANGED <<queue, stream, player, return, packet, writer, batch, link, log, broken>>
  BY DEF Unset
<1>2. /\ pc[t] = "unset sent_hello" /\ pc'[t] = "clear" /\ \A u \in Thread \ {t} : pc'[u] = pc[u]
      /\ ~flags'.sent_hello
      /\ flags'.connected = flags.connected /\ flags'.selected_server = flags.selected_server
  BY DEF Unset, Goto, Types, Labels, FlagsOK
<1>3. HelloInQueue' <=> HelloInQueue
  BY <1>1 DEF HelloInQueue, IsHello
<1>4. HelloOnWire' <=> HelloOnWire
  BY <1>1 DEF HelloOnWire, IsHello
<1>5. HelloInWriter' <=> HelloInWriter
  BY <1>1 DEF HelloInWriter, IsHello
<1>6. StreamGreeted' <=> StreamGreeted
  BY <1>1 DEF StreamGreeted, Greeted, Received, HelloOf
<1>7. Sockets
  BY DEF Sound
<1>8. Sockets'
  BY <1>1, <1>2, <1>7 DEF Sockets, Conn, Thread
<1>9. ASSUME NetOnly'
      PROVE  Queues' /\ Hellos'
  <2>1. Queues /\ Hellos
    BY <1>1, <1>2, <1>9 DEF Sound, NetOnly
  <2>2. t = "net"
    BY <1>1, <1>2, <2>1 DEF Queues, Teardown, Thread
  <2>3. HelloQueued' /\ HelloReceived'
    BY <1>1, <2>1 DEF HelloQueued, IsHello, HelloOf, HelloReceived, Received, Hellos
  <2>4. Queues'
    BY <1>1, <1>2, <1>7, <1>9, <2>1, <2>2 DEF Queues, Teardown, Up, Sockets, Thread, Counted, Types,
      Conn
  <2>5. HelloPushed'
    BY <1>1, <1>2, <1>7, <1>9, <2>1, <2>2 DEF HelloPushed, HelloOf, Queues, Thread, Hellos,
      Teardown, Up
  <2>6. NoneFromWin'
    BY <1>1, <1>2, <1>7, <1>9, <2>1, <2>2 DEF NoneFromWin, IsHello, Queues, Teardown, Thread,
      Hellos, Up
  <2>7. HelloSent'
    BY <1>1, <1>2, <1>3, <1>4, <1>7, <1>9, <2>1, <2>2 DEF HelloSent, IsHello, HelloOf, Queues,
      Thread, Hellos, Teardown, Up
  <2>8. QueuedNotReceived'
    BY <1>1, <1>2, <1>3, <1>4, <1>7, <1>9, <2>1, <2>2 DEF QueuedNotReceived, Up, Hellos
  <2>9. NoneYet'
    BY <1>1, <1>2, <1>3, <1>4, <1>7, <1>9, <2>1, <2>2 DEF NoneYet, Up, Queues, Thread, Hellos,
      Teardown
  <2>10. HelloKept'
    BY <1>1, <1>2, <1>5, <1>7, <1>9, <2>1, <2>2 DEF HelloKept, Teardown, Queues, Thread, Hellos, Up
  <2> QED
    BY <2>3, <2>4, <2>5, <2>6, <2>7, <2>8, <2>9, <2>10 DEF Hellos
<1>10. ASSUME NetOnly', ~log'.late
       PROVE  Players' /\ Leftovers'
  <2>1. Queues /\ Hellos /\ Players /\ Leftovers
    BY <1>1, <1>2, <1>10 DEF Sound, NetOnly
  <2>2. t = "net"
    BY <1>1, <1>2, <2>1 DEF Queues, Teardown, Thread
  <2>3. QueuedIsOwn'
    BY <1>1, <2>1 DEF QueuedIsOwn, Leftovers
  <2>4. Players'
    BY <1>1, <1>2, <1>7, <1>10, <2>1, <2>2 DEF Players, Queues, Teardown, Up, Sockets, Thread, Conn
  <2>5. SentIsOwn'
    BY <1>1, <1>2, <1>7, <1>10, <2>1, <2>2 DEF SentIsOwn, Thread, Leftovers
  <2>6. KeptIsOld'
    BY <1>1, <1>2, <1>7, <1>10, <2>1, <2>2 DEF KeptIsOld, Up, Queues, Players, Teardown, Thread,
      Leftovers
  <2> QED
    BY <2>3, <2>4, <2>5, <2>6 DEF Leftovers
<1>11. ASSUME NetOnly', ~log'.late, "escape" \notin log'.did
       PROVE  Leads'
  <2>1. Queues /\ Hellos /\ Players /\ Leftovers /\ Leads
    BY <1>1, <1>2, <1>11 DEF Sound, NetOnly
  <2>2. t = "net"
    BY <1>1, <1>2, <2>1 DEF Queues, Teardown, Thread
  <2>3. SentHelloSet'
    BY <1>1, <1>2, <1>7, <1>11, <2>1, <2>2 DEF SentHelloSet, Queues, Players, Teardown, Thread,
      Leads, Up
  <2>4. NothingBefore'
    BY <1>1, <1>2, <1>7, <1>11, <2>1, <2>2 DEF NothingBefore, Queues, Teardown, Players, Thread,
      Leads, Up
  <2>5. HelloLeads'
    BY <1>1, <1>2, <1>6, <1>7, <1>11, <2>1, <2>2 DEF HelloLeads, HelloOnTheWay, Up, HelloOf,
      SentHelloSet, Queues, Teardown, Players, Thread, Leads
  <2> QED
    BY <2>3, <2>4, <2>5 DEF Leads
<1> QED
  BY <1>8, <1>9, <1>10, <1>11 DEF Sound

LEMMA ClearKeeps ==
  ASSUME NEW t \in Thread, Types, Types', Sound, Clear(t)
  PROVE  Sound'
<1>1. UNCHANGED <<flags, queue, stream, packet, writer, batch, link, log, broken>>
  BY DEF Clear
<1>2. /\ pc[t] = "clear" /\ pc'[t] = return[t] /\ return'[t] = Home(t)
      /\ \A u \in Thread \ {t} : pc'[u] = pc[u] /\ return'[u] = return[u]
      /\ ~player'.in_game /\ ~player'.local
  BY DEF Clear, Goto, Return, Types, Labels
<1>3. HelloInQueue' <=> HelloInQueue
  BY <1>1 DEF HelloInQueue, IsHello
<1>4. HelloOnWire' <=> HelloOnWire
  BY <1>1 DEF HelloOnWire, IsHello
<1>5. HelloInWriter' <=> HelloInWriter
  BY <1>1 DEF HelloInWriter, IsHello
<1>6. StreamGreeted' <=> StreamGreeted
  BY <1>1 DEF StreamGreeted, Greeted, Received, HelloOf
<1>7. Sockets
  BY DEF Sound
<1>8. Sockets'
  BY <1>1, <1>2, <1>7 DEF Sockets, Conn, Thread, Labels, Types, Home
<1>9. ASSUME NetOnly'
      PROVE  Queues' /\ Hellos'
  <2>1. Queues /\ Hellos
    BY <1>1, <1>2, <1>9 DEF Sound, NetOnly
  <2>2. t = "net"
    BY <1>1, <1>2, <2>1 DEF Queues, Teardown, Thread
  <2>3. HelloQueued' /\ QueuedNotReceived' /\ HelloReceived'
    BY <1>1, <2>1 DEF HelloQueued, IsHello, HelloOf, QueuedNotReceived, Up, HelloReceived, Received,
      Hellos, HelloInQueue, IsHello, HelloOnWire, IsHello
  <2>4. Queues'
    BY <1>1, <1>2, <1>7, <1>9, <2>1, <2>2 DEF Queues, Teardown, Up, Sockets, Thread, Counted,
      Labels, Types, Home, Conn
  <2>5. HelloPushed'
    BY <1>1, <1>2, <1>7, <1>9, <2>1, <2>2 DEF HelloPushed, HelloOf, Queues, Thread, Labels, Types,
      Home, Hellos, Teardown, Up
  <2>6. NoneFromWin'
    BY <1>1, <1>2, <1>7, <1>9, <2>1, <2>2 DEF NoneFromWin, IsHello, Queues, Teardown, Thread,
      Labels, Types, Home, Hellos, Up
  <2>7. HelloSent'
    BY <1>1, <1>2, <1>3, <1>4, <1>7, <1>9, <2>1, <2>2 DEF HelloSent, IsHello, HelloOf, Queues,
      Thread, Labels, Types, Home, Hellos, Teardown, Up
  <2>8. NoneYet'
    BY <1>1, <1>2, <1>3, <1>4, <1>7, <1>9, <2>1, <2>2 DEF NoneYet, Up, Queues, Thread, Hellos,
      Teardown
  <2>9. HelloKept'
    BY <1>1, <1>2, <1>5, <1>7, <1>9, <2>1, <2>2 DEF HelloKept, Teardown, Queues, Thread, Labels,
      Types, Home, Sockets, Conn, Hellos, Up
  <2> QED
    BY <2>3, <2>4, <2>5, <2>6, <2>7, <2>8, <2>9 DEF Hellos
<1>10. ASSUME NetOnly', ~log'.late
       PROVE  Players' /\ Leftovers'
  <2>1. Queues /\ Hellos /\ Players /\ Leftovers
    BY <1>1, <1>2, <1>10 DEF Sound, NetOnly
  <2>2. t = "net"
    BY <1>1, <1>2, <2>1 DEF Queues, Teardown, Thread
  <2>3. QueuedIsOwn'
    BY <1>1, <2>1 DEF QueuedIsOwn, Leftovers
  <2>4. Players'
    BY <1>1, <1>2, <1>7, <1>10, <2>1, <2>2 DEF Players, Queues, Teardown, Up, Sockets, Thread,
      Labels, Types, Home, Conn
  <2>5. SentIsOwn'
    BY <1>1, <1>2, <1>7, <1>10, <2>1, <2>2 DEF SentIsOwn, Thread, Labels, Types, Home, Leftovers
  <2>6. KeptIsOld'
    BY <1>1, <1>2, <1>7, <1>10, <2>1, <2>2 DEF KeptIsOld, Up, Queues, Players, Teardown, Thread,
      Leftovers
  <2> QED
    BY <2>3, <2>4, <2>5, <2>6 DEF Leftovers
<1>11. ASSUME NetOnly', ~log'.late, "escape" \notin log'.did
       PROVE  Leads'
  <2>1. Queues /\ Hellos /\ Players /\ Leftovers /\ Leads
    BY <1>1, <1>2, <1>11 DEF Sound, NetOnly
  <2>2. t = "net"
    BY <1>1, <1>2, <2>1 DEF Queues, Teardown, Thread
  <2>3. SentHelloSet'
    BY <1>1, <1>2, <1>7, <1>11, <2>1, <2>2 DEF SentHelloSet, Queues, Players, Teardown, Thread,
      Leads, Up
  <2>4. NothingBefore'
    BY <1>1, <1>2, <1>7, <1>11, <2>1, <2>2 DEF NothingBefore, Queues, Teardown, Players, Thread,
      Leads, Up
  <2>5. HelloLeads'
    BY <1>1, <1>2, <1>6, <1>7, <1>11, <2>1, <2>2 DEF HelloLeads, HelloOnTheWay, Up, HelloOf,
      SentHelloSet, Queues, Teardown, Players, Thread, Leads
  <2> QED
    BY <2>3, <2>4, <2>5 DEF Leads
<1> QED
  BY <1>8, <1>9, <1>10, <1>11 DEF Sound

LEMMA SelectCharacterKeeps ==
  ASSUME Types, Types', Sound, SelectCharacter
  PROVE  Sound'
<1>1. UNCHANGED <<queue, stream, pc, return, packet, writer, batch, link, log, broken>>
  BY DEF SelectCharacter
<1>2. /\ pc["win"] = "idle" /\ ~player.in_game /\ player'.in_game /\ player'.local = player.local
      /\ flags'.connected = flags.connected /\ flags'.sent_hello = flags.sent_hello
      /\ flags.selected_server => flags'.selected_server
  BY DEF SelectCharacter, Types, FlagsOK, PlayerOK
<1>3. HelloInQueue' <=> HelloInQueue
  BY <1>1 DEF HelloInQueue, IsHello
<1>4. HelloOnWire' <=> HelloOnWire
  BY <1>1 DEF HelloOnWire, IsHello
<1>5. StreamGreeted' <=> StreamGreeted
  BY <1>1 DEF StreamGreeted, Greeted, Received, HelloOf
<1>6. Sockets
  BY DEF Sound
<1>7. Sockets'
  BY <1>1, <1>2, <1>6 DEF Sockets, Conn, Thread
<1>8. ASSUME NetOnly'
      PROVE  Queues' /\ Hellos'
  <2>1. Queues /\ Hellos
    BY <1>1, <1>2, <1>8 DEF Sound, NetOnly
  <2>2. NoneFromWin' /\ HelloQueued' /\ HelloReceived' /\ HelloKept'
    BY <1>1, <2>1 DEF NoneFromWin, IsHello, HelloQueued, HelloOf, HelloReceived, Received,
      HelloKept, Teardown, Hellos, HelloInWriter, IsHello
  <2>3. Queues'
    BY <1>1, <1>2, <1>6, <1>8, <2>1 DEF Queues, Teardown, Up, Sockets, Thread, Counted, Types, Conn
  <2>4. HelloPushed'
    BY <1>1, <1>2, <1>6, <1>8, <2>1 DEF HelloPushed, HelloOf, Queues, Thread, Hellos, Teardown, Up
  <2>5. HelloSent'
    BY <1>1, <1>2, <1>3, <1>4, <1>6, <1>8, <2>1 DEF HelloSent, IsHello, HelloOf, Queues, Thread,
      Hellos, Teardown, Up
  <2>6. QueuedNotReceived'
    BY <1>1, <1>2, <1>3, <1>4, <1>6, <1>8, <2>1 DEF QueuedNotReceived, Up, Hellos
  <2>7. NoneYet'
    BY <1>1, <1>2, <1>3, <1>4, <1>6, <1>8, <2>1 DEF NoneYet, Up, Queues, Thread, Hellos, Teardown
  <2> QED
    BY <2>2, <2>3, <2>4, <2>5, <2>6, <2>7 DEF Hellos
<1>9. ASSUME NetOnly', ~log'.late
      PROVE  Players' /\ Leftovers'
  <2>1. Queues /\ Hellos /\ Players /\ Leftovers
    BY <1>1, <1>2, <1>9 DEF Sound, NetOnly
  <2>2. QueuedIsOwn' /\ SentIsOwn'
    BY <1>1, <2>1 DEF QueuedIsOwn, SentIsOwn, Leftovers
  <2>3. Players'
    BY <1>1, <1>2, <1>6, <1>9, <2>1 DEF Players, Queues, Teardown, Up, Sockets, Thread, Conn
  <2>4. KeptIsOld'
    BY <1>1, <1>2, <1>6, <1>9, <2>1 DEF KeptIsOld, Up, Queues, Players, Teardown, Thread, Leftovers
  <2> QED
    BY <2>2, <2>3, <2>4 DEF Leftovers
<1>10. ASSUME NetOnly', ~log'.late, "escape" \notin log'.did
       PROVE  Leads'
  <2>1. Queues /\ Hellos /\ Players /\ Leftovers /\ Leads
    BY <1>1, <1>2, <1>10 DEF Sound, NetOnly
  <2>2. SentHelloSet'
    BY <1>1, <1>2, <1>6, <1>10, <2>1 DEF SentHelloSet, Queues, Players, Teardown, Thread, Leads, Up
  <2>3. NothingBefore'
    BY <1>1, <1>2, <1>6, <1>10, <2>1 DEF NothingBefore, Queues, Teardown, Players, Thread, Leads, Up
  <2>4. HelloLeads'
    BY <1>1, <1>2, <1>5, <1>6, <1>10, <2>1 DEF HelloLeads, HelloOnTheWay, Up, HelloOf, SentHelloSet,
      Queues, Teardown, Players, Thread, Leads
  <2> QED
    BY <2>2, <2>3, <2>4 DEF Leads
<1> QED
  BY <1>7, <1>8, <1>9, <1>10 DEF Sound

LEMMA ActKeeps ==
  ASSUME Types, Types', Sound, Act
  PROVE  Sound'
<1>1. UNCHANGED <<flags, queue, stream, player, writer, batch, link, broken>>
  BY DEF Act
<1>2. /\ pc["win"] = "idle" /\ pc'["win"] = "push" /\ pc'["net"] = pc["net"] /\ return'["net"] = return["net"]
      /\ player.in_game /\ player.local /\ packet'["net"] = packet["net"]
      /\ packet'["win"].kind = "play" /\ packet'["win"].conn = stream
  BY DEF Act, Call, Goto, Types, Labels, PacketOK, For, Thread
<1>3. log'.did = log.did \cup {"act"} /\ log'.failed = log.failed /\ log'.late = log.late
  BY PlayedLog DEF Act, Types
<1>4. HelloInQueue' <=> HelloInQueue
  BY <1>1 DEF HelloInQueue, IsHello
<1>5. HelloOnWire' <=> HelloOnWire
  BY <1>1 DEF HelloOnWire, IsHello
<1>6. HelloInWriter' <=> HelloInWriter
  BY <1>1 DEF HelloInWriter, IsHello
<1>7. StreamGreeted' <=> StreamGreeted
  BY <1>1 DEF StreamGreeted, Greeted, Received, HelloOf
<1>8. Sockets
  BY DEF Sound
<1>9. Sockets'
  BY <1>1, <1>2, <1>3, <1>8 DEF Sockets, Conn, Thread
<1>10. ASSUME NetOnly'
       PROVE  Queues' /\ Hellos'
  <2>1. Queues /\ Hellos
    BY <1>1, <1>2, <1>3, <1>10 DEF Sound, NetOnly
  <2>2. HelloQueued' /\ QueuedNotReceived' /\ HelloReceived'
    BY <1>1, <2>1 DEF HelloQueued, IsHello, HelloOf, QueuedNotReceived, Up, HelloReceived, Received,
      Hellos, HelloInQueue, IsHello, HelloOnWire, IsHello
  <2>3. Queues'
    BY <1>1, <1>2, <1>3, <1>8, <1>10, <2>1 DEF Queues, Teardown, Up, Sockets, Thread, Counted,
      Types, Conn
  <2>4. HelloPushed'
    BY <1>1, <1>2, <1>3, <1>8, <1>10, <2>1 DEF HelloPushed, HelloOf, Queues, Thread, Hellos,
      Teardown, Up
  <2>5. NoneFromWin'
    BY <1>1, <1>2, <1>3, <1>8, <1>10, <2>1 DEF NoneFromWin, IsHello, Queues, Teardown, Thread,
      Hellos, Up
  <2>6. HelloSent'
    BY <1>1, <1>2, <1>3, <1>4, <1>5, <1>8, <1>10, <2>1 DEF HelloSent, IsHello, HelloOf, Queues,
      Thread, Hellos, Teardown, Up
  <2>7. NoneYet'
    BY <1>1, <1>2, <1>3, <1>4, <1>5, <1>8, <1>10, <2>1 DEF NoneYet, Up, Queues, Thread, Hellos,
      Teardown
  <2>8. HelloKept'
    BY <1>1, <1>2, <1>3, <1>6, <1>8, <1>10, <2>1 DEF HelloKept, Teardown, Queues, Thread, Hellos, Up
  <2> QED
    BY <2>2, <2>3, <2>4, <2>5, <2>6, <2>7, <2>8 DEF Hellos
<1>11. ASSUME NetOnly', ~log'.late
       PROVE  Players' /\ Leftovers'
  <2>1. Queues /\ Hellos /\ Players /\ Leftovers
    BY <1>1, <1>2, <1>3, <1>11 DEF Sound, NetOnly
  <2>2. QueuedIsOwn'
    BY <1>1, <2>1 DEF QueuedIsOwn, Leftovers
  <2>3. Players'
    BY <1>1, <1>2, <1>3, <1>8, <1>11, <2>1 DEF Players, Queues, Teardown, Up, Sockets, Thread, Conn
  <2>4. SentIsOwn'
    BY <1>1, <1>2, <1>3, <1>8, <1>11, <2>1 DEF SentIsOwn, Thread, Leftovers
  <2>5. KeptIsOld'
    BY <1>1, <1>2, <1>3, <1>8, <1>11, <2>1 DEF KeptIsOld, Up, Queues, Players, Teardown, Thread,
      Leftovers
  <2> QED
    BY <2>2, <2>3, <2>4, <2>5 DEF Leftovers
<1>12. ASSUME NetOnly', ~log'.late, "escape" \notin log'.did
       PROVE  Leads'
  <2>1. Queues /\ Hellos /\ Players /\ Leftovers /\ Leads
    BY <1>1, <1>2, <1>3, <1>12 DEF Sound, NetOnly
  <2>2. SentHelloSet'
    BY <1>1, <1>2, <1>3, <1>8, <1>12, <2>1 DEF SentHelloSet, Queues, Players, Teardown, Thread,
      Leads, Up
  <2>3. NothingBefore'
    BY <1>1, <1>2, <1>3, <1>8, <1>12, <2>1 DEF NothingBefore, Queues, Teardown, Players, Thread,
      Leads, Up
  <2>4. HelloLeads'
    BY <1>1, <1>2, <1>3, <1>7, <1>8, <1>12, <2>1 DEF HelloLeads, HelloOnTheWay, Up, HelloOf,
      SentHelloSet, Queues, Teardown, Players, Thread, Leads
  <2> QED
    BY <2>2, <2>3, <2>4 DEF Leads
<1> QED
  BY <1>9, <1>10, <1>11, <1>12 DEF Sound

LEMMA EscapeKeeps ==
  ASSUME Types, Types', Sound, Escape
  PROVE  Sound'
<1>1. UNCHANGED <<flags, queue, stream, player, return, packet, writer, batch, link, broken>>
  BY DEF Escape
<1>2. pc["win"] = "idle" /\ pc'["win"] = "escape" /\ pc'["net"] = pc["net"]
  BY DEF Escape, Goto, Types, Labels, Thread
<1>3. log'.did = log.did \cup {"escape"} /\ log'.failed = log.failed /\ log'.late = log.late
  BY PlayedLog DEF Escape, Types
<1>4. HelloInQueue' <=> HelloInQueue
  BY <1>1 DEF HelloInQueue, IsHello
<1>5. HelloOnWire' <=> HelloOnWire
  BY <1>1 DEF HelloOnWire, IsHello
<1>6. HelloInWriter' <=> HelloInWriter
  BY <1>1 DEF HelloInWriter, IsHello
<1>7. StreamGreeted' <=> StreamGreeted
  BY <1>1 DEF StreamGreeted, Greeted, Received, HelloOf
<1>8. Sockets
  BY DEF Sound
<1>9. Sockets'
  BY <1>1, <1>2, <1>3, <1>8 DEF Sockets, Conn, Thread
<1>10. ASSUME NetOnly'
       PROVE  Queues' /\ Hellos'
  <2>1. Queues /\ Hellos
    BY <1>1, <1>2, <1>3, <1>10 DEF Sound, NetOnly
  <2>2. HelloQueued' /\ QueuedNotReceived' /\ HelloReceived'
    BY <1>1, <2>1 DEF HelloQueued, IsHello, HelloOf, QueuedNotReceived, Up, HelloReceived, Received,
      Hellos, HelloInQueue, IsHello, HelloOnWire, IsHello
  <2>3. Queues'
    BY <1>1, <1>2, <1>3, <1>8, <1>10, <2>1 DEF Queues, Teardown, Up, Sockets, Thread, Counted,
      Types, Conn
  <2>4. HelloPushed'
    BY <1>1, <1>2, <1>3, <1>8, <1>10, <2>1 DEF HelloPushed, HelloOf, Queues, Thread, Hellos,
      Teardown, Up
  <2>5. NoneFromWin'
    BY <1>1, <1>2, <1>3, <1>8, <1>10, <2>1 DEF NoneFromWin, IsHello, Queues, Teardown, Thread,
      Hellos, Up
  <2>6. HelloSent'
    BY <1>1, <1>2, <1>3, <1>4, <1>5, <1>8, <1>10, <2>1 DEF HelloSent, IsHello, HelloOf, Queues,
      Thread, Hellos, Teardown, Up
  <2>7. NoneYet'
    BY <1>1, <1>2, <1>3, <1>4, <1>5, <1>8, <1>10, <2>1 DEF NoneYet, Up, Queues, Thread, Hellos,
      Teardown
  <2>8. HelloKept'
    BY <1>1, <1>2, <1>3, <1>6, <1>8, <1>10, <2>1 DEF HelloKept, Teardown, Queues, Thread, Hellos, Up
  <2> QED
    BY <2>2, <2>3, <2>4, <2>5, <2>6, <2>7, <2>8 DEF Hellos
<1>11. ASSUME NetOnly', ~log'.late
       PROVE  Players' /\ Leftovers'
  <2>1. Queues /\ Hellos /\ Players /\ Leftovers
    BY <1>1, <1>2, <1>3, <1>11 DEF Sound, NetOnly
  <2>2. QueuedIsOwn'
    BY <1>1, <2>1 DEF QueuedIsOwn, Leftovers
  <2>3. Players'
    BY <1>1, <1>2, <1>3, <1>8, <1>11, <2>1 DEF Players, Queues, Teardown, Up, Sockets, Thread, Conn
  <2>4. SentIsOwn'
    BY <1>1, <1>2, <1>3, <1>8, <1>11, <2>1 DEF SentIsOwn, Thread, Leftovers
  <2>5. KeptIsOld'
    BY <1>1, <1>2, <1>3, <1>8, <1>11, <2>1 DEF KeptIsOld, Up, Queues, Players, Teardown, Thread,
      Leftovers
  <2> QED
    BY <2>2, <2>3, <2>4, <2>5 DEF Leftovers
<1>12. ASSUME NetOnly', ~log'.late, "escape" \notin log'.did
       PROVE  Leads'
  BY <1>1, <1>2, <1>3, <1>12 DEF NetOnly
<1> QED
  BY <1>9, <1>10, <1>11, <1>12 DEF Sound

LEMMA EscapeDrainKeeps ==
  ASSUME Types, Types', Sound, EscapeDrain, broken' = NoBreak
  PROVE  Sound'
<1>1. UNCHANGED <<flags, stream, player, return, packet, writer, batch, link, log>>
  BY DEF EscapeDrain
<1>2. /\ pc["win"] = "escape" /\ pc'["win"] = "escape clear" /\ pc'["net"] = pc["net"]
      /\ queue.state = "live" /\ queue'.state = "live" /\ queue'.items = <<>>
  BY DEF EscapeDrain, Types, QueueOK, Goto, Labels, NoBreak, Thread
<1>3. queue'.items = <<>> /\ Len(queue'.items) = 0
  BY <1>2
<1>4. ~HelloInQueue'
  BY <1>3 DEF HelloInQueue, IsHello
<1>5. HelloOnWire' <=> HelloOnWire
  BY <1>1 DEF HelloOnWire, IsHello
<1>6. HelloInWriter' <=> HelloInWriter
  BY <1>1 DEF HelloInWriter, IsHello
<1>7. StreamGreeted' <=> StreamGreeted
  BY <1>1 DEF StreamGreeted, Greeted, Received, HelloOf
<1>8. Sockets
  BY DEF Sound
<1>9. Sockets'
  BY <1>1, <1>2, <1>3, <1>8 DEF Sockets, Conn, Thread
<1>10. ASSUME NetOnly'
       PROVE  Queues' /\ Hellos'
  <2>1. Queues /\ Hellos
    BY <1>1, <1>2, <1>3, <1>10 DEF Sound, NetOnly
  <2>2. HelloReceived'
    BY <1>1, <2>1 DEF HelloReceived, Received, Hellos
  <2>3. Queues'
    BY <1>1, <1>2, <1>3, <1>8, <1>10, <2>1 DEF Queues, Teardown, Up, Sockets, Thread, Counted,
      Types, Conn
  <2>4. HelloPushed'
    BY <1>1, <1>2, <1>3, <1>8, <1>10, <2>1 DEF HelloPushed, HelloOf, Queues, Thread, Hellos,
      Teardown, Up
  <2>5. NoneFromWin'
    BY <1>1, <1>2, <1>3, <1>8, <1>10, <2>1 DEF NoneFromWin, IsHello, Queues, Teardown, Thread,
      Hellos, Up
  <2>6. HelloQueued'
    BY <1>3 DEF HelloQueued, IsHello, HelloOf
  <2>7. HelloSent'
    BY <1>1, <1>2, <1>3, <1>4, <1>5, <1>8, <1>10, <2>1 DEF HelloSent, IsHello, HelloOf, Queues,
      Thread, Hellos, Teardown, Up
  <2>8. QueuedNotReceived'
    BY <1>1, <1>2, <1>3, <1>4, <1>5, <1>8, <1>10, <2>1 DEF QueuedNotReceived, Up, Hellos
  <2>9. NoneYet'
    BY <1>1, <1>2, <1>3, <1>4, <1>5, <1>8, <1>10, <2>1 DEF NoneYet, Up, Queues, Thread, Hellos,
      Teardown
  <2>10. HelloKept'
    BY <1>1, <1>2, <1>3, <1>6, <1>8, <1>10, <2>1 DEF HelloKept, Teardown, Queues, Thread, Hellos, Up
  <2> QED
    BY <2>2, <2>3, <2>4, <2>5, <2>6, <2>7, <2>8, <2>9, <2>10 DEF Hellos
<1>11. ASSUME NetOnly', ~log'.late
       PROVE  Players' /\ Leftovers'
  <2>1. Queues /\ Hellos /\ Players /\ Leftovers
    BY <1>1, <1>2, <1>3, <1>11 DEF Sound, NetOnly
  <2>2. Players'
    BY <1>1, <1>2, <1>3, <1>8, <1>11, <2>1 DEF Players, Queues, Teardown, Up, Sockets, Thread, Conn
  <2>3. QueuedIsOwn'
    BY <1>3 DEF QueuedIsOwn
  <2>4. SentIsOwn'
    BY <1>1, <1>2, <1>3, <1>8, <1>11, <2>1 DEF SentIsOwn, Thread, Leftovers
  <2>5. KeptIsOld'
    BY <1>1, <1>2, <1>3, <1>8, <1>11, <2>1 DEF KeptIsOld, Up, Queues, Players, Teardown, Thread,
      Leftovers
  <2> QED
    BY <2>2, <2>3, <2>4, <2>5 DEF Leftovers
<1>12. ASSUME NetOnly', ~log'.late, "escape" \notin log'.did
       PROVE  Leads'
  <2>1. Queues /\ Hellos /\ Players /\ Leftovers /\ Leads
    BY <1>1, <1>2, <1>3, <1>12 DEF Sound, NetOnly
  <2>2. SentHelloSet'
    BY <1>1, <1>2, <1>3, <1>8, <1>12, <2>1 DEF SentHelloSet, Queues, Players, Teardown, Thread,
      Leads, Up
  <2>3. NothingBefore'
    BY <1>1, <1>2, <1>3, <1>8, <1>12, <2>1 DEF NothingBefore, Queues, Teardown, Players, Thread,
      Leads, Up
  <2>4. HelloLeads'
    BY <1>1, <1>2, <1>3, <1>7, <1>8, <1>12, <2>1 DEF HelloLeads, HelloOnTheWay, Up, HelloOf,
      SentHelloSet, Queues, Teardown, Players, Thread, Leads
  <2> QED
    BY <2>2, <2>3, <2>4 DEF Leads
<1> QED
  BY <1>9, <1>10, <1>11, <1>12 DEF Sound

LEMMA EscapeClearKeeps ==
  ASSUME Types, Types', Sound, EscapeClear
  PROVE  Sound'
<1>1. UNCHANGED <<queue, stream, writer, batch, link, log, broken>>
  BY DEF EscapeClear
<1>2. /\ pc["win"] = "escape clear" /\ pc'["win"] = "push" /\ pc'["net"] = pc["net"] /\ return'["net"] = return["net"]
      /\ packet'["net"] = packet["net"] /\ packet'["win"].kind = "escape" /\ packet'["win"].conn = stream
      /\ player'.in_game = player.in_game /\ ~player'.local
      /\ flags'.connected = flags.connected /\ flags'.sent_hello = flags.sent_hello
      /\ flags'.selected_server = flags.selected_server
  BY DEF EscapeClear, Call, Goto, Types, Labels, FlagsOK, PlayerOK, PacketOK, For, Thread
<1>3. HelloInQueue' <=> HelloInQueue
  BY <1>1 DEF HelloInQueue, IsHello
<1>4. HelloOnWire' <=> HelloOnWire
  BY <1>1 DEF HelloOnWire, IsHello
<1>5. HelloInWriter' <=> HelloInWriter
  BY <1>1 DEF HelloInWriter, IsHello
<1>6. StreamGreeted' <=> StreamGreeted
  BY <1>1 DEF StreamGreeted, Greeted, Received, HelloOf
<1>7. Sockets
  BY DEF Sound
<1>8. Sockets'
  BY <1>1, <1>2, <1>7 DEF Sockets, Conn, Thread
<1>9. ASSUME NetOnly'
      PROVE  Queues' /\ Hellos'
  <2>1. Queues /\ Hellos
    BY <1>1, <1>2, <1>9 DEF Sound, NetOnly
  <2>2. HelloQueued' /\ HelloReceived'
    BY <1>1, <2>1 DEF HelloQueued, IsHello, HelloOf, HelloReceived, Received, Hellos
  <2>3. Queues'
    BY <1>1, <1>2, <1>7, <1>9, <2>1 DEF Queues, Teardown, Up, Sockets, Thread, Counted, Types, Conn
  <2>4. HelloPushed'
    BY <1>1, <1>2, <1>7, <1>9, <2>1 DEF HelloPushed, HelloOf, Queues, Thread, Hellos, Teardown, Up
  <2>5. NoneFromWin'
    BY <1>1, <1>2, <1>7, <1>9, <2>1 DEF NoneFromWin, IsHello, Queues, Teardown, Thread, Hellos, Up
  <2>6. HelloSent'
    BY <1>1, <1>2, <1>3, <1>4, <1>7, <1>9, <2>1 DEF HelloSent, IsHello, HelloOf, Queues, Thread,
      Hellos, Teardown, Up
  <2>7. QueuedNotReceived'
    BY <1>1, <1>2, <1>3, <1>4, <1>7, <1>9, <2>1 DEF QueuedNotReceived, Up, Hellos
  <2>8. NoneYet'
    BY <1>1, <1>2, <1>3, <1>4, <1>7, <1>9, <2>1 DEF NoneYet, Up, Queues, Thread, Hellos, Teardown
  <2>9. HelloKept'
    BY <1>1, <1>2, <1>5, <1>7, <1>9, <2>1 DEF HelloKept, Teardown, Queues, Thread, Hellos, Up
  <2> QED
    BY <2>2, <2>3, <2>4, <2>5, <2>6, <2>7, <2>8, <2>9 DEF Hellos
<1>10. ASSUME NetOnly', ~log'.late
       PROVE  Players' /\ Leftovers'
  <2>1. Queues /\ Hellos /\ Players /\ Leftovers
    BY <1>1, <1>2, <1>10 DEF Sound, NetOnly
  <2>2. QueuedIsOwn'
    BY <1>1, <2>1 DEF QueuedIsOwn, Leftovers
  <2>3. Players'
    BY <1>1, <1>2, <1>7, <1>10, <2>1 DEF Players, Queues, Teardown, Up, Sockets, Thread, Conn
  <2>4. SentIsOwn'
    BY <1>1, <1>2, <1>7, <1>10, <2>1 DEF SentIsOwn, Thread, Leftovers
  <2>5. KeptIsOld'
    BY <1>1, <1>2, <1>7, <1>10, <2>1 DEF KeptIsOld, Up, Queues, Players, Teardown, Thread, Leftovers
  <2> QED
    BY <2>2, <2>3, <2>4, <2>5 DEF Leftovers
<1>11. ASSUME NetOnly', ~log'.late, "escape" \notin log'.did
       PROVE  Leads'
  <2>1. Queues /\ Hellos /\ Players /\ Leftovers /\ Leads
    BY <1>1, <1>2, <1>11 DEF Sound, NetOnly
  <2>2. SentHelloSet'
    BY <1>1, <1>2, <1>7, <1>11, <2>1 DEF SentHelloSet, Queues, Players, Teardown, Thread, Leads, Up
  <2>3. NothingBefore'
    BY <1>1, <1>2, <1>7, <1>11, <2>1 DEF NothingBefore, Queues, Teardown, Players, Thread, Leads, Up
  <2>4. HelloLeads'
    BY <1>1, <1>2, <1>6, <1>7, <1>11, <2>1 DEF HelloLeads, HelloOnTheWay, Up, HelloOf, SentHelloSet,
      Queues, Teardown, Players, Thread, Leads
  <2> QED
    BY <2>2, <2>3, <2>4 DEF Leads
<1> QED
  BY <1>8, <1>9, <1>10, <1>11 DEF Sound

LEMMA DisconnectButtonKeeps ==
  ASSUME Types, Types', Sound, DisconnectButton
  PROVE  Sound'
<1>1. UNCHANGED <<flags, queue, stream, player, packet, writer, batch, link, broken>>
  BY DEF DisconnectButton
<1>2. pc["win"] = "idle" /\ pc'["win"] = "disconnect" /\ pc'["net"] = pc["net"]
  BY DEF DisconnectButton, Call, Goto, Types, Labels, Thread
<1>3. log'.did = log.did \cup {"disconnect"} /\ log'.failed = log.failed /\ log'.late = log.late
  BY PlayedLog DEF DisconnectButton, Types
<1>4. HelloInQueue' <=> HelloInQueue
  BY <1>1 DEF HelloInQueue, IsHello
<1>5. HelloOnWire' <=> HelloOnWire
  BY <1>1 DEF HelloOnWire, IsHello
<1>6. HelloInWriter' <=> HelloInWriter
  BY <1>1 DEF HelloInWriter, IsHello
<1>7. StreamGreeted' <=> StreamGreeted
  BY <1>1 DEF StreamGreeted, Greeted, Received, HelloOf
<1>8. Sockets
  BY DEF Sound
<1>9. Sockets'
  BY <1>1, <1>2, <1>3, <1>8 DEF Sockets, Conn, Thread
<1>10. ASSUME NetOnly'
       PROVE  Queues' /\ Hellos'
  BY <1>1, <1>2, <1>3, <1>10 DEF NetOnly
<1>11. ASSUME NetOnly', ~log'.late
       PROVE  Players' /\ Leftovers'
  BY <1>1, <1>2, <1>3, <1>11 DEF NetOnly
<1>12. ASSUME NetOnly', ~log'.late, "escape" \notin log'.did
       PROVE  Leads'
  BY <1>1, <1>2, <1>3, <1>12 DEF NetOnly
<1> QED
  BY <1>9, <1>10, <1>11, <1>12 DEF Sound

LEMMA ServerSendsKeeps ==
  ASSUME NEW c \in Conn, NEW kind \in S2C, Types, Types', Sound, ServerSends(c, kind)
  PROVE  Sound'
<1>1. UNCHANGED <<flags, queue, stream, player, pc, return, packet, writer, batch, log, broken>>
  BY DEF ServerSends
<1>2. stream \in Conn
  BY DEF ServerSends, Types, Counted, Conn
<1>3. \A d \in Conn : /\ link'[d].wire = link[d].wire /\ link'[d].client = link[d].client
                      /\ link'[d].server => link[d].server
  BY ServerSendsLink
<1>4. HelloInQueue' <=> HelloInQueue
  BY <1>1 DEF HelloInQueue, IsHello
<1>5. HelloOnWire' <=> HelloOnWire
  BY <1>1, <1>2, <1>3 DEF HelloOnWire, IsHello, Types, Counted, Sockets, Conn, Sound
<1>6. StreamGreeted' <=> StreamGreeted
  BY <1>1, <1>2, <1>3 DEF StreamGreeted, Greeted, Received, HelloOf, Types, Counted, Sockets, Conn,
    Sound
<1>7. Sockets
  BY DEF Sound
<1>8. Sockets'
  BY <1>1, <1>2, <1>3, <1>7 DEF Sockets, Conn, Thread
<1>9. ASSUME NetOnly'
      PROVE  Queues' /\ Hellos'
  <2>1. Queues /\ Hellos
    BY <1>1, <1>2, <1>3, <1>9 DEF Sound, NetOnly
  <2>2. Queues' /\ HelloPushed' /\ NoneFromWin' /\ HelloQueued' /\ HelloKept'
    BY <1>1, <2>1 DEF Queues, Teardown, Up, HelloPushed, HelloOf, NoneFromWin, IsHello, HelloQueued,
      HelloKept, Hellos, HelloInWriter, IsHello
  <2>3. HelloSent'
    BY <1>1, <1>2, <1>3, <1>4, <1>5, <1>7, <1>9, <2>1 DEF HelloSent, IsHello, HelloOf, Queues,
      Thread, Hellos, Teardown, Up
  <2>4. QueuedNotReceived'
    BY <1>1, <1>2, <1>3, <1>4, <1>5, <1>7, <1>9, <2>1 DEF QueuedNotReceived, Up, Hellos
  <2>5. NoneYet'
    BY <1>1, <1>2, <1>3, <1>4, <1>5, <1>7, <1>9, <2>1 DEF NoneYet, Up, Queues, Thread, Hellos,
      Teardown
  <2>6. HelloReceived'
    <3> SUFFICES ASSUME NEW d \in Conn
                 PROVE  /\ \A i \in Received(d)' : IsHello(link'[d].wire[i]) => link'[d].wire[i] = HelloOf(d)
                        /\ \A i, j \in Received(d)' :
                             IsHello(link'[d].wire[i]) /\ IsHello(link'[d].wire[j]) => i = j
      BY DEF HelloReceived, IsHello, HelloOf
    <3>1. link'[d].wire = link[d].wire
      BY <1>3
    <3> QED
      BY <2>1, <3>1 DEF Hellos, HelloReceived, Received
  <2> QED
    BY <2>2, <2>3, <2>4, <2>5, <2>6 DEF Hellos
<1>10. ASSUME NetOnly', ~log'.late
       PROVE  Players' /\ Leftovers'
  <2>1. Queues /\ Hellos /\ Players /\ Leftovers
    BY <1>1, <1>2, <1>3, <1>10 DEF Sound, NetOnly
  <2>2. Players' /\ QueuedIsOwn' /\ SentIsOwn' /\ KeptIsOld'
    BY <1>1, <2>1 DEF Players, QueuedIsOwn, SentIsOwn, KeptIsOld, Up, Leftovers
  <2> QED
    BY <2>2 DEF Leftovers
<1>11. ASSUME NetOnly', ~log'.late, "escape" \notin log'.did
       PROVE  Leads'
  <2>1. Queues /\ Hellos /\ Players /\ Leftovers /\ Leads
    BY <1>1, <1>2, <1>3, <1>11 DEF Sound, NetOnly
  <2>2. SentHelloSet' /\ NothingBefore'
    BY <1>1, <2>1 DEF SentHelloSet, NothingBefore, Leads
  <2>3. HelloLeads'
    BY <1>1, <1>2, <1>3, <1>6, <1>7, <1>11, <2>1 DEF HelloLeads, HelloOnTheWay, Up, HelloOf,
      SentHelloSet, Queues, Teardown, Players, Thread, Leads
  <2> QED
    BY <2>2, <2>3 DEF Leads
<1> QED
  BY <1>8, <1>9, <1>10, <1>11 DEF Sound

LEMMA ServerClosesKeeps ==
  ASSUME NEW c \in Conn, Types, Types', Sound, ServerCloses(c)
  PROVE  Sound'
<1>1. UNCHANGED <<flags, queue, stream, player, pc, return, packet, writer, batch, log, broken>>
  BY DEF ServerCloses
<1>2. stream \in Conn
  BY DEF ServerCloses, Types, Counted, Conn
<1>3. \A d \in Conn : /\ link'[d].wire = link[d].wire /\ link'[d].client = link[d].client
                      /\ link'[d].server => link[d].server
  BY ServerClosesLink
<1>4. HelloInQueue' <=> HelloInQueue
  BY <1>1 DEF HelloInQueue, IsHello
<1>5. HelloOnWire' <=> HelloOnWire
  BY <1>1, <1>2, <1>3 DEF HelloOnWire, IsHello, Types, Counted, Sockets, Conn, Sound
<1>6. StreamGreeted' <=> StreamGreeted
  BY <1>1, <1>2, <1>3 DEF StreamGreeted, Greeted, Received, HelloOf, Types, Counted, Sockets, Conn,
    Sound
<1>7. Sockets
  BY DEF Sound
<1>8. Sockets'
  BY <1>1, <1>2, <1>3, <1>7 DEF Sockets, Conn, Thread
<1>9. ASSUME NetOnly'
      PROVE  Queues' /\ Hellos'
  <2>1. Queues /\ Hellos
    BY <1>1, <1>2, <1>3, <1>9 DEF Sound, NetOnly
  <2>2. Queues' /\ HelloPushed' /\ NoneFromWin' /\ HelloQueued' /\ HelloKept'
    BY <1>1, <2>1 DEF Queues, Teardown, Up, HelloPushed, HelloOf, NoneFromWin, IsHello, HelloQueued,
      HelloKept, Hellos, HelloInWriter, IsHello
  <2>3. HelloSent'
    BY <1>1, <1>2, <1>3, <1>4, <1>5, <1>7, <1>9, <2>1 DEF HelloSent, IsHello, HelloOf, Queues,
      Thread, Hellos, Teardown, Up
  <2>4. QueuedNotReceived'
    BY <1>1, <1>2, <1>3, <1>4, <1>5, <1>7, <1>9, <2>1 DEF QueuedNotReceived, Up, Hellos
  <2>5. NoneYet'
    BY <1>1, <1>2, <1>3, <1>4, <1>5, <1>7, <1>9, <2>1 DEF NoneYet, Up, Queues, Thread, Hellos,
      Teardown
  <2>6. HelloReceived'
    <3> SUFFICES ASSUME NEW d \in Conn
                 PROVE  /\ \A i \in Received(d)' : IsHello(link'[d].wire[i]) => link'[d].wire[i] = HelloOf(d)
                        /\ \A i, j \in Received(d)' :
                             IsHello(link'[d].wire[i]) /\ IsHello(link'[d].wire[j]) => i = j
      BY DEF HelloReceived, IsHello, HelloOf
    <3>1. link'[d].wire = link[d].wire
      BY <1>3
    <3> QED
      BY <2>1, <3>1 DEF Hellos, HelloReceived, Received
  <2> QED
    BY <2>2, <2>3, <2>4, <2>5, <2>6 DEF Hellos
<1>10. ASSUME NetOnly', ~log'.late
       PROVE  Players' /\ Leftovers'
  <2>1. Queues /\ Hellos /\ Players /\ Leftovers
    BY <1>1, <1>2, <1>3, <1>10 DEF Sound, NetOnly
  <2>2. Players' /\ QueuedIsOwn' /\ SentIsOwn' /\ KeptIsOld'
    BY <1>1, <2>1 DEF Players, QueuedIsOwn, SentIsOwn, KeptIsOld, Up, Leftovers
  <2> QED
    BY <2>2 DEF Leftovers
<1>11. ASSUME NetOnly', ~log'.late, "escape" \notin log'.did
       PROVE  Leads'
  <2>1. Queues /\ Hellos /\ Players /\ Leftovers /\ Leads
    BY <1>1, <1>2, <1>3, <1>11 DEF Sound, NetOnly
  <2>2. SentHelloSet' /\ NothingBefore'
    BY <1>1, <2>1 DEF SentHelloSet, NothingBefore, Leads
  <2>3. HelloLeads'
    BY <1>1, <1>2, <1>3, <1>6, <1>7, <1>11, <2>1 DEF HelloLeads, HelloOnTheWay, Up, HelloOf,
      SentHelloSet, Queues, Teardown, Players, Thread, Leads
  <2> QED
    BY <2>2, <2>3 DEF Leads
<1> QED
  BY <1>8, <1>9, <1>10, <1>11 DEF Sound

-----------------------------------------------------------------------------
(* The properties of what the servers received: a step that sends nothing
   keeps them, and sendPacket does because of where the hello is. *)

LEMMA Unwritten ==
  ASSUME HelloOnce, HelloFirst, LeftoversFailed, Unsent
  PROVE  HelloOnce' /\ HelloFirst' /\ LeftoversFailed'
<1>1. HelloOnce'
  <2> SUFFICES ASSUME NetOnly', NEW c \in Conn,
                      NEW i \in 1..Len(link'[c].wire), NEW j \in 1..Len(link'[c].wire),
                      link'[c].wire[i] = HelloOf(c), link'[c].wire[j] = HelloOf(c)
               PROVE  i = j
    BY DEF HelloOnce, Received, HelloOf
  <2>1. link'[c].wire = link[c].wire /\ NetOnly
    BY DEF Unsent, NetOnly
  <2> QED
    BY <2>1 DEF HelloOnce, Received
<1>2. HelloFirst'
  <2> SUFFICES ASSUME NetOnly', ~log'.late, "escape" \notin log'.did, NEW c \in Conn,
                      NEW i \in 1..Len(link'[c].wire), link'[c].wire[i].conn = c
               PROVE  \E j \in 1..i : link'[c].wire[j] = HelloOf(c)
    BY DEF HelloFirst, Received, HelloOf
  <2>1. link'[c].wire = link[c].wire /\ NetOnly /\ ~log.late /\ "escape" \notin log.did
    BY DEF Unsent, NetOnly
  <2> QED
    BY <2>1 DEF HelloFirst, Received
<1>3. LeftoversFailed'
  <2> SUFFICES ASSUME NetOnly', NEW c \in Conn,
                      NEW i \in 1..Len(link'[c].wire), link'[c].wire[i].conn # c
               PROVE  link'[c].wire[i] \in log'.failed \/ log'.late
    BY DEF LeftoversFailed, Received
  <2>1. /\ link'[c].wire = link[c].wire /\ NetOnly
        /\ log.failed \subseteq log'.failed /\ (log.late => log'.late)
    BY DEF Unsent, NetOnly
  <2> QED
    BY <2>1 DEF LeftoversFailed, Received
<1> QED
  BY <1>1, <1>2, <1>3

LEMMA SendOnce ==
  ASSUME IInv, Types', Sound', Send
  PROVE  HelloOnce'
<1> SUFFICES ASSUME NetOnly', NEW c \in Conn,
                    NEW i \in 1..Len(link'[c].wire), NEW j \in 1..Len(link'[c].wire),
                    link'[c].wire[i] = HelloOf(c), link'[c].wire[j] = HelloOf(c)
             PROVE  i = j
  BY DEF HelloOnce, Received, HelloOf
<1>1. HelloReceived'
  BY DEF Sound, Hellos
<1>2. IsHello(link'[c].wire[i]) /\ IsHello(link'[c].wire[j])
  BY DEF IsHello, HelloOf
<1> QED
  BY <1>1, <1>2 DEF HelloReceived, Received, IsHello

LEMMA SendFirst ==
  ASSUME IInv, Sound, Send
  PROVE  HelloFirst'
<1> SUFFICES ASSUME NetOnly', ~log'.late, "escape" \notin log'.did, NEW c \in Conn,
                    NEW i \in 1..Len(link'[c].wire), link'[c].wire[i].conn = c
             PROVE  \E j \in 1..i : link'[c].wire[j] = HelloOf(c)
  BY DEF HelloFirst, Received, HelloOf
<1>0. Types /\ HelloFirst
  BY DEF IInv
<1>1. /\ pc["net"] = "send" /\ stream \in Conn
      /\ NetOnly /\ ~log.late /\ "escape" \notin log.did
      /\ \A d \in Conn \ {stream} : link'[d].wire = link[d].wire
  BY <1>0, SendEffect DEF NetOnly
<1>2. Sockets /\ Players /\ Leftovers /\ Leads
  BY <1>1 DEF Sound
<1>3. CASE link'[c].wire = link[c].wire
  BY <1>0, <1>1, <1>3 DEF HelloFirst, Received
<1>4. CASE c = stream /\ link'[c].wire # link[c].wire
  <2> DEFINE w == link[c].wire
             n == Len(w)
             s == link'[c].wire
  <2>1. /\ link[c].client = "open" /\ link[c].server
        /\ n \in Nat /\ Len(writer) \in Nat /\ Len(s) = n + Len(writer) + 1
        /\ \A k \in 1..n : s[k] = w[k]
        /\ \A k \in n + 1 .. n + Len(writer) : \E l \in 1..Len(writer) : s[k] = writer[l]
        /\ s[Len(s)] = packet["net"]
    BY <1>0, <1>4, SendWire
  <2>2. Up
    BY <1>2, <1>4, <2>1 DEF Sockets, Up
  <2>3. \A l \in 1..Len(writer) : writer[l].conn # c
    BY <1>1, <1>2, <1>4, <2>2 DEF Leftovers, KeptIsOld
  <2>4. \/ packet["net"] = HelloOf(c)
        \/ \E k \in 1..n : w[k] = HelloOf(c)
    <3>1. flags.sent_hello
      BY <1>1, <1>2, <2>2 DEF Leads, SentHelloSet, Up
    <3>2. HelloOnTheWay
      BY <1>2, <2>2, <3>1 DEF Leads, HelloLeads
    <3> QED
      BY <1>1, <1>4, <2>1, <3>2 DEF HelloOnTheWay, StreamGreeted, Greeted, Received
  <2>5. \A k \in 1..n : w[k].conn = c => \E j \in 1..k : w[j] = HelloOf(c)
    BY <1>0, <1>1 DEF HelloFirst, Received
  <2> HIDE DEF w, n, s
  <2>6. i \in 1..Len(s) /\ s[i].conn = c
    BY DEF s
  <2>7. CASE i \in 1..n
    <3>1. PICK j \in 1..i : w[j] = HelloOf(c)
      BY <2>1, <2>5, <2>6, <2>7
    <3>2. j \in 1..n /\ s[j] = w[j]
      BY <2>1, <2>7
    <3> QED
      BY <3>1, <3>2 DEF s
  <2>8. CASE i \in n + 1 .. n + Len(writer)
    BY <2>1, <2>3, <2>6, <2>8
  <2>9. CASE i = Len(s)
    <3>1. CASE packet["net"] = HelloOf(c)
      BY <2>1, <2>6, <2>9, <3>1 DEF s
    <3>2. CASE \E k \in 1..n : w[k] = HelloOf(c)
      <4>1. PICK k \in 1..n : w[k] = HelloOf(c)
        BY <3>2
      <4>2. k \in 1..i /\ s[k] = w[k]
        BY <2>1, <2>9
      <4> QED
        BY <4>1, <4>2 DEF s
    <3> QED
      BY <2>4, <3>1, <3>2
  <2> QED
    BY <2>1, <2>6, <2>7, <2>8, <2>9
<1> QED
  BY <1>1, <1>3, <1>4

LEMMA SendLeftovers ==
  ASSUME IInv, Sound, Send
  PROVE  LeftoversFailed'
<1> SUFFICES ASSUME NetOnly', ~log'.late, NEW c \in Conn,
                    NEW i \in 1..Len(link'[c].wire), link'[c].wire[i].conn # c
             PROVE  link'[c].wire[i] \in log'.failed
  BY DEF LeftoversFailed, Received
<1>0. Types /\ LeftoversFailed
  BY DEF IInv
<1>1. /\ pc["net"] = "send" /\ stream \in Conn /\ NetOnly /\ ~log.late
      /\ log.failed \subseteq log'.failed
      /\ \A d \in Conn \ {stream} : link'[d].wire = link[d].wire
  BY <1>0, SendEffect DEF NetOnly
<1>2. CASE link'[c].wire = link[c].wire
  BY <1>0, <1>1, <1>2 DEF LeftoversFailed, Received
<1>3. CASE c = stream /\ link'[c].wire # link[c].wire
  <2> DEFINE w == link[c].wire
             n == Len(w)
             s == link'[c].wire
  <2>1. /\ n \in Nat /\ Len(writer) \in Nat /\ Len(s) = n + Len(writer) + 1
        /\ \A k \in 1..n : s[k] = w[k]
        /\ \A k \in n + 1 .. n + Len(writer) : \E l \in 1..Len(writer) : s[k] = writer[l]
        /\ s[Len(s)] = packet["net"]
    BY <1>0, <1>3, SendWire
  <2>2. \A l \in 1..Len(writer) : writer[l] \in log.failed
    BY <1>0 DEF Types, BuffersOK
  <2>3. packet["net"].conn = c
    BY <1>1, <1>3 DEF Sound, Leftovers, SentIsOwn
  <2>4. \A k \in 1..n : w[k].conn # c => w[k] \in log.failed
    BY <1>0, <1>1 DEF LeftoversFailed, Received
  <2> HIDE DEF w, n, s
  <2>5. i \in 1..Len(s) /\ s[i].conn # c
    BY DEF s
  <2>6. s[i] \in log.failed
    <3>1. CASE i \in 1..n
      BY <2>1, <2>4, <2>5, <3>1
    <3>2. CASE i \in n + 1 .. n + Len(writer)
      BY <2>1, <2>2, <3>2
    <3>3. CASE i = Len(s)
      BY <2>1, <2>3, <2>5, <3>3
    <3> QED
      BY <2>1, <2>5, <3>1, <3>2, <3>3
  <2> QED
    BY <1>1, <2>6 DEF s
<1> QED
  BY <1>1, <1>2, <1>3

-----------------------------------------------------------------------------
(* The steps together. *)

\* The program breaks in four places, and then nothing but broken changes.
LEMMA Breaks ==
  ASSUME IInv, broken = NoBreak, broken' # NoBreak,
         NEW t \in Thread, Drain \/ EscapeDrain \/ Push(t) \/ Deinit(t)
  PROVE  IInv'
<1>1. Types /\ Sockets /\ (NetOnly => Queues)
  BY DEF IInv, Sound
<1>2. queue.state # "live"
  BY DEF Drain, EscapeDrain, Push, Deinit
<1>3. UNCHANGED <<flags, queue, stream, player, pc, return, packet, writer, batch, link, log>>
  BY <1>2 DEF Drain, EscapeDrain, Push, Deinit
<1>4. Types'
  BY <1>1, <1>3 DEF Types, FlagsOK, QueueOK, PlayerOK, PacketOK, BuffersOK, LinkOK, LogOK,
    Counted, Labels
<1>5. Sockets'
  BY <1>1, <1>3 DEF Sockets
<1>6. HelloOnce' /\ HelloFirst' /\ LeftoversFailed'
  BY <1>3, Unwritten DEF IInv, Unsent
<1>7. TouchesWhenGone'
  <2> SUFFICES ASSUME NetOnly
               PROVE  \/ broken'.thread = "net" /\ broken'.op = "pop" /\ log.failed # {}
                      \/ broken'.thread = "win" /\ (broken'.state = "none" => "escape" \in log.did)
    BY <1>3 DEF TouchesWhenGone, NetOnly
  <2>1. CASE Drain
    <3>1. pc["net"] = "drain" /\ broken' = [thread |-> "net", op |-> "pop", state |-> queue.state]
      BY <1>2, <2>1 DEF Drain
    <3> QED
      BY <1>1, <1>2, <3>1 DEF Queues, Up
  <2>2. CASE EscapeDrain
    <3>1. pc["win"] = "escape" /\ broken' = [thread |-> "win", op |-> "pop", state |-> queue.state]
      BY <1>2, <2>2 DEF EscapeDrain
    <3> QED
      BY <1>1, <3>1 DEF Queues
  <2>3. CASE Push(t)
    <3>1. pc[t] = "push" /\ broken' = [thread |-> t, op |-> "push", state |-> queue.state]
      BY <1>2, <2>3 DEF Push
    <3>2. t = "win"
      <4>1. pc["net"] = "push" => queue.state = "live"
        BY <1>1 DEF Queues
      <4>2. t = "net" \/ t = "win"
        BY DEF Thread
      <4> QED
        BY <1>2, <3>1, <4>1, <4>2
    <3>3. stream # 0
      BY <1>1, <3>1, <3>2 DEF Queues
    <3>4. queue.state # "none"
      BY <1>1, <3>3 DEF Types, Counted
    <3> QED
      BY <3>1, <3>2, <3>4
  <2>4. CASE Deinit(t)
    <3>1. pc[t] = "deinit"
      BY <2>4 DEF Deinit
    <3> QED
      BY <1>1, <1>2, <3>1 DEF Queues, Teardown, Thread
  <2> QED
    BY <2>1, <2>2, <2>3, <2>4
<1> QED
  BY <1>4, <1>5, <1>6, <1>7 DEF IInv

\* Any other step that sends nothing.
LEMMA Quiet ==
  ASSUME IInv, broken' = NoBreak, Types', Sound', Unsent
  PROVE  IInv'
<1>1. HelloOnce' /\ HelloFirst' /\ LeftoversFailed'
  BY Unwritten DEF IInv
<1>2. TouchesWhenGone'
  BY DEF TouchesWhenGone, NoBreak
<1> QED
  BY <1>1, <1>2 DEF IInv, Sound

\* The network thread.
LEMMA NetStep ==
  ASSUME IInv, broken = NoBreak, Net
  PROVE  IInv'
<1>1. Types /\ Sound /\ IInv
  BY DEF IInv
<1>2. CASE Tick
  <2>1. Types' /\ Sound'
    BY <1>1, <1>2, TickTypes, TickKeeps
  <2>2. Unsent /\ broken' = NoBreak
    BY <1>1, <1>2 DEF Tick, Unsent
  <2> QED
    BY <1>1, <2>1, <2>2, Quiet
<1>3. CASE Connect
  <2>1. Types' /\ Sound'
    BY <1>1, <1>3, ConnectTypes, ConnectKeeps
  <2>2. Unsent /\ broken' = NoBreak
    BY <1>1, ConnectEffect, <1>3 DEF Connect, Unsent
  <2> QED
    BY <1>1, <2>1, <2>2, Quiet
<1>4. CASE Hello
  <2>1. Types' /\ Sound'
    BY <1>1, <1>4, HelloTypes, HelloKeeps
  <2>2. Unsent /\ broken' = NoBreak
    BY <1>1, <1>4 DEF Hello, Unsent
  <2> QED
    BY <1>1, <2>1, <2>2, Quiet
<1>5. CASE SetSentHello
  <2>1. Types' /\ Sound'
    BY <1>1, <1>5, SetSentHelloTypes, SetSentHelloKeeps
  <2>2. Unsent /\ broken' = NoBreak
    BY <1>1, <1>5 DEF SetSentHello, Unsent
  <2> QED
    BY <1>1, <2>1, <2>2, Quiet
<1>6. CASE Drain
  <2>1. CASE broken' # NoBreak
    BY <1>1, <1>6, <2>1, Breaks DEF Thread
  <2>2. CASE broken' = NoBreak
    <3>1. Types' /\ Sound'
      BY <1>1, <1>6, <2>2, DrainTypes, DrainKeeps
    <3>2. Unsent
      BY <1>6 DEF Drain, Unsent
    <3> QED
      BY <1>1, <2>2, <3>1, <3>2, Quiet
  <2> QED
    BY <2>1, <2>2
<1>7. CASE Send
  <2>1. Types' /\ Sound'
    BY <1>7, <1>1, SendTypes, SendKeeps
  <2>2. HelloOnce' /\ HelloFirst' /\ LeftoversFailed' /\ broken' = NoBreak
    BY <1>1, <1>7, <2>1, SendOnce, SendFirst, SendLeftovers DEF Send
  <2> QED
    BY <2>1, <2>2 DEF IInv, Sound, TouchesWhenGone, NoBreak
<1>8. CASE Read
  <2>1. Types' /\ Sound'
    BY <1>1, <1>8, ReadTypes, ReadKeeps
  <2>2. Unsent /\ broken' = NoBreak
    BY <1>1, ReadLink, <1>8 DEF Read, Unsent
  <2> QED
    BY <1>1, <2>1, <2>2, Quiet
<1>9. CASE Dispatch
  <2>1. Types' /\ Sound'
    BY <1>1, <1>9, DispatchTypes, DispatchKeeps
  <2>2. Unsent /\ broken' = NoBreak
    BY <1>1, <1>9 DEF Dispatch, Types, LogOK, Unsent
  <2> QED
    BY <1>1, <2>1, <2>2, Quiet
<1>10. CASE Dispatched
  <2>1. Types' /\ Sound'
    BY <1>1, <1>10, DispatchedTypes, DispatchedKeeps
  <2>2. Unsent /\ broken' = NoBreak
    BY <1>1, <1>10 DEF Dispatched, Unsent
  <2> QED
    BY <1>1, <2>1, <2>2, Quiet
<1>11. CASE OnError
  <2>1. Types' /\ Sound'
    BY <1>1, <1>11, OnErrorTypes, OnErrorKeeps
  <2>2. Unsent /\ broken' = NoBreak
    BY <1>1, <1>11 DEF OnError, Unsent
  <2> QED
    BY <1>1, <2>1, <2>2, Quiet
<1> QED
  BY <1>2, <1>3, <1>4, <1>5, <1>6, <1>7, <1>8, <1>9, <1>10, <1>11 DEF Net

\* The window thread.
LEMMA WinStep ==
  ASSUME IInv, broken = NoBreak, Win
  PROVE  IInv'
<1>1. Types /\ Sound /\ IInv
  BY DEF IInv
<1>2. CASE SelectCharacter
  <2>1. Types' /\ Sound'
    BY <1>1, <1>2, SelectCharacterTypes, SelectCharacterKeeps
  <2>2. Unsent /\ broken' = NoBreak
    BY <1>1, <1>2 DEF SelectCharacter, Unsent
  <2> QED
    BY <1>1, <2>1, <2>2, Quiet
<1>3. CASE Act
  <2>1. Types' /\ Sound'
    BY <1>1, <1>3, ActTypes, ActKeeps
  <2>2. Unsent /\ broken' = NoBreak
    BY <1>1, PlayedLog, <1>3 DEF Act, Types, Unsent
  <2> QED
    BY <1>1, <2>1, <2>2, Quiet
<1>4. CASE Escape
  <2>1. Types' /\ Sound'
    BY <1>1, <1>4, EscapeTypes, EscapeKeeps
  <2>2. Unsent /\ broken' = NoBreak
    BY <1>1, PlayedLog, <1>4 DEF Escape, Types, Unsent
  <2> QED
    BY <1>1, <2>1, <2>2, Quiet
<1>5. CASE EscapeDrain
  <2>1. CASE broken' # NoBreak
    BY <1>1, <1>5, <2>1, Breaks DEF Thread
  <2>2. CASE broken' = NoBreak
    <3>1. Types' /\ Sound'
      BY <1>1, <1>5, <2>2, EscapeDrainTypes, EscapeDrainKeeps
    <3>2. Unsent
      BY <1>5 DEF EscapeDrain, Unsent
    <3> QED
      BY <1>1, <2>2, <3>1, <3>2, Quiet
  <2> QED
    BY <2>1, <2>2
<1>6. CASE EscapeClear
  <2>1. Types' /\ Sound'
    BY <1>1, <1>6, EscapeClearTypes, EscapeClearKeeps
  <2>2. Unsent /\ broken' = NoBreak
    BY <1>1, <1>6 DEF EscapeClear, Unsent
  <2> QED
    BY <1>1, <2>1, <2>2, Quiet
<1>7. CASE DisconnectButton
  <2>1. Types' /\ Sound'
    BY <1>1, <1>7, DisconnectButtonTypes, DisconnectButtonKeeps
  <2>2. Unsent /\ broken' = NoBreak
    BY <1>1, PlayedLog, <1>7 DEF DisconnectButton, Types, Unsent
  <2> QED
    BY <1>1, <2>1, <2>2, Quiet
<1> QED
  BY <1>2, <1>3, <1>4, <1>5, <1>6, <1>7 DEF Win

\* What either thread does.
LEMMA DisconnectStep ==
  ASSUME IInv, broken = NoBreak, NEW t \in Thread, Push(t) \/ Disconnect(t)
  PROVE  IInv'
<1>1. Types /\ Sound /\ IInv
  BY DEF IInv
<1>2. CASE Push(t)
  <2>1. CASE broken' # NoBreak
    BY <1>1, <1>2, <2>1, Breaks
  <2>2. CASE broken' = NoBreak
    <3>1. Types' /\ Sound'
      BY <1>1, <1>2, <2>2, PushTypes, PushKeeps
    <3>2. Unsent
      BY <1>2 DEF Push, Unsent
    <3> QED
      BY <1>1, <2>2, <3>1, <3>2, Quiet
  <2> QED
    BY <2>1, <2>2
<1>3. CASE DisconnectCheck(t)
  <2>1. Types' /\ Sound'
    BY <1>1, <1>3, DisconnectCheckTypes, DisconnectCheckKeeps
  <2>2. Unsent /\ broken' = NoBreak
    BY <1>1, <1>3 DEF DisconnectCheck, Unsent
  <2> QED
    BY <1>1, <2>1, <2>2, Quiet
<1>4. CASE Deinit(t)
  <2>1. CASE broken' # NoBreak
    BY <1>1, <1>4, <2>1, Breaks
  <2>2. CASE broken' = NoBreak
    <3>1. Types' /\ Sound'
      BY <1>1, <1>4, <2>2, DeinitTypes, DeinitKeeps
    <3>2. queue.state = "live" /\ UNCHANGED log
      BY <1>4, <2>2 DEF Deinit, NoBreak
    <3>3. Unsent
      BY <1>1, <1>4, <3>2, DeinitLink DEF Unsent
    <3> QED
      BY <1>1, <2>2, <3>1, <3>3, Quiet
  <2> QED
    BY <2>1, <2>2
<1>5. CASE Unset(t, "connected", "unset connected", "unset selected_server")
  <2>1. Types' /\ Sound'
    BY <1>1, <1>5, UnsetConnectedTypes, UnsetConnectedKeeps
  <2>2. Unsent /\ broken' = NoBreak
    BY <1>1, <1>5 DEF Unset, Unsent
  <2> QED
    BY <1>1, <2>1, <2>2, Quiet
<1>6. CASE Unset(t, "selected_server", "unset selected_server", "unset sent_hello")
  <2>1. Types' /\ Sound'
    BY <1>1, <1>6, UnsetServerTypes, UnsetServerKeeps
  <2>2. Unsent /\ broken' = NoBreak
    BY <1>1, <1>6 DEF Unset, Unsent
  <2> QED
    BY <1>1, <2>1, <2>2, Quiet
<1>7. CASE Unset(t, "sent_hello", "unset sent_hello", "clear")
  <2>1. Types' /\ Sound'
    BY <1>1, <1>7, UnsetHelloTypes, UnsetHelloKeeps
  <2>2. Unsent /\ broken' = NoBreak
    BY <1>1, <1>7 DEF Unset, Unsent
  <2> QED
    BY <1>1, <2>1, <2>2, Quiet
<1>8. CASE Clear(t)
  <2>1. Types' /\ Sound'
    BY <1>1, <1>8, ClearTypes, ClearKeeps
  <2>2. Unsent /\ broken' = NoBreak
    BY <1>1, <1>8 DEF Clear, Unsent
  <2> QED
    BY <1>1, <2>1, <2>2, Quiet
<1> QED
  BY <1>2, <1>3, <1>4, <1>5, <1>6, <1>7, <1>8 DEF Disconnect

\* The server.
LEMMA ServerStep ==
  ASSUME IInv, broken = NoBreak, NEW c \in Conn, ServerCloses(c) \/ \E kind \in S2C : ServerSends(c, kind)
  PROVE  IInv'
<1>1. Types /\ Sound /\ IInv
  BY DEF IInv
<1>2. CASE ServerCloses(c)
  <2>1. Types' /\ Sound'
    BY <1>1, <1>2, ServerClosesTypes, ServerClosesKeeps
  <2>2. Unsent /\ broken' = NoBreak
    BY <1>1, ServerClosesLink, <1>2 DEF ServerCloses, Unsent
  <2> QED
    BY <1>1, <2>1, <2>2, Quiet
<1>3. ASSUME NEW kind \in S2C, ServerSends(c, kind)
      PROVE  IInv'
  <2>1. Types' /\ Sound'
    BY <1>1, <1>3, ServerSendsTypes, ServerSendsKeeps
  <2>2. Unsent /\ broken' = NoBreak
    BY <1>1, <1>3, ServerSendsLink DEF ServerSends, Unsent
  <2> QED
    BY <1>1, <2>1, <2>2, Quiet
<1> QED
  BY <1>2, <1>3

LEMMA NextIInv ==
  ASSUME IInv, [Next]_vars
  PROVE  IInv'
<1>1. CASE UNCHANGED vars
  <2>1. UNCHANGED <<flags, queue, stream, player, pc, return, packet, writer, batch, link, log, broken>>
    BY <1>1 DEF vars
  <2>2. Types' /\ Sockets'
    BY <2>1 DEF IInv, Types, FlagsOK, QueueOK, PlayerOK, PacketOK, BuffersOK, LinkOK, LogOK,
      Counted, Labels, Sockets
  <2>3. HelloOnce' /\ HelloFirst' /\ LeftoversFailed'
    BY <2>1, Unwritten DEF IInv, Unsent
  <2>4. TouchesWhenGone'
    BY <2>1 DEF IInv, TouchesWhenGone, NetOnly, NoBreak
  <2>5. broken' = NoBreak => Sound'
    <3> SUFFICES ASSUME broken = NoBreak
                 PROVE  Sound'
      BY <2>1
    <3>1. Sound
      BY DEF IInv
    <3>2. (NetOnly => NetOnly') /\ (NetOnly' => NetOnly)
      BY <2>1 DEF NetOnly
    <3>3. Queues => Queues'
      BY <2>1 DEF Queues, Up
    <3>4. Hellos => Hellos'
      BY <2>1 DEF Hellos, HelloPushed, NoneFromWin, HelloQueued, HelloSent, QueuedNotReceived,
        NoneYet, HelloReceived, HelloKept, HelloInQueue, HelloOnWire, HelloInWriter, IsHello,
        HelloOf, Received, Up
    <3>5. Players => Players'
      BY <2>1 DEF Players
    <3>6. Leftovers => Leftovers'
      BY <2>1 DEF Leftovers, QueuedIsOwn, SentIsOwn, KeptIsOld, Up
    <3>7. Leads => Leads'
      BY <2>1 DEF Leads, SentHelloSet, NothingBefore, HelloLeads, HelloOnTheWay, StreamGreeted,
        Greeted, Received, HelloOf, Up
    <3> QED
      BY <2>1, <2>2, <3>1, <3>2, <3>3, <3>4, <3>5, <3>6, <3>7 DEF Sound
  <2> QED
    BY <2>2, <2>3, <2>4, <2>5 DEF IInv
<1>2. CASE Next
  BY <1>2, NetStep, WinStep, DisconnectStep, ServerStep DEF Next
<1> QED
  BY <1>1, <1>2

-----------------------------------------------------------------------------
(* The theorems. *)

LEMMA InitIInv ==
  ASSUME Init
  PROVE  IInv
<1>1. \A S : <<>> \in Seq(S)
  OBVIOUS
<1>2. /\ flags = [connected |-> FALSE, selected_server |-> FALSE, sent_hello |-> FALSE, tick_frame |-> FALSE]
      /\ queue.state = "none" /\ queue.items = <<>> /\ stream = 0
      /\ player = [in_game |-> FALSE, local |-> FALSE]
      /\ pc["net"] = "tick" /\ pc["win"] = "idle" /\ return["net"] = "tick" /\ return["win"] = "idle"
      /\ writer = <<>> /\ batch = <<>> /\ broken = NoBreak
      /\ log = [failed |-> {}, refused |-> {}, late |-> FALSE, did |-> {}, acts |-> 0]
  BY DEF Init, Thread, Home
<1>3. \A c \in Conn : link[c].client = "unused" /\ link[c].wire = <<>> /\ c \in Nat /\ 0 < c
  BY SessionAssumption DEF Init, Conn
<1>4. Len(queue.items) = 0 /\ Len(writer) = 0 /\ \A c \in Conn : Len(link[c].wire) = 0
  BY <1>2, <1>3
<1>5. FlagsOK /\ QueueOK /\ PlayerOK
  <2>1. FlagsOK
    <3>1. DOMAIN flags = {"connected", "selected_server", "sent_hello", "tick_frame"}
      BY <1>2
    <3>2. flags = [f \in DOMAIN flags |-> flags[f]]
      BY <1>2
    <3>3. \A f \in {"connected", "selected_server", "sent_hello", "tick_frame"} : flags[f] = FALSE
      BY <1>2
    <3> QED
      BY <3>1, <3>2, <3>3 DEF FlagsOK
  <2>2. QueueOK
    <3>1. queue = [state |-> "none", items |-> <<>>] /\ <<>> \in Seq(Packet)
      BY <1>1 DEF Init
    <3> QED
      BY <1>2, <3>1 DEF QueueOK
  <2>3. PlayerOK
    BY <1>2 DEF PlayerOK
  <2> QED
    BY <2>1, <2>2, <2>3
<1>6. PacketOK
  <2>1. For("hello") \in Packet
    BY <1>2, SessionAssumption DEF For, Packet
  <2> QED
    BY <2>1 DEF Init, PacketOK
<1>7. BuffersOK
  BY <1>1, <1>2, <1>4 DEF BuffersOK
<1>8. LinkOK
  <2>1. [client |-> "unused", server |-> TRUE, inbox |-> <<>>, served |-> 0, wire |-> <<>>] \in Link
    BY <1>1 DEF Link
  <2>2. link \in [Conn -> Link]
    BY <2>1 DEF Init
  <2> QED
    BY <1>3, <2>2 DEF LinkOK
<1>9. LogOK
  BY <1>2 DEF LogOK
<1>10. Counted
  BY <1>2, <1>3, SessionAssumption DEF Counted
<1>11. Labels
  <2>1. pc \in [Thread -> NetLabel \cup WinLabel] /\ return \in [Thread -> NetLabel \cup WinLabel]
    BY DEF Init, Home, NetLabel, WinLabel
  <2> QED
    BY <1>2, <2>1 DEF Labels, NetLabel, WinLabel
<1>12. Types
  BY <1>5, <1>6, <1>7, <1>8, <1>9, <1>10, <1>11 DEF Types
<1>13. Sockets
  BY <1>2, <1>3 DEF Sockets, Thread
<1>14. Queues /\ Players
  BY <1>2 DEF Queues, Players, Teardown, Up
<1>15. Hellos
  <2>1. ~HelloInQueue /\ ~HelloInWriter
    BY <1>4 DEF HelloInQueue, HelloInWriter
  <2>2. HelloQueued /\ HelloReceived
    BY <1>4 DEF HelloQueued, HelloReceived, Received
  <2> QED
    BY <1>2, <2>1, <2>2 DEF Hellos, HelloPushed, NoneFromWin, HelloSent, QueuedNotReceived, NoneYet,
      HelloKept, Up
<1>16. Leftovers
  BY <1>2, <1>4 DEF Leftovers, QueuedIsOwn, SentIsOwn, KeptIsOld
<1>17. Leads
  BY <1>2 DEF Leads, SentHelloSet, NothingBefore, HelloLeads, Up
<1>18. HelloOnce /\ HelloFirst /\ LeftoversFailed
  BY <1>4 DEF HelloOnce, HelloFirst, LeftoversFailed, Received
<1>19. TouchesWhenGone
  BY <1>2 DEF TouchesWhenGone
<1> QED
  BY <1>12, <1>13, <1>14, <1>15, <1>16, <1>17, <1>18, <1>19 DEF IInv, Sound

\* The invariant holds in every state, however many connections are made.
THEOREM Invariance == Spec => []IInv
<1>1. Init => IInv
  BY InitIInv
<1>2. IInv /\ [Next]_vars => IInv'
  BY NextIInv
<1> QED
  BY <1>1, <1>2, PTL DEF Spec

\* No socket is left open behind another one, whichever thread disconnects
\* and whenever (main.zig 126-153, network.zig 234-309).
THEOREM SocketsClosed == Spec => []OneSocket
<1>1. IInv => OneSocket
  BY DEF IInv, Sockets, OneSocket
<1> QED
  BY <1>1, Invariance, PTL

\* The network thread alone tears the connection down once, and touches the
\* queue when it is gone only as the loop of accept goes on after a failed
\* write (network.zig 227-237, 1298-1309).
THEOREM QueueTouched == Spec => []TouchesWhenGone
<1>1. IInv => TouchesWhenGone
  BY DEF IInv
<1> QED
  BY <1>1, Invariance, PTL

\* A server receives a packet of an earlier connection only when its write
\* had failed (network.zig 220-231, 1311-1340).
THEOREM NothingLeftOver == Spec => []LeftoversFailed
<1>1. IInv => LeftoversFailed
  BY DEF IInv
<1> QED
  BY <1>1, Invariance, PTL

\* The hello is the first packet of its connection, and is sent once
\* (main.zig 126-153, network.zig 234-309).
THEOREM GreetedFirst == Spec => []Greetings
<1>1. ASSUME IInv
      PROVE  Greetings
  <2>1. Types
    BY <1>1 DEF IInv
  <2>2. Opened = 1..stream
    <3>1. stream \in Nat /\ stream <= MaxConn /\ MaxConn \in Nat
      BY <2>1, SessionAssumption DEF Types, Counted
    <3>2. \A c \in Conn : c \in Opened <=> c <= stream
      BY <2>1 DEF Types, Counted, Opened
    <3>3. Opened \subseteq Conn
      BY DEF Opened
    <3>4. \A c : c \in 1..stream <=> c \in Conn /\ c <= stream
      BY <3>1 DEF Conn
    <3> QED
      BY <3>2, <3>3, <3>4
  <2>3. \A c \in Conn : link[c].wire \in Seq(Packet) /\ link[c].inbox \in Seq(S2C)
    BY <2>1 DEF Types, LinkOK, Link
  <2>4. TypeOK
    BY <2>1, <2>2, <2>3 DEF TypeOK, Types, FlagsOK, QueueOK, PlayerOK, PacketOK, BuffersOK, Counted
  <2> QED
    BY <1>1, <2>4 DEF IInv, Greetings
<1> QED
  BY <1>1, Invariance, PTL
=============================================================================
