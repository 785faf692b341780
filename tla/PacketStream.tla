---------------------------- MODULE PacketStream ----------------------------
(***************************************************************************)
(* How network.accept (src/src/network.zig) cuts the byte stream of a TCP  *)
(* connection into packets: the fixed buffer of PacketReader, the cursors  *)
(* buffer_idx and reader.index, the pending message_len, and the bump      *)
(* allocator network_fba that holds the arrays of the packets being        *)
(* handled.  One action is one turn of the loop in accept, or the read     *)
(* before it; TCP may cut the stream anywhere.                             *)
(*                                                                         *)
(* Bytes are not represented.  The buffer always holds the bytes that      *)
(* arrived last, so a byte is named by its position among all bytes that   *)
(* ever arrived, and what it means follows from the packet it is part of.  *)
(* Read at a place where no packet's header is, a length or a packet id is *)
(* arbitrary.                                                              *)
(*                                                                         *)
(* The build is one with safety checks (Debug, the default of build.zig,   *)
(* or ReleaseSafe): arithmetic overflow and "unreachable" stop the         *)
(* program, which is panicked = TRUE.                                      *)
(***************************************************************************)
EXTENDS Naturals, Sequences

CONSTANTS
  Cap,        \* size of reader.buffer and of network_buf, 65535 in the code
  MaxLen,     \* the longest packet the server sends, without its header
  MaxPackets, \* bound on the packets sent
  None        \* message_len = 65535: no length has been read

ASSUME StreamAssumption ==
  /\ Cap \in Nat /\ MaxLen \in Nat /\ MaxPackets \in Nat
  /\ MaxLen >= 1
  /\ None \notin Nat

Header == 2

\* What is known of a packet: where in the stream its header starts, and
\* whether accept has a handler for its id.
Packet == [at : Nat, len : 1..MaxLen, handled : BOOLEAN]

VARIABLES
  connected,
  packets,     \* what the server sent: [at, len, handled], in order
  sent,        \* bytes the server has sent
  arrived,     \* bytes stream.read has returned
  buffer_idx,  \* bytes in the buffer
  index,       \* reader.index
  message_len,
  fba,         \* bytes of network_fba in use
  pc,          \* "idle": between two calls of accept; "loop": at the head
               \* of its loop; "body": past the length
  short,       \* history: the last stream.read returned fewer than two bytes
  dispatched,  \* history: the packets given to their handlers, without junk
  lost,        \* history: framing was given up, see Resync and Connect
  panicked

stream == <<connected, packets, sent>>
reader == <<arrived, buffer_idx, index, message_len>>
vars == <<stream, reader, fba, pc, short, dispatched, lost, panicked>>

\* Position in the stream of the byte at reader.index.
Here == (arrived - buffer_idx) + index

\* Packet i has its header at position p, in one piece: a connection that
\* dropped may have cut it in two.
HeaderAt(i, p) ==
  /\ packets[i].at = p
  /\ i < Len(packets) => p + Header <= packets[i + 1].at

\* The cursor is behind the header of packet i, with its length at hand.
AtPacket(i) ==
  /\ Here >= Header /\ HeaderAt(i, Here - Header)
  /\ message_len = packets[i].len

InSync == \E i \in 1..Len(packets) : AtPacket(i)

End(i) == packets[i].at + Header + packets[i].len

-----------------------------------------------------------------------------
\* The server (external): sends a packet the client handles, or one that it
\* has no handler for.
ServerSends(len, handled) ==
  /\ connected /\ Len(packets) < MaxPackets
  /\ packets' = Append(packets, [at |-> sent, len |-> len, handled |-> handled])
  /\ sent' = sent + Header + len
  /\ UNCHANGED <<connected, reader, fba, pc, short, dispatched, lost, panicked>>

\* onError, a failure packet or the disconnect button: deinit closes the
\* socket, and what had not arrived never will.  The reader's state stays.
Disconnect ==
  /\ connected
  /\ connected' = FALSE
  /\ \E n \in 0..Len(packets) :
       /\ \A i \in 1..Len(packets) : i <= n <=> packets[i].at < arrived
       /\ packets' = SubSeq(packets, 1, n)
  /\ sent' = arrived
  /\ UNCHANGED <<reader, fba, pc, short, dispatched, lost, panicked>>

\* networkTick calls init, between two calls of accept.  A packet that was
\* half read now continues with the new connection's bytes.
Connect ==
  /\ ~connected /\ pc = "idle"
  /\ connected' = TRUE
  /\ lost' = (lost \/ buffer_idx # 0 \/ message_len # None)
  /\ UNCHANGED <<packets, sent, reader, fba, pc, short, dispatched, panicked>>

-----------------------------------------------------------------------------
\* Mutant of Read: the room that is left is not respected.
ReadPastEnd(n) ==
  /\ pc = "idle" /\ connected
  /\ n <= sent - arrived /\ n > 0
  /\ arrived' = arrived + n
  /\ buffer_idx' = buffer_idx + n
  /\ short' = (n < 2)
  /\ pc' = IF n < 2 THEN "idle" ELSE "loop"
  /\ UNCHANGED <<stream, index, message_len, fba, dispatched, lost, panicked>>

\* stream.read fills what is left of the buffer, in part; accept gives up
\* when it returned fewer than two bytes.  With a full buffer it returns 0.
Read(n) ==
  /\ pc = "idle" /\ connected
  /\ n <= sent - arrived /\ n <= Cap - buffer_idx
  /\ n = 0 => buffer_idx = Cap
  /\ arrived' = arrived + n
  /\ buffer_idx' = buffer_idx + n
  /\ short' = (n < 2)
  /\ pc' = IF n < 2 THEN "idle" ELSE "loop"
  /\ UNCHANGED <<stream, index, message_len, fba, dispatched, lost, panicked>>

\* if (message_len == 65535) message_len = reader.read(u16).  With one byte
\* left the cursor passes buffer_idx and the next subtraction overflows.
ReadLength ==
  /\ pc = "loop" /\ index < buffer_idx /\ message_len = None
  /\ \/ /\ index + 1 = buffer_idx
        /\ panicked' = TRUE /\ pc' = "idle"
        /\ UNCHANGED <<index, message_len>>
     \/ /\ index + Header <= buffer_idx
        /\ message_len' \in
             LET real == {i \in 1..Len(packets) : HeaderAt(i, Here)}
             IN IF real = {} THEN 0..MaxLen ELSE {packets[i].len : i \in real}
        /\ index' = index + Header
        /\ pc' = "body"
        /\ UNCHANGED panicked
  /\ UNCHANGED <<stream, arrived, buffer_idx, fba, short, dispatched, lost>>

InBody ==
  \/ pc = "body"
  \/ pc = "loop" /\ index < buffer_idx /\ message_len # None

Complete == buffer_idx - index >= message_len

\* Mutant of Wait: the length that was read is forgotten.
WaitForgetsLength ==
  /\ InBody /\ ~Complete
  /\ pc' = "idle"
  /\ message_len' = None
  /\ UNCHANGED <<stream, arrived, buffer_idx, index, fba, short, dispatched, lost, panicked>>

\* The rest of the packet has not arrived: accept returns.
Wait ==
  /\ InBody /\ ~Complete
  /\ pc' = "idle"
  /\ UNCHANGED <<stream, reader, fba, short, dispatched, lost, panicked>>

\* Mutant of Dispatch: the cursor is left where the handler stopped reading,
\* one byte short of the packet's end.
DispatchStopsShort(i) ==
  /\ InBody /\ Complete
  /\ AtPacket(i) /\ packets[i].handled
  /\ dispatched' = Append(dispatched, i)
  /\ index' = index + message_len - 1
  /\ message_len' = None
  /\ pc' = "loop"
  /\ fba' \in fba .. fba + message_len - 1
  /\ UNCHANGED <<stream, arrived, buffer_idx, short, lost, panicked>>

\* Mutant of Dispatch: one packet per call of accept.
DispatchAndReturn(i) ==
  /\ InBody /\ Complete
  /\ AtPacket(i) /\ packets[i].handled
  /\ dispatched' = Append(dispatched, i)
  /\ fba' \in fba .. fba + message_len - 1
  /\ index' = index + message_len
  /\ message_len' = None
  /\ pc' = "idle"
  /\ UNCHANGED <<stream, arrived, buffer_idx, short, lost, panicked>>

\* A handler runs on packet i.  The arrays it reads are copied into
\* network_fba (readArray: "catch unreachable"), one byte of the packet being
\* its id; whatever the handler read, the cursor moves to the packet's end.
Dispatch(i) ==
  /\ InBody /\ Complete
  /\ AtPacket(i) /\ packets[i].handled
  /\ dispatched' = Append(dispatched, i)
  /\ \E bytes \in 0 .. message_len - 1 :
       IF fba + bytes <= Cap
       THEN /\ fba' = fba + bytes
            /\ index' = index + message_len
            /\ message_len' = None
            /\ pc' = "loop"
            /\ UNCHANGED panicked
       ELSE /\ panicked' = TRUE /\ pc' = "idle"
            /\ UNCHANGED <<fba, index, message_len>>
  /\ UNCHANGED <<stream, arrived, buffer_idx, short, lost>>

\* The bytes at the cursor are not a packet, the id among them has a handler,
\* which asks for arrays of any length.
DispatchJunk ==
  /\ InBody /\ Complete /\ ~InSync
  /\ \/ /\ fba' \in {fba, Cap}
        /\ index' = index + message_len
        /\ message_len' = None
        /\ pc' = "loop"
        /\ UNCHANGED panicked
     \/ /\ panicked' = TRUE /\ pc' = "idle"
        /\ UNCHANGED <<fba, index, message_len>>
  /\ UNCHANGED <<stream, arrived, buffer_idx, short, dispatched, lost>>

\* An id outside S2CPacketId, or in it and without a case in the switch: the
\* buffer is dropped; message_len and network_fba are left as they are.
Resync ==
  /\ InBody /\ Complete
  /\ \A i \in 1..Len(packets) : AtPacket(i) => ~packets[i].handled
  /\ index' = 0 /\ buffer_idx' = 0
  /\ pc' = "idle"
  /\ lost' = TRUE
  /\ UNCHANGED <<stream, arrived, message_len, fba, short, dispatched, panicked>>

\* The buffer ends where a packet ends.
Finish ==
  /\ pc = "loop" /\ index >= buffer_idx
  /\ fba' = 0 /\ index' = 0 /\ buffer_idx' = 0
  /\ pc' = "idle"
  /\ UNCHANGED <<stream, arrived, message_len, short, dispatched, lost, panicked>>

-----------------------------------------------------------------------------
Init ==
  /\ connected = TRUE /\ packets = <<>> /\ sent = 0
  /\ arrived = 0 /\ buffer_idx = 0 /\ index = 0 /\ message_len = None
  /\ fba = 0 /\ pc = "idle" /\ short = FALSE
  /\ dispatched = <<>> /\ lost = FALSE /\ panicked = FALSE

Accept ==
  \/ \E n \in 0..Cap : Read(n)
  \/ ReadLength \/ Wait \/ Resync \/ Finish \/ DispatchJunk
  \/ \E i \in 1..Len(packets) : Dispatch(i)

Next ==
  /\ ~panicked
  /\ \/ Accept
     \/ \E len \in 1..MaxLen, handled \in BOOLEAN : ServerSends(len, handled)
     \/ Disconnect
     \/ Connect

Spec == Init /\ [][Next]_vars

\* networkTick calls accept every 10 ms, and what the server sent arrives.
FairSpec == Spec /\ WF_vars(~panicked /\ Accept)

-----------------------------------------------------------------------------
\* Cursors and the arena stay within the buffer; a length is pending or not.
TypeOK ==
  /\ connected \in BOOLEAN /\ short \in BOOLEAN
  /\ lost \in BOOLEAN /\ panicked \in BOOLEAN
  /\ packets \in Seq(Packet)
  /\ sent \in Nat /\ arrived \in Nat
  /\ buffer_idx \in 0..Cap /\ index \in 0..Cap /\ fba \in 0..Cap
  /\ message_len \in (0..MaxLen) \cup {None}
  /\ pc \in {"idle", "loop", "body"}
  /\ dispatched \in Seq(Nat)

\* Handlers see the packets the server sent, each once, in order and none
\* left out, wherever TCP cuts the stream and however often the connection
\* is replaced at a packet boundary, until framing is given up.
InOrder ==
  ~lost => dispatched = [i \in 1..Len(dispatched) |-> i]

\* When accept returns, every packet that has arrived in full has been
\* handled, unless the last read returned a single byte (or none, the buffer
\* being full): that byte may complete a packet nobody looks at.
NothingLeftBehind ==
  (pc = "idle" /\ ~lost /\ ~panicked /\ ~short) =>
    \A i \in 1..Len(packets) : End(i) <= arrived => i <= Len(dispatched)

\* While framing holds the only way to stop the program is a packet header
\* cut between its two bytes: "catch unreachable" in readArray is right, the
\* arrays of everything in the buffer always fit network_fba.
OnlySplitHeaderPanics ==
  (panicked /\ ~lost) => message_len = None /\ index + 1 = buffer_idx

\* A packet that has been sent is handled, unless framing is lost, the
\* program stops, the connection drops, or the last read was short: its last
\* byte came alone, or the buffer, rewound only when a read ends with a
\* packet, is full and will stay so.
EventuallyHandled ==
  \A k \in 1..MaxPackets :
    (Len(packets) >= k) ~>
      \/ Len(dispatched) >= k
      \/ lost \/ panicked \/ ~connected
      \/ short /\ pc = "idle" /\ (arrived = sent \/ buffer_idx = Cap)

-----------------------------------------------------------------------------
\* Why it works, as an inductive invariant.  Done packets are handled, and
\* the cursor is at the end of the last of them, or behind the next header.
Done == Len(dispatched)
Boundary(k) == IF k = 0 THEN 0 ELSE End(k)

\* The cursors stay inside the buffer, the buffer inside what arrived, and
\* the loop is not left while a length is pending.
CursorsOrdered ==
  /\ index <= buffer_idx /\ buffer_idx <= arrived /\ arrived <= sent
  /\ pc = "body" => message_len # None
  /\ pc = "loop" /\ message_len # None => index < buffer_idx

\* The packets tile the stream; only a connection that dropped can leave the
\* last one cut short.
PacketsTile ==
  /\ \A i \in 1..Len(packets) : packets[i].at = Boundary(i - 1)
  /\ \A i, j \in 1..Len(packets) : i < j => End(i) <= packets[j].at
  /\ sent <= Boundary(Len(packets))
  /\ connected => sent = Boundary(Len(packets))
  /\ ~connected => sent = arrived /\ \A i \in 1..Len(packets) : packets[i].at < arrived

CursorAtBoundary ==
  /\ Done <= Len(packets)
  /\ dispatched = [i \in 1..Done |-> i]
  /\ message_len = None => Here = Boundary(Done)
  /\ message_len # None => Done < Len(packets) /\ AtPacket(Done + 1)

\* accept returned because there was nothing more to do.
ReturnedForReason ==
  (pc = "idle" /\ ~short) =>
    IF message_len = None THEN buffer_idx = 0 ELSE ~Complete

Framing ==
  /\ PacketsTile
  /\ CursorAtBoundary
  /\ fba <= index
  /\ panicked \/ ReturnedForReason

IInv ==
  /\ TypeOK
  /\ CursorsOrdered
  /\ OnlySplitHeaderPanics
  /\ lost \/ Framing
=============================================================================
