---------------------------- MODULE StreamProofs ----------------------------
(***************************************************************************)
(* The two levels at which packets are cut: framing survives every cut of  *)
(* the stream (PacketStream), and an unknown stat costs no more than the   *)
(* rest of its object (Stats).                                             *)
(***************************************************************************)
EXTENDS MCStream, TLAPS

-----------------------------------------------------------------------------
(* PacketStream: framing survives every cut of the stream. *)

LEMMA InitIInv == Init => IInv
  <1> SUFFICES ASSUME Init PROVE IInv
    OBVIOUS
  <1> USE StreamAssumption DEF Init
  <1>1. TypeOK
    <2>1. packets \in Seq(Packet)
      OBVIOUS
    <2>2. dispatched \in Seq(Nat)
      OBVIOUS
    <2>3. message_len \in (0..MaxLen) \cup {None}
      OBVIOUS
    <2>4. buffer_idx \in 0..Cap /\ index \in 0..Cap /\ fba \in 0..Cap
      OBVIOUS
    <2>5. connected \in BOOLEAN /\ short \in BOOLEAN /\ lost \in BOOLEAN /\ panicked \in BOOLEAN
      OBVIOUS
    <2>6. sent \in Nat /\ arrived \in Nat /\ pc \in {"idle", "loop", "body"}
      OBVIOUS
    <2> QED
      BY <2>1, <2>2, <2>3, <2>4, <2>5, <2>6 DEF TypeOK
  <1>2. CursorsOrdered /\ OnlySplitHeaderPanics
    BY DEF CursorsOrdered, OnlySplitHeaderPanics
  <1>3. PacketsTile
    BY DEF PacketsTile, Boundary
  <1>4. CursorAtBoundary
    BY DEF CursorAtBoundary, Boundary, Done, Here
  <1>5. fba <= index /\ ReturnedForReason
    BY DEF ReturnedForReason
  <1> QED
    BY <1>1, <1>2, <1>3, <1>4, <1>5 DEF IInv, Framing

\* What a packet's record holds.
LEMMA PacketFacts ==
  ASSUME TypeOK, NEW i \in 1..Len(packets)
  PROVE  /\ packets[i].at \in Nat
         /\ packets[i].len \in 1..MaxLen
         /\ packets[i].len \in Nat
         /\ End(i) \in Nat
         /\ End(i) = packets[i].at + 2 + packets[i].len
  <1>1. packets[i] \in Packet
    BY DEF TypeOK
  <1>2. packets[i].at \in Nat /\ packets[i].len \in 1..MaxLen
    BY <1>1 DEF Packet
  <1>3. packets[i].len \in Nat
    BY <1>2, StreamAssumption
  <1>4. End(i) = packets[i].at + 2 + packets[i].len
    BY DEF End, Header
  <1> HIDE DEF End
  <1> QED
    BY <1>2, <1>3, <1>4

LEMMA DoneFacts ==
  ASSUME TypeOK, CursorAtBoundary
  PROVE  Done \in Nat /\ Len(packets) \in Nat /\ Done <= Len(packets)
  <1>1. Done <= Len(packets)
    BY DEF CursorAtBoundary
  <1>2. dispatched \in Seq(Nat) /\ packets \in Seq(Packet)
    BY DEF TypeOK
  <1> QED
    BY <1>1, <1>2 DEF Done

\* A packet ends after it starts, whatever its length.
LEMMA AfterHeader ==
  ASSUME NEW a \in Nat, NEW l \in Nat, NEW e, e = a + 2 + l
  PROVE  e > a /\ a \in Nat /\ e \in Nat
  OBVIOUS

\* No two packets start at the same place.
LEMMA SamePlace ==
  ASSUME TypeOK, PacketsTile, NEW i \in 1..Len(packets), NEW j \in 1..Len(packets),
         packets[i].at = packets[j].at
  PROVE  i = j
  <1>1. \A k \in 1..Len(packets) :
          End(k) > packets[k].at /\ packets[k].at \in Nat /\ End(k) \in Nat
    <2>1. TAKE k \in 1..Len(packets)
    <2>2. /\ packets[k].at \in Nat /\ packets[k].len \in Nat
          /\ End(k) = packets[k].at + 2 + packets[k].len
      BY PacketFacts
    <2> QED
      BY <2>2, AfterHeader
  <1>2. Len(packets) \in Nat
    BY DEF TypeOK
  <1>3. (i < j => End(i) <= packets[j].at) /\ (j < i => End(j) <= packets[i].at)
    BY DEF PacketsTile
  <1> QED
    BY <1>1, <1>2, <1>3

\* While framing holds, the packet at the cursor is the one after the last
\* that was handled.
LEMMA AtNext ==
  ASSUME TypeOK, CursorsOrdered, PacketsTile, CursorAtBoundary,
         NEW i \in 1..Len(packets), AtPacket(i)
  PROVE  i = Done + 1 /\ message_len # None
  <1>1. message_len = packets[i].len /\ packets[i].len \in Nat
    BY PacketFacts DEF AtPacket
  <1>2. message_len # None
    BY <1>1, StreamAssumption
  <1>3. Done + 1 \in 1..Len(packets) /\ AtPacket(Done + 1)
    BY <1>2, DoneFacts DEF CursorAtBoundary
  <1>4. packets[i].at = Here - Header /\ packets[Done + 1].at = Here - Header
    BY <1>3 DEF AtPacket, HeaderAt
  <1> QED
    BY <1>2, <1>3, <1>4, SamePlace

\* While framing holds and bytes are left behind the last packet handled,
\* they are those of the next packet, header first.
LEMMA NextHeader ==
  ASSUME TypeOK, CursorsOrdered, PacketsTile, CursorAtBoundary,
         message_len = None, index < buffer_idx
  PROVE  /\ Done + 1 \in 1..Len(packets)
         /\ HeaderAt(Done + 1, Here)
         /\ \A i \in 1..Len(packets) : HeaderAt(i, Here) => i = Done + 1
  <1>1. PICK d \in Nat : d = Done
    BY DoneFacts
  <1>2. PICK n \in Nat : n = Len(packets)
    BY DoneFacts
  <1>3. Here = Boundary(d) /\ d <= n
    BY <1>1, <1>2, DoneFacts DEF CursorAtBoundary
  <1>4. Here < sent /\ sent \in Nat /\ Here \in Nat
    BY DEF TypeOK, CursorsOrdered, Here
  <1>5. sent <= Boundary(n)
    BY <1>2 DEF PacketsTile
  <1>6. d # n
    BY <1>3, <1>4, <1>5
  <1>7. d + 1 \in 1..Len(packets)
    BY <1>2, <1>3, <1>6
  <1>8. packets[d + 1].at = Here
    <2>1. packets[d + 1].at = Boundary((d + 1) - 1)
      BY <1>7 DEF PacketsTile
    <2> QED
      BY <2>1, <1>3
  <1>9. HeaderAt(d + 1, Here)
    <2>1. SUFFICES ASSUME d + 1 < Len(packets) PROVE Here + Header <= packets[(d + 1) + 1].at
      BY <1>8 DEF HeaderAt
    <2>2. (d + 1) + 1 \in 1..Len(packets)
      BY <2>1, <1>2
    <2>3. End(d + 1) <= packets[(d + 1) + 1].at
      BY <1>7, <2>2 DEF PacketsTile
    <2>4. End(d + 1) = Here + 2 + packets[d + 1].len /\ packets[d + 1].len \in Nat
      BY <1>7, <1>8, PacketFacts
    <2>5. packets[(d + 1) + 1].at \in Nat
      BY <2>2, PacketFacts
    <2> QED
      BY <2>3, <2>4, <2>5, <1>4 DEF Header
  <1>10. \A i \in 1..Len(packets) : HeaderAt(i, Here) => i = d + 1
    BY <1>7, <1>8, SamePlace DEF HeaderAt
  <1> QED
    BY <1>1, <1>7, <1>9, <1>10

\* A step of the server or of the connection moves no cursor.
LEMMA ServerStep ==
  ASSUME IInv, NEW len \in 1..MaxLen, NEW handled \in BOOLEAN,
         ServerSends(len, handled)
  PROVE  IInv'
  <1> USE StreamAssumption
  <1>0. TypeOK /\ CursorsOrdered /\ OnlySplitHeaderPanics
    BY DEF IInv
  <1>n. PICK n \in Nat : n = Len(packets)
    BY <1>0 DEF TypeOK
  <1>p. PICK new \in Packet : new = [at |-> sent, len |-> len, handled |-> handled]
    BY <1>0 DEF TypeOK, Packet
  <1>1. /\ packets' = Append(packets, new) /\ sent' = sent + Header + len
        /\ UNCHANGED <<connected, reader, fba, pc, dispatched, short, lost, panicked>>
        /\ connected
    BY <1>p DEF ServerSends
  <1>2. new \in Packet /\ new.at = sent /\ new.len = len
    BY <1>p
  <1>3. TypeOK'
    BY <1>0, <1>1, <1>2 DEF TypeOK, Header, reader
  <1>4. CursorsOrdered' /\ OnlySplitHeaderPanics'
    BY <1>0, <1>1 DEF CursorsOrdered, OnlySplitHeaderPanics, reader, TypeOK, Header
  <1>5. SUFFICES ASSUME Framing, ~lost PROVE Framing'
    BY <1>1, <1>3, <1>4 DEF IInv
  <1>6. /\ Len(packets') = n + 1 /\ n \in Nat
        /\ \A i \in 1..n : packets'[i] = packets[i] /\ End(i)' = End(i)
        /\ packets'[n + 1] = new
    BY <1>0, <1>1, <1>2, <1>n DEF TypeOK, End
  <1>7. \A i \in 0..n : Boundary(i)' = Boundary(i)
    BY <1>6 DEF Boundary
  <1>8. End(n + 1)' = sent' /\ Boundary(n + 1)' = sent' /\ sent = Boundary(n)
    <2>1. End(n + 1)' = sent + Header + len
      BY <1>2, <1>6 DEF End
    <2>2. Boundary(n + 1)' = End(n + 1)'
      BY <1>6 DEF Boundary
    <2>3. sent = Boundary(n)
      BY <1>n, <1>1, <1>5 DEF Framing, PacketsTile
    <2> QED
      BY <2>1, <2>2, <2>3, <1>1
  <1>9. /\ \A i \in 1..n : packets[i].at = Boundary(i - 1)
        /\ \A i, j \in 1..n : i < j => End(i) <= packets[j].at
    BY <1>n, <1>5 DEF Framing, PacketsTile
  <1>10. PacketsTile'
    <2>1. \A i \in 1..Len(packets') : packets'[i].at = Boundary(i - 1)'
      <3>1. TAKE i \in 1..Len(packets')
      <3>2. CASE i = n + 1
        BY <3>2, <1>2, <1>6, <1>7, <1>8
      <3>3. CASE i # n + 1
        <4>1. i \in 1..n /\ i - 1 \in 0..n
          BY <3>1, <3>3, <1>6
        <4> QED
          BY <4>1, <1>6, <1>7, <1>9
      <3> QED
        BY <3>2, <3>3
    <2>2. \A i \in 1..n : End(i) <= sent
      <3>1. TAKE i \in 1..n
      <3>2. sent = End(n) /\ n \in 1..Len(packets) /\ i \in 1..Len(packets)
        BY <1>n, <1>8 DEF Boundary
      <3>3. sent \in Nat /\ packets[n].at < End(n) /\ packets[n].at \in Nat /\ End(i) \in Nat
        <4>1. packets[n].at \in Nat /\ End(n) = packets[n].at + 2 + packets[n].len
              /\ packets[n].len \in Nat
          BY <3>2, <1>0, PacketFacts
        <4>2. sent \in Nat /\ End(i) \in Nat
          <5>1. sent \in Nat
            BY <1>0 DEF TypeOK
          <5> QED
            BY <5>1, <3>2, <1>0, PacketFacts
        <4> QED
          BY <3>2, <4>1, <4>2
      <3>4. i = n \/ i < n
        OBVIOUS
      <3>5. i < n => End(i) <= packets[n].at
        BY <3>2, <1>9
      <3> QED
        BY <3>2, <3>3, <3>4, <3>5
    <2>3. \A i, j \in 1..Len(packets') : i < j => End(i)' <= packets'[j].at
      <3>1. TAKE i, j \in 1..Len(packets')
      <3>2. HAVE i < j
      <3>3. i \in 1..n /\ End(i)' = End(i)
        BY <3>1, <3>2, <1>6
      <3>4. CASE j = n + 1
        BY <3>3, <3>4, <2>2, <1>2, <1>6
      <3>5. CASE j # n + 1
        <4>1. j \in 1..n /\ packets'[j] = packets[j]
          BY <3>1, <3>5, <1>6
        <4> QED
          BY <3>2, <3>3, <4>1, <1>9
      <3> QED
        BY <3>4, <3>5
    <2>4. sent' <= Boundary(Len(packets))' /\ sent' = Boundary(Len(packets))' /\ connected'
      <3>1. Boundary(n + 1)' = Boundary(Len(packets))'
        BY <1>6 DEF Boundary, End
      <3>2. sent' \in Nat /\ connected'
        BY <1>1, <1>3 DEF TypeOK
      <3> QED
        BY <3>1, <3>2, <1>8
    <2> QED
      BY <2>1, <2>3, <2>4 DEF PacketsTile
  <1>11. Here' = Here /\ Done' = Done /\ message_len' = message_len /\ dispatched' = dispatched
    BY <1>1 DEF Here, reader, Done
  <1>12. \A i \in 1..n : AtPacket(i) => AtPacket(i)'
    <2>1. TAKE i \in 1..n
    <2>2. HAVE AtPacket(i)
    <2>3. Here >= Header /\ packets[i].at = Here - Header /\ message_len = packets[i].len
      BY <2>2 DEF AtPacket, HeaderAt
    <2>4. Here <= sent /\ Here \in Nat /\ sent \in Nat
      BY <1>0 DEF CursorsOrdered, TypeOK, Here
    <2>5. i < n => (Here - Header) + Header <= packets[i + 1].at
      BY <2>2, <1>n DEF AtPacket, HeaderAt
    <2>6. i < n + 1 => (Here - Header) + Header <= packets'[i + 1].at
      <3>1. CASE i = n
        BY <3>1, <2>3, <2>4, <1>2, <1>6 DEF Header
      <3>2. CASE i # n
        BY <3>2, <2>5, <1>6
      <3> QED
        BY <3>1, <3>2
    <2>7. HeaderAt(i, Here - Header)'
      BY <2>3, <2>6, <1>6, <1>11 DEF HeaderAt
    <2> QED
      BY <2>3, <2>7, <1>6, <1>11 DEF AtPacket
  <1>13. CursorAtBoundary'
    <2>1. PICK d \in 0..n : d = Done
      BY <1>0, <1>n, <1>5, DoneFacts DEF Framing
    <2>2. dispatched' = [i \in 1..Done' |-> i] /\ Done' <= Len(packets')
      BY <2>1, <1>5, <1>6, <1>11 DEF Framing, CursorAtBoundary
    <2>3. message_len = None => Here = Boundary(d)
      BY <2>1, <1>5 DEF Framing, CursorAtBoundary
    <2>4. message_len # None => d < n /\ AtPacket(d + 1)
      BY <2>1, <1>n, <1>5 DEF Framing, CursorAtBoundary
    <2>5. message_len' = None => Here' = Boundary(d)'
      BY <2>3, <1>7, <1>11
    <2>6. message_len' # None => d < Len(packets') /\ AtPacket(d + 1)'
      BY <2>4, <1>6, <1>11, <1>12
    <2>7. d = Done'
      BY <2>1, <1>11
    <2>8. Boundary(Done)' = Boundary(d)' /\ AtPacket(Done + 1)' = AtPacket(d + 1)'
      BY <2>7 DEF Boundary, AtPacket, HeaderAt
    <2> QED
      BY <2>2, <2>5, <2>6, <2>7, <2>8 DEF CursorAtBoundary
  <1> QED
    BY <1>1, <1>5, <1>10, <1>13 DEF Framing, ReturnedForReason, Complete, reader

\* Steps that leave the packets alone leave their layout alone.
LEMMA TileKept ==
  ASSUME PacketsTile, UNCHANGED stream, connected \/ arrived' = arrived
  PROVE  PacketsTile'
  <1>1. packets' = packets /\ sent' = sent /\ connected' = connected
    BY DEF stream
  <1>2. \A i : End(i)' = End(i)
    BY <1>1 DEF End
  <1>3. \A i : Boundary(i)' = Boundary(i)
    BY <1>2 DEF Boundary
  <1>4. Boundary(Len(packets))' = Boundary(Len(packets))
    BY <1>1, <1>2 DEF Boundary, End
  <1> QED
    BY <1>1, <1>2, <1>3, <1>4 DEF PacketsTile

LEMMA CursorKept ==
  ASSUME CursorAtBoundary, packets' = packets, dispatched' = dispatched,
         message_len' = message_len, Here' = Here
  PROVE  CursorAtBoundary'
  <1>1. Done' = Done
    BY DEF Done
  <1>2. Boundary(Done)' = Boundary(Done) /\ AtPacket(Done + 1)' = AtPacket(Done + 1)
    BY <1>1 DEF Boundary, End, AtPacket, HeaderAt
  <1> QED
    BY <1>1, <1>2 DEF CursorAtBoundary

LEMMA ReadStep ==
  ASSUME IInv, NEW n \in 0..Cap, Read(n), ~panicked
  PROVE  IInv'
  <1> USE StreamAssumption
  <1>0. TypeOK /\ CursorsOrdered
    BY DEF IInv
  <1>1. /\ n <= sent - arrived /\ n <= Cap - buffer_idx /\ connected
        /\ arrived' = arrived + n /\ buffer_idx' = buffer_idx + n
        /\ short' = (n < 2) /\ pc' = IF n < 2 THEN "idle" ELSE "loop"
        /\ UNCHANGED stream
        /\ UNCHANGED <<index, message_len, fba, dispatched, lost, panicked>>
    BY DEF Read
  <1>2. packets' = packets /\ sent' = sent /\ connected' = connected
    BY <1>1 DEF stream
  <1>3. /\ sent \in Nat /\ arrived \in Nat /\ buffer_idx \in 0..Cap /\ index \in 0..Cap
        /\ index <= buffer_idx /\ buffer_idx <= arrived /\ arrived <= sent
    BY <1>0 DEF TypeOK, CursorsOrdered
  <1>4. /\ buffer_idx' \in 0..Cap /\ arrived' \in Nat
        /\ index' <= buffer_idx' /\ buffer_idx' <= arrived' /\ arrived' <= sent'
        /\ Here' = Here
    BY <1>1, <1>2, <1>3 DEF Here
  <1>5. TypeOK'
    BY <1>0, <1>1, <1>2, <1>4 DEF TypeOK
  <1>6. CursorsOrdered'
    <2>1. n >= 2 => index' < buffer_idx'
      BY <1>1, <1>3
    <2> QED
      BY <1>1, <1>4, <2>1 DEF CursorsOrdered
  <1>7. OnlySplitHeaderPanics'
    BY <1>1 DEF OnlySplitHeaderPanics
  <1>8. Framing => Framing'
    <2>1. HAVE Framing
    <2>2. PacketsTile'
      BY <2>1, <1>1, TileKept DEF Framing
    <2>3. CursorAtBoundary'
      BY <2>1, <1>1, <1>2, <1>4, CursorKept DEF Framing
    <2>4. ReturnedForReason'
      BY <1>1 DEF ReturnedForReason
    <2> QED
      BY <2>1, <2>2, <2>3, <2>4, <1>1 DEF Framing
  <1> QED
    BY <1>1, <1>5, <1>6, <1>7, <1>8 DEF IInv

LEMMA WaitStep == ASSUME IInv, Wait PROVE IInv'
  <1>1. /\ ~Complete /\ InBody /\ pc' = "idle"
        /\ UNCHANGED stream /\ UNCHANGED <<arrived, buffer_idx, index, message_len>>
        /\ UNCHANGED <<fba, short, dispatched, lost, panicked>>
    BY DEF Wait, reader
  <1>2. UNCHANGED <<connected, packets, sent>> /\ Here' = Here
    BY <1>1 DEF stream, Here
  <1>3. TypeOK'
    BY <1>1, <1>2 DEF IInv, TypeOK
  <1>4. CursorsOrdered' /\ OnlySplitHeaderPanics'
    BY <1>1, <1>2 DEF IInv, CursorsOrdered, OnlySplitHeaderPanics
  <1>5. message_len # None
    BY <1>1 DEF IInv, CursorsOrdered, InBody
  <1>6. Framing => Framing'
    <2>1. HAVE Framing
    <2>2. PacketsTile'
      BY <2>1, <1>1, TileKept DEF Framing
    <2>3. CursorAtBoundary'
      BY <2>1, <1>1, <1>2, CursorKept DEF Framing
    <2>4. ReturnedForReason'
      BY <1>1, <1>5 DEF ReturnedForReason, Complete
    <2> QED
      BY <2>1, <2>2, <2>3, <2>4, <1>1 DEF Framing
  <1> QED
    BY <1>1, <1>3, <1>4, <1>6 DEF IInv

LEMMA FinishStep == ASSUME IInv, Finish, ~panicked PROVE IInv'
  <1> USE StreamAssumption
  <1>1. /\ pc = "loop" /\ index >= buffer_idx
        /\ fba' = 0 /\ index' = 0 /\ buffer_idx' = 0 /\ pc' = "idle"
        /\ UNCHANGED stream
        /\ UNCHANGED <<arrived, message_len, short, dispatched, lost, panicked>>
    BY DEF Finish
  <1>2. UNCHANGED <<connected, packets, sent>>
    BY <1>1 DEF stream
  <1>3. /\ index = buffer_idx /\ arrived \in Nat /\ buffer_idx \in Nat /\ index \in Nat
        /\ buffer_idx <= arrived /\ arrived <= sent
    BY <1>1 DEF IInv, TypeOK, CursorsOrdered
  <1>4. Here' = Here /\ Here = arrived
    BY <1>1, <1>3 DEF Here
  <1>5. TypeOK'
    BY <1>1, <1>2 DEF IInv, TypeOK
  <1>6. CursorsOrdered'
    BY <1>1, <1>2, <1>3 DEF CursorsOrdered
  <1>7. OnlySplitHeaderPanics'
    BY <1>1 DEF OnlySplitHeaderPanics
  <1>8. Framing => Framing'
    <2>1. HAVE Framing
    <2>2. PacketsTile'
      BY <2>1, <1>1, TileKept DEF Framing
    <2>3. CursorAtBoundary'
      BY <2>1, <1>1, <1>2, <1>4, CursorKept DEF Framing
    <2>4. message_len = None
      BY <1>1, <1>3 DEF IInv, CursorsOrdered
    <2>5. ReturnedForReason'
      BY <2>4, <1>1 DEF ReturnedForReason
    <2> QED
      BY <2>2, <2>3, <2>5, <1>1 DEF Framing
  <1> QED
    BY <1>1, <1>5, <1>6, <1>7, <1>8 DEF IInv

LEMMA ResyncStep == ASSUME IInv, Resync, ~panicked PROVE IInv'
  <1> USE StreamAssumption
  <1>1. /\ index' = 0 /\ buffer_idx' = 0 /\ pc' = "idle" /\ lost' = TRUE
        /\ UNCHANGED <<connected, packets, sent>>
        /\ UNCHANGED <<arrived, message_len, fba, short, dispatched, panicked>>
    BY DEF Resync, stream
  <1>2. TypeOK'
    BY <1>1 DEF IInv, TypeOK
  <1>3. arrived \in Nat /\ arrived <= sent
    BY DEF IInv, TypeOK, CursorsOrdered
  <1>4. CursorsOrdered' /\ OnlySplitHeaderPanics'
    BY <1>1, <1>3 DEF CursorsOrdered, OnlySplitHeaderPanics
  <1> QED
    BY <1>1, <1>2, <1>4 DEF IInv

LEMMA ReadLengthStep == ASSUME IInv, ReadLength, ~panicked PROVE IInv'
  <1> USE StreamAssumption
  <1> DEFINE real == {i \in 1..Len(packets) : HeaderAt(i, Here)}
  <1>1. /\ pc = "loop" /\ index < buffer_idx /\ message_len = None
        /\ UNCHANGED stream
        /\ UNCHANGED <<arrived, buffer_idx, fba, short, dispatched, lost>>
    BY DEF ReadLength
  <1>2. UNCHANGED <<connected, packets, sent>>
    BY <1>1 DEF stream
  <1>3. /\ TypeOK /\ CursorsOrdered
        /\ arrived \in Nat /\ buffer_idx \in 0..Cap /\ index \in 0..Cap /\ sent \in Nat
        /\ buffer_idx <= arrived /\ arrived <= sent /\ Here \in Nat
    BY DEF IInv, TypeOK, CursorsOrdered, Here
  <1>4. \/ /\ index + 1 = buffer_idx /\ panicked' /\ pc' = "idle"
           /\ UNCHANGED <<index, message_len>>
        \/ /\ index + Header <= buffer_idx
           /\ message_len' \in IF real = {} THEN 0..MaxLen ELSE {packets[i].len : i \in real}
           /\ index' = index + Header /\ pc' = "body" /\ panicked' = panicked
    BY DEF ReadLength
  <1>5. CASE panicked'
    <2>1. index + 1 = buffer_idx /\ panicked' = TRUE /\ pc' = "idle" /\ UNCHANGED <<index, message_len>>
      BY <1>4, <1>5 DEF IInv, TypeOK, ReadLength
    <2>2. TypeOK'
      BY <2>1, <1>1, <1>2 DEF IInv, TypeOK
    <2>3. CursorsOrdered' /\ OnlySplitHeaderPanics'
      BY <2>1, <1>1, <1>2 DEF IInv, CursorsOrdered, OnlySplitHeaderPanics
    <2>4. Here' = Here
      BY <2>1, <1>1 DEF Here
    <2>5. Framing => Framing'
      BY <2>1, <2>4, <1>1, <1>2, TileKept, CursorKept DEF Framing
    <2> QED
      BY <2>2, <2>3, <2>5, <1>1 DEF IInv
  <1>6. CASE ~panicked'
    <2>1. /\ index + Header <= buffer_idx /\ index' = index + Header
          /\ pc' = "body" /\ panicked' = panicked
          /\ message_len' \in IF real = {} THEN 0..MaxLen ELSE {packets[i].len : i \in real}
      BY <1>4, <1>6
    <2>2. message_len' \in 0..MaxLen /\ message_len' # None
      <3>1. \A i \in real : packets[i].len \in 0..MaxLen
        <4>1. TAKE i \in real
        <4>2. packets[i].len \in 1..MaxLen
          BY <1>3, PacketFacts
        <4> QED
          BY <4>2
      <3>2. message_len' \in 0..MaxLen
        BY <2>1, <3>1
      <3> QED
        BY <3>2
    <2>3. index' \in 0..Cap /\ index' <= buffer_idx /\ index <= index'
      BY <2>1, <1>3 DEF Header
    <2>4. TypeOK'
      BY <2>1, <2>2, <2>3, <1>1, <1>2, <1>3 DEF TypeOK
    <2>5. CursorsOrdered' /\ OnlySplitHeaderPanics'
      BY <2>1, <2>2, <2>3, <1>1, <1>2, <1>3, <1>6 DEF CursorsOrdered, OnlySplitHeaderPanics
    <2>6. ASSUME Framing PROVE Framing'
      <3>1. PacketsTile'
        BY <2>6, <1>1, TileKept DEF Framing
      <3>2. CursorAtBoundary'
        <4>1. PICK k \in 1..Len(packets) : k = Done + 1
          BY <2>6, <1>1, <1>3, NextHeader DEF Framing
        <4>2. HeaderAt(k, Here) /\ real = {k}
          BY <4>1, <2>6, <1>1, <1>3, NextHeader DEF Framing
        <4>3. message_len' = packets'[k].len
          BY <4>2, <2>1, <1>2
        <4>4. Here' = Here + Header
          BY <2>1, <1>1, <1>3 DEF Here, Header
        <4>5. Here' >= Header /\ Here' - Header = Here
          BY <4>4, <1>3 DEF Header
        <4>7. AtPacket(k)'
          BY <4>2, <4>3, <4>5, <1>2 DEF AtPacket, HeaderAt
        <4>8. /\ Done' = Done /\ Done + 1 = k /\ Done < Len(packets)
              /\ Done \in Nat /\ Len(packets) \in Nat
          BY <4>1, <1>1, <1>3, <2>6, DoneFacts DEF Done, Framing
        <4>9. dispatched' = [i \in 1..Done' |-> i]
          BY <4>8, <2>6, <1>1 DEF Framing, CursorAtBoundary
        <4>10. AtPacket(Done + 1)'
          BY <4>7, <4>8 DEF AtPacket, HeaderAt
        <4>11. Done' <= Len(packets') /\ Done' < Len(packets')
          BY <4>8, <1>2
        <4> QED
          BY <4>9, <4>10, <4>11, <2>2 DEF CursorAtBoundary
      <3>3. fba' <= index'
        BY <2>1, <2>3, <2>6, <1>1, <1>3 DEF Framing, TypeOK
      <3> QED
        BY <3>1, <3>2, <3>3, <2>1 DEF Framing, ReturnedForReason
    <2> QED
      BY <2>4, <2>5, <2>6, <1>1 DEF IInv
  <1> QED
    BY <1>5, <1>6

LEMMA CountingSequence ==
  ASSUME NEW s \in Seq(Nat), NEW n \in Nat, DOMAIN s = 1..n, \A j \in 1..n : s[j] = j
  PROVE  s = [j \in 1..n |-> j]
  OBVIOUS

\* A complete packet leaves the cursor inside the buffer.
LEMMA CompleteFits ==
  ASSUME TypeOK, CursorsOrdered, InBody, Complete
  PROVE  /\ message_len \in 0..MaxLen /\ message_len # None /\ message_len \in Nat
         /\ index + message_len \in 0..Cap
         /\ index + message_len <= buffer_idx
  <1>1. message_len # None
    BY DEF InBody, CursorsOrdered
  <1>2. message_len \in 0..MaxLen
    BY <1>1 DEF TypeOK
  <1>3. /\ index \in 0..Cap /\ buffer_idx \in 0..Cap /\ index <= buffer_idx
        /\ buffer_idx - index >= message_len
    BY DEF TypeOK, CursorsOrdered, Complete
  <1> QED
    BY <1>1, <1>2, <1>3, StreamAssumption

\* What is at the cursor once a length is known and framing holds.
LEMMA JunkMeansLost ==
  ASSUME IInv, InBody, ~InSync
  PROVE  lost
  <1>1. TypeOK /\ CursorsOrdered
    BY DEF IInv
  <1>2. message_len # None
    BY <1>1 DEF InBody, CursorsOrdered
  <1>3. SUFFICES ASSUME Framing PROVE FALSE
    BY DEF IInv
  <1>4. Done < Len(packets) /\ AtPacket(Done + 1)
    BY <1>2, <1>3 DEF Framing, CursorAtBoundary
  <1>5. Done + 1 \in 1..Len(packets)
    BY <1>1, <1>3, <1>4, DoneFacts DEF Framing
  <1> QED
    BY <1>4, <1>5 DEF InSync

LEMMA DispatchJunkStep == ASSUME IInv, DispatchJunk, ~panicked PROVE IInv'
  <1> USE StreamAssumption
  <1>1. /\ InBody /\ Complete
        /\ UNCHANGED <<connected, packets, sent>>
        /\ UNCHANGED <<arrived, buffer_idx, short, dispatched, lost>>
    BY DEF DispatchJunk, stream
  <1>2. lost /\ lost'
    BY <1>1, JunkMeansLost DEF DispatchJunk
  <1>3. TypeOK /\ CursorsOrdered
    BY DEF IInv
  <1>4. CASE UNCHANGED <<fba, index, message_len>> /\ panicked' = TRUE /\ pc' = "idle"
    <2>1. TypeOK'
      BY <1>1, <1>3, <1>4 DEF TypeOK
    <2>2. CursorsOrdered' /\ OnlySplitHeaderPanics'
      BY <1>1, <1>2, <1>3, <1>4 DEF CursorsOrdered, OnlySplitHeaderPanics
    <2> QED
      BY <2>1, <2>2, <1>2 DEF IInv
  <1>5. CASE /\ fba' \in {fba, Cap} /\ index' = index + message_len
             /\ message_len' = None /\ pc' = "loop" /\ panicked' = panicked
    <2>1. index' \in 0..Cap /\ index' <= buffer_idx
      BY <1>1, <1>3, <1>5, CompleteFits
    <2>2. TypeOK'
      BY <1>1, <1>3, <1>5, <2>1 DEF TypeOK
    <2>3. CursorsOrdered' /\ OnlySplitHeaderPanics'
      BY <1>1, <1>2, <1>3, <1>5, <2>1 DEF CursorsOrdered, OnlySplitHeaderPanics
    <2> QED
      BY <2>2, <2>3, <1>2 DEF IInv
  <1> QED
    BY <1>4, <1>5 DEF DispatchJunk

LEMMA DispatchStep ==
  ASSUME IInv, NEW i \in 1..Len(packets), Dispatch(i), ~panicked
  PROVE  IInv'
  <1> USE StreamAssumption
  <1>1. /\ InBody /\ Complete /\ AtPacket(i)
        /\ dispatched' = Append(dispatched, i)
        /\ UNCHANGED stream
        /\ UNCHANGED <<arrived, buffer_idx, short, lost>>
    BY DEF Dispatch
  <1>2. UNCHANGED <<connected, packets, sent>>
    BY <1>1 DEF stream
  <1>3. TypeOK /\ CursorsOrdered
    BY DEF IInv
  <1>4. i \in Nat /\ dispatched \in Seq(Nat) /\ dispatched' \in Seq(Nat)
    BY <1>1, <1>3 DEF TypeOK
  <1>5. PICK bytes \in 0 .. message_len - 1 :
          IF fba + bytes <= Cap
          THEN /\ fba' = fba + bytes
               /\ index' = index + message_len
               /\ message_len' = None
               /\ pc' = "loop"
               /\ UNCHANGED panicked
          ELSE /\ panicked' = TRUE /\ pc' = "idle"
               /\ UNCHANGED <<fba, index, message_len>>
    BY DEF Dispatch
  <1>6. /\ message_len \in Nat /\ message_len # None
        /\ index + message_len \in 0..Cap /\ index + message_len <= buffer_idx
    BY <1>1, <1>3, CompleteFits
  <1>7. bytes \in Nat /\ bytes <= message_len
    BY <1>5, <1>6
  <1>8. index \in 0..Cap /\ fba \in 0..Cap
    BY <1>3 DEF TypeOK
  <1>9. Framing => fba + bytes <= Cap
    BY <1>6, <1>7, <1>8 DEF Framing
  <1>10. CASE fba + bytes > Cap
    <2>1. panicked' = TRUE /\ pc' = "idle" /\ UNCHANGED <<fba, index, message_len>>
      BY <1>5, <1>7, <1>8, <1>10
    <2>2. lost /\ lost'
      BY <1>1, <1>7, <1>8, <1>9, <1>10 DEF IInv
    <2>3. TypeOK'
      BY <1>1, <1>2, <1>3, <1>4, <2>1 DEF TypeOK
    <2>4. CursorsOrdered' /\ OnlySplitHeaderPanics'
      BY <1>1, <1>2, <1>3, <2>1, <2>2 DEF CursorsOrdered, OnlySplitHeaderPanics
    <2> QED
      BY <2>2, <2>3, <2>4 DEF IInv
  <1>11. CASE fba + bytes <= Cap
    <2>1. /\ fba' = fba + bytes /\ index' = index + message_len
          /\ message_len' = None /\ pc' = "loop" /\ panicked' = panicked
      BY <1>5, <1>11
    <2>2. index' \in 0..Cap /\ index' <= buffer_idx /\ fba' \in 0..Cap
      BY <2>1, <1>6, <1>7, <1>8, <1>11
    <2>3. TypeOK'
      BY <1>1, <1>2, <1>3, <1>4, <2>1, <2>2 DEF TypeOK
    <2>4. CursorsOrdered' /\ OnlySplitHeaderPanics'
      BY <1>1, <1>2, <1>3, <2>1, <2>2 DEF CursorsOrdered, OnlySplitHeaderPanics
    <2>5. ASSUME Framing PROVE Framing'
      <3>1. PacketsTile'
        BY <2>5, <1>1, TileKept DEF Framing
      <3>2. i = Done + 1 /\ Done \in Nat /\ Len(packets) \in Nat
        BY <2>5, <1>1, <1>3, AtNext, DoneFacts DEF Framing
      <3>3. Done' = i
        BY <3>2, <1>1, <1>4 DEF Done
      <3>4. dispatched' = [j \in 1..Done' |-> j]
        <4>1. dispatched = [j \in 1..Done |-> j] /\ Len(dispatched) = Done
          BY <2>5 DEF Framing, CursorAtBoundary, Done
        <4>2. DOMAIN dispatched' = 1..i
          BY <3>2, <4>1, <1>1, <1>4
        <4>3. \A j \in 1..i : dispatched'[j] = j
          BY <3>2, <4>1, <1>1, <1>4
        <4> QED
          BY <3>3, <4>2, <4>3, <1>4, CountingSequence
      <3>5. Here' = Here + message_len
        BY <2>1, <1>1, <1>3, <1>6 DEF Here, TypeOK, CursorsOrdered
      <3>6. Here = packets[i].at + 2 /\ message_len = packets[i].len
        <4>1. Here >= 2 /\ packets[i].at = Here - 2 /\ message_len = packets[i].len
          BY <1>1 DEF AtPacket, HeaderAt, Header
        <4>2. Here \in Nat
          BY <1>3 DEF Here, TypeOK, CursorsOrdered
        <4> QED
          BY <4>1, <4>2
      <3>7. Here' = Boundary(i)'
        <4>1. End(i)' = End(i) /\ i # 0
          BY <1>2 DEF End
        <4>2. Boundary(i)' = End(i)
          BY <4>1 DEF Boundary
        <4>3. End(i) = packets[i].at + 2 + packets[i].len
          BY <1>3, PacketFacts
        <4> QED
          BY <4>2, <4>3, <3>5, <3>6
      <3>8. Boundary(Done)' = Boundary(i)'
        BY <3>3 DEF Boundary, End
      <3>9. CursorAtBoundary'
        BY <2>1, <3>2, <3>3, <3>4, <3>7, <3>8, <1>2 DEF CursorAtBoundary
      <3>10. fba' <= index'
        BY <2>1, <2>5, <1>6, <1>7, <1>8 DEF Framing
      <3> QED
        BY <2>1, <3>1, <3>9, <3>10 DEF Framing, ReturnedForReason
    <2> QED
      BY <2>3, <2>4, <2>5, <1>1 DEF IInv
  <1> QED
    BY <1>7, <1>8, <1>10, <1>11

LEMMA DisconnectStep == ASSUME IInv, Disconnect, ~panicked PROVE IInv'
  <1> USE StreamAssumption
  <1>1. /\ connected /\ connected' = FALSE /\ sent' = arrived
        /\ UNCHANGED <<arrived, buffer_idx, index, message_len>>
        /\ UNCHANGED <<fba, pc, short, dispatched, lost, panicked>>
    BY DEF Disconnect, reader
  <1>2. PICK n \in 0..Len(packets) :
          /\ \A i \in 1..Len(packets) : i <= n <=> packets[i].at < arrived
          /\ packets' = SubSeq(packets, 1, n)
    BY DEF Disconnect
  <1>3. TypeOK /\ CursorsOrdered /\ packets \in Seq(Packet)
    BY DEF IInv, TypeOK
  <1>4. /\ arrived \in Nat /\ sent \in Nat /\ arrived <= sent
        /\ buffer_idx \in Nat /\ index \in Nat
        /\ index <= buffer_idx /\ buffer_idx <= arrived
        /\ Here \in Nat /\ Here <= arrived /\ Here' = Here
    BY <1>1, <1>3 DEF TypeOK, CursorsOrdered, Here
  <1>5. /\ n \in Nat /\ n <= Len(packets) /\ Len(packets) \in Nat
        /\ packets' \in Seq(Packet) /\ Len(packets') = n
        /\ \A i \in 1..n : packets'[i] = packets[i] /\ i \in 1..Len(packets)
    BY <1>2, <1>3
  <1>6. TypeOK'
    BY <1>1, <1>3, <1>4, <1>5 DEF TypeOK
  <1>7. CursorsOrdered' /\ OnlySplitHeaderPanics'
    BY <1>1, <1>3, <1>4 DEF CursorsOrdered, OnlySplitHeaderPanics
  <1>8. ASSUME Framing PROVE Framing'
    <2>1. /\ \A i \in 1..Len(packets) : packets[i].at = Boundary(i - 1)
          /\ \A i, j \in 1..Len(packets) : i < j => End(i) <= packets[j].at
          /\ sent = Boundary(Len(packets))
      BY <1>1, <1>8 DEF Framing, PacketsTile
    <2>2. \A i \in 1..n : End(i)' = End(i)
      BY <1>5 DEF End
    <2>3. \A i \in 0..n : Boundary(i)' = Boundary(i)
      BY <2>2, <1>5 DEF Boundary
    <2>4. \A i \in 1..n : packets'[i].at < arrived
      BY <1>2, <1>5
    <2>5. arrived <= Boundary(n)
      <3>1. CASE n = Len(packets)
        BY <3>1, <2>1, <1>4
      <3>2. CASE n < Len(packets)
        <4>1. n + 1 \in 1..Len(packets) /\ ~(n + 1 <= n)
          BY <3>2, <1>5
        <4>2. packets[n + 1].at >= arrived /\ packets[n + 1].at \in Nat
          BY <4>1, <1>2, <1>3, <1>4, PacketFacts
        <4>3. packets[n + 1].at = Boundary((n + 1) - 1)
          BY <4>1, <2>1
        <4> QED
          BY <4>2, <4>3, <1>5
      <3> QED
        BY <3>1, <3>2, <1>5
    <2>6. PacketsTile'
      <3>1. \A i \in 1..n : packets'[i].at = Boundary(i - 1)'
        <4>1. TAKE i \in 1..n
        <4>2. i - 1 \in 0..n /\ i \in 1..Len(packets)
          BY <1>5
        <4> QED
          BY <4>2, <1>5, <2>1, <2>3
      <3>2. \A i, j \in 1..n : i < j => End(i)' <= packets'[j].at
        BY <1>5, <2>1, <2>2
      <3>3. Boundary(Len(packets))' = Boundary(n)'
        BY <1>5 DEF Boundary, End
      <3>4. sent' <= Boundary(Len(packets))'
        BY <3>3, <2>3, <2>5, <1>1, <1>5
      <3> QED
        BY <3>1, <3>2, <3>4, <2>4, <1>1, <1>5 DEF PacketsTile
    <2>7. /\ Done \in Nat /\ Done <= Len(packets) /\ Done' = Done
          /\ dispatched' = [i \in 1..Done' |-> i]
      <3>1. Done' = Done
        BY <1>1 DEF Done
      <3> QED
        BY <3>1, <1>1, <1>3, <1>8, DoneFacts DEF Framing, CursorAtBoundary
    <2>8. \A i \in 1..Len(packets) : packets[i].at < arrived => i <= n
      BY <1>2
    <2>9. PICK d \in Nat : d = Done
      BY <2>7
    <2>10. CASE message_len = None
      <3>1. Here = Boundary(d)
        BY <2>9, <2>10, <1>8 DEF Framing, CursorAtBoundary
      <3>2. d <= n
        <4>1. SUFFICES ASSUME d # 0 PROVE d <= n
          BY <1>5
        <4>2. d \in 1..Len(packets)
          BY <4>1, <2>7, <2>9, <1>5
        <4>3. Here = End(d)
          BY <3>1, <4>1 DEF Boundary
        <4>4. packets[d].at < arrived
          <5>1. /\ packets[d].at \in Nat /\ packets[d].len \in Nat
                /\ End(d) = packets[d].at + 2 + packets[d].len
            BY <4>2, <1>3, PacketFacts
          <5> QED
            BY <5>1, <4>3, <1>4, SMTT(30)
        <4> QED
          BY <4>2, <4>4, <2>8
      <3>3. Here' = Boundary(d)'
        BY <3>1, <3>2, <2>3, <1>4, <1>5
      <3>4. Boundary(Done)' = Boundary(d)'
        BY <2>7, <2>9 DEF Boundary, End
      <3>5. Done' <= Len(packets')
        BY <3>2, <2>7, <2>9, <1>5
      <3>6. CursorAtBoundary'
        BY <3>3, <3>4, <3>5, <2>7, <2>10, <1>1 DEF CursorAtBoundary
      <3> QED
        BY <3>6, <2>6, <1>1, <1>8 DEF Framing, ReturnedForReason, Complete
    <2>11. CASE message_len # None
      <3>1. d < Len(packets) /\ AtPacket(d + 1)
        BY <2>9, <2>11, <1>8 DEF Framing, CursorAtBoundary
      <3>2. d + 1 \in 1..Len(packets)
        BY <3>1, <1>5
      <3>3. /\ Here >= 2 /\ packets[d + 1].at = Here - 2 /\ message_len = packets[d + 1].len
            /\ (d + 1 < Len(packets) => (Here - 2) + 2 <= packets[(d + 1) + 1].at)
        BY <3>1 DEF AtPacket, HeaderAt, Header
      <3>4. packets[d + 1].at < arrived
        BY <3>3, <1>4
      <3>5. d + 1 <= n /\ d + 1 \in 1..n
        BY <3>2, <3>4, <2>8, <1>5
      <3>6. d + 1 < n => (Here - 2) + 2 <= packets'[(d + 1) + 1].at
        BY <3>3, <3>5, <1>5
      <3>7. AtPacket(d + 1)'
        BY <3>3, <3>5, <3>6, <1>1, <1>4, <1>5 DEF AtPacket, HeaderAt, Header
      <3>8. AtPacket(Done + 1)'
        BY <3>7, <2>7, <2>9 DEF AtPacket, HeaderAt
      <3>9. Done' <= Len(packets') /\ Done' < Len(packets')
        BY <3>5, <2>7, <2>9, <1>5
      <3>10. CursorAtBoundary'
        BY <3>8, <3>9, <2>7, <2>11, <1>1 DEF CursorAtBoundary
      <3> QED
        BY <3>10, <2>6, <1>1, <1>8 DEF Framing, ReturnedForReason, Complete
    <2> QED
      BY <2>10, <2>11
  <1> QED
    BY <1>1, <1>6, <1>7, <1>8 DEF IInv

LEMMA ConnectStep == ASSUME IInv, Connect, ~panicked PROVE IInv'
  <1>1. /\ ~connected /\ connected' = TRUE /\ pc = "idle"
        /\ lost' = (lost \/ buffer_idx # 0 \/ message_len # None)
        /\ UNCHANGED <<packets, sent>>
        /\ UNCHANGED <<arrived, buffer_idx, index, message_len>>
        /\ UNCHANGED <<fba, pc, short, dispatched, panicked>>
    BY DEF Connect, reader
  <1>2. TypeOK /\ CursorsOrdered /\ lost \in BOOLEAN
    BY DEF IInv, TypeOK
  <1>3. TypeOK'
    BY <1>1, <1>2 DEF TypeOK
  <1>4. CursorsOrdered' /\ OnlySplitHeaderPanics'
    BY <1>1, <1>2 DEF CursorsOrdered, OnlySplitHeaderPanics
  <1>5. ASSUME ~lost' PROVE Framing'
    <2>1. Framing /\ buffer_idx = 0 /\ message_len = None
      BY <1>1, <1>5 DEF IInv
    <2>2. Here' = Here
      BY <1>1 DEF Here
    <2>3. CursorAtBoundary'
      BY <2>1, <2>2, <1>1, CursorKept DEF Framing
    <2>4. PICK d \in Nat : d = Done /\ d <= Len(packets) /\ Here = Boundary(d)
      BY <2>1, <1>2, DoneFacts DEF Framing, CursorAtBoundary
    <2>5. Here = arrived /\ arrived = sent /\ arrived \in Nat
      BY <2>1, <1>1, <1>2 DEF Framing, PacketsTile, Here, TypeOK, CursorsOrdered
    <2>6. d = Len(packets)
      <3>1. SUFFICES ASSUME d # Len(packets) PROVE FALSE
        OBVIOUS
      <3>2. Len(packets) \in Nat
        BY <1>2 DEF TypeOK
      <3>3. d + 1 \in 1..Len(packets)
        BY <3>1, <3>2, <2>4
      <3>4. PacketsTile /\ ~connected
        BY <2>1, <1>1 DEF Framing
      <3>5. packets[d + 1].at < arrived
        BY <3>3, <3>4 DEF PacketsTile
      <3>6. packets[d + 1].at = Boundary((d + 1) - 1)
        BY <3>3, <3>4 DEF PacketsTile
      <3>7. packets[d + 1].at = arrived
        <4>1. (d + 1) - 1 = d
          BY <2>4
        <4>2. packets[d + 1].at = Boundary(d)
          BY <3>6, <4>1
        <4> QED
          BY <4>2, <2>4, <2>5
      <3> QED
        BY <3>5, <3>7, <2>5
    <2>7. sent = Boundary(Len(packets))
      BY <2>4, <2>5, <2>6
    <2>8. PacketsTile'
      <3>1. \A i : End(i)' = End(i) /\ Boundary(i)' = Boundary(i)
        BY <1>1 DEF End, Boundary
      <3>2. Boundary(Len(packets))' = Boundary(Len(packets))
        BY <1>1 DEF End, Boundary
      <3> QED
        <4>1. /\ \A i \in 1..Len(packets) : packets[i].at = Boundary(i - 1)
              /\ \A i, j \in 1..Len(packets) : i < j => End(i) <= packets[j].at
          BY <2>1 DEF Framing, PacketsTile
        <4>2. /\ \A i \in 1..Len(packets') : packets'[i].at = Boundary(i - 1)'
              /\ \A i, j \in 1..Len(packets') : i < j => End(i)' <= packets'[j].at
          BY <4>1, <3>1, <1>1
        <4>3. sent' = Boundary(Len(packets))' /\ sent' <= sent'
          BY <3>2, <2>5, <2>7, <1>1
        <4> QED
          BY <4>2, <4>3, <1>1 DEF PacketsTile
    <2> QED
      BY <2>1, <2>3, <2>8, <1>1 DEF Framing, ReturnedForReason
  <1> QED
    BY <1>3, <1>4, <1>5 DEF IInv

LEMMA NextIInv == IInv /\ [Next]_vars => IInv'
  <1> SUFFICES ASSUME IInv, [Next]_vars PROVE IInv'
    OBVIOUS
  <1>1. CASE UNCHANGED vars
    <2>1. /\ UNCHANGED <<connected, packets, sent, arrived, buffer_idx, index, message_len>>
          /\ UNCHANGED <<fba, pc, short, dispatched, lost, panicked>>
      BY <1>1 DEF vars, stream, reader
    <2>2. TypeOK' /\ CursorsOrdered' /\ OnlySplitHeaderPanics'
      BY <2>1 DEF IInv, TypeOK, CursorsOrdered, OnlySplitHeaderPanics
    <2>3. Here' = Here /\ UNCHANGED stream
      BY <2>1 DEF Here, stream
    <2>4. Framing => Framing'
      BY <2>1, <2>3, TileKept, CursorKept DEF Framing, ReturnedForReason, Complete
    <2> QED
      BY <2>1, <2>2, <2>4 DEF IInv
  <1>2. CASE ~panicked /\ Accept
    BY <1>2, ReadStep, ReadLengthStep, WaitStep, ResyncStep, FinishStep,
       DispatchJunkStep, DispatchStep DEF Accept
  <1>3. CASE ~panicked /\ \E len \in 1..MaxLen, handled \in BOOLEAN : ServerSends(len, handled)
    BY <1>3, ServerStep
  <1>4. CASE ~panicked /\ (Disconnect \/ Connect)
    BY <1>4, DisconnectStep, ConnectStep
  <1> QED
    BY <1>1, <1>2, <1>3, <1>4 DEF Next

(***************************************************************************)
(* The inductive invariant holds in every reachable state.                 *)
(***************************************************************************)
THEOREM FramingInvariance == Spec => []IInv
  BY InitIInv, NextIInv, PTL DEF Spec

(***************************************************************************)
(* The cursors of PacketReader and the use of network_fba stay inside      *)
(* their 65535 bytes, whatever arrives.                                    *)
(***************************************************************************)
THEOREM StreamTypeCorrectness == Spec => []TypeOK
  <1>1. IInv => TypeOK
    BY DEF IInv
  <1> QED
    BY <1>1, FramingInvariance, PTL

(***************************************************************************)
(* For every way TCP cuts the stream and every pattern of reconnection at  *)
(* a packet boundary, handlers see the packets in order, each once.        *)
(***************************************************************************)
THEOREM PacketsInOrder == Spec => []InOrder
  <1>1. IInv => InOrder
    BY DEF IInv, Framing, CursorAtBoundary, InOrder, Done
  <1> QED
    BY <1>1, FramingInvariance, PTL

(***************************************************************************)
(* When accept returns after a read of two bytes or more, no packet that   *)
(* has fully arrived is left in the buffer.                                *)
(***************************************************************************)
THEOREM AcceptDrains == Spec => []NothingLeftBehind
  <1>1. IInv => NothingLeftBehind
    <2> SUFFICES ASSUME IInv, pc = "idle", ~lost, ~panicked, ~short,
                        NEW i \in 1..Len(packets), End(i) <= arrived
                 PROVE  i <= Len(dispatched)
      BY DEF NothingLeftBehind
    <2> USE StreamAssumption
    <2>1. TypeOK /\ CursorsOrdered /\ Framing
      BY DEF IInv
    <2>2. PICK d \in Nat : d = Done /\ d <= Len(packets)
      BY <2>1, DoneFacts DEF Framing
    <2>3. arrived \in Nat /\ buffer_idx \in Nat /\ index \in Nat /\ buffer_idx <= arrived
          /\ index <= buffer_idx /\ Len(packets) \in Nat
      BY <2>1 DEF TypeOK, CursorsOrdered
    <2>4. SUFFICES ASSUME i > d PROVE FALSE
      BY <2>2 DEF Done
    <2>5. d + 1 \in 1..Len(packets)
      BY <2>2, <2>3, <2>4
    <2>6. End(d + 1) <= arrived
      <3>1. CASE i = d + 1
        BY <3>1
      <3>2. CASE i # d + 1
        <4>1. d + 1 < i
          BY <3>2, <2>4
        <4>2. End(d + 1) <= packets[i].at
          BY <4>1, <2>1, <2>5 DEF Framing, PacketsTile
        <4>3. /\ packets[i].at \in Nat /\ packets[i].len \in Nat
              /\ End(i) = packets[i].at + 2 + packets[i].len
          BY <2>1, PacketFacts
        <4>4. End(d + 1) \in Nat
          BY <2>1, <2>5, PacketFacts
        <4> QED
          BY <4>2, <4>3, <4>4, <2>3
      <3> QED
        BY <3>1, <3>2
    <2>7. /\ packets[d + 1].at \in Nat /\ packets[d + 1].len \in Nat
          /\ End(d + 1) = packets[d + 1].at + 2 + packets[d + 1].len
      BY <2>1, <2>5, PacketFacts
    <2>8. CASE message_len = None
      <3>1. buffer_idx = 0 /\ Here = Boundary(d)
        BY <2>8, <2>1, <2>2 DEF Framing, ReturnedForReason, CursorAtBoundary
      <3>2. Here = arrived
        BY <3>1, <2>3 DEF Here
      <3>3. packets[d + 1].at = Boundary((d + 1) - 1)
        BY <2>1, <2>5 DEF Framing, PacketsTile
      <3>4. packets[d + 1].at = arrived
        <4>1. (d + 1) - 1 = d
          BY <2>2
        <4>2. packets[d + 1].at = Boundary(d)
          BY <3>3, <4>1
        <4> QED
          BY <4>2, <3>1, <3>2
      <3> QED
        BY <3>4, <2>3, <2>6, <2>7
    <2>9. CASE message_len # None
      <3>1. AtPacket(d + 1) /\ ~(buffer_idx - index >= message_len)
        BY <2>9, <2>1, <2>2 DEF Framing, ReturnedForReason, CursorAtBoundary, Complete
      <3>2. Here >= 2 /\ packets[d + 1].at = Here - 2 /\ message_len = packets[d + 1].len
        BY <3>1 DEF AtPacket, HeaderAt, Header
      <3>3. Here = (arrived - buffer_idx) + index
        BY DEF Here
      <3> QED
        BY <3>1, <3>2, <3>3, <2>3, <2>6, <2>7
    <2> QED
      BY <2>8, <2>9
  <1> QED
    BY <1>1, FramingInvariance, PTL

(***************************************************************************)
(* "catch unreachable" in readArray is unreachable while framing holds.    *)
(***************************************************************************)
THEOREM ArenaSuffices == Spec => []OnlySplitHeaderPanics
  <1>1. IInv => OnlySplitHeaderPanics
    BY DEF IInv
  <1> QED
    BY <1>1, FramingInvariance, PTL

-----------------------------------------------------------------------------
(* Stats: what an unknown stat costs. *)

\* The loop has read the first stats of its object, and is at the next.
Reads ==
  \E k \in 0..Len(StatsOf(seen)) :
    /\ left = Len(StatsOf(seen)) - k
    /\ place = StatAt(seen, k + 1)
    /\ given[seen] = 1..k
    /\ \A j \in 1..k : Parses(told.objects[seen].kind, StatsOf(seen)[j])

\* The loop has met an unknown stat of its object, and jumped.
Jumped ==
  /\ place \in {Astray, Start(seen + 1)}
  /\ given[seen] = Readable(seen)
  /\ \E j \in 1..Len(StatsOf(seen)) : j \notin Readable(seen) /\ left <= Len(StatsOf(seen)) - j

\* Where the reader is, by what the last header was: none yet, one that was
\* read astray, or that of the object it is in.
Positions ==
  /\ target \in {0, seen}
  /\ target = 0 /\ seen = 0 => stage = "objects" /\ place = Start(1) /\ next = Start(1)
  /\ target = 0 /\ seen # 0 => place = Astray /\ next = Astray
  /\ target # 0 =>
       /\ next = Start(seen + 1)
       /\ stage = "objects" => place \in {Astray, Start(seen + 1)}
       /\ stage = "stats" => told.objects[seen].found /\ (Reads \/ Jumped)

\* Every entity before the one in hand has what it should.
Gives ==
  \A i \in Objects :
    /\ i > seen => given[i] = {}
    /\ i <= seen /\ ~Spoilt(i) /\ (i < seen \/ stage = "objects") =>
         given[i] = IF told.objects[i].found THEN Readable(i) ELSE {}

Excused ==
  /\ place = Astray \/ stage = "panic" => Spoilt(seen)
  /\ \A i \in wrong : Spoilt(i) \/ (Spoilt(seen) /\ target = 0)

Types ==
  /\ told \in Told
  /\ given \in [Objects -> SUBSET Nat]
  /\ StatsTypeOK

StatsIInv == Types /\ Positions /\ Gives /\ Excused

-----------------------------------------------------------------------------
\* A packet's objects and their stats are sequences.
LEMMA ToldFacts ==
  ASSUME StatsAssumption, told \in Told
  PROVE  /\ Len(told.objects) \in Nat /\ Objects = 1..Len(told.objects)
         /\ \A i \in Objects : told.objects[i].found \in BOOLEAN
         /\ \A i \in Objects : Len(StatsOf(i)) \in 0..MaxStats
  <1>1. told.objects \in UNION {[1..n -> Object] : n \in 0..MaxObjects}
    BY DEF Told
  <1>2. PICK n \in 0..MaxObjects : told.objects \in [1..n -> Object]
    BY <1>1
  <1>3. n \in Nat /\ Objects = 1..n /\ Len(told.objects) = n
    BY <1>2 DEF StatsAssumption, Objects
  <1>4. ASSUME NEW i \in Objects PROVE told.objects[i].found \in BOOLEAN /\ Len(StatsOf(i)) \in 0..MaxStats
    <2>1. told.objects[i] \in Object
      BY <1>2, <1>3
    <2>2. told.objects[i].found \in BOOLEAN /\ StatsOf(i) \in UNION {[1..m -> Classes] : m \in 0..MaxStats}
      BY <2>1 DEF Object, StatsOf
    <2>3. PICK m \in 0..MaxStats : StatsOf(i) \in [1..m -> Classes]
      BY <2>2
    <2>4. m \in Nat /\ Len(StatsOf(i)) = m
      BY <2>3 DEF StatsAssumption
    <2> QED
      BY <2>2, <2>4
  <1> QED
    BY <1>3, <1>4

\* An object that spoils the packet spoils it for all behind it.
LEMMA SpoiltGrows ==
  ASSUME NEW n \in Nat, Spoilt(n)
  PROVE  Spoilt(n + 1)
  BY DEF Spoilt

LEMMA SpoilsSpoilt ==
  ASSUME NEW n \in Nat \ {0}, n \in Objects, Spoils(n)
  PROVE  Spoilt(n)
  BY DEF Spoilt

LEMMA NoneSpoilt == ~Spoilt(0)
  BY DEF Spoilt

\* What is told does not change, nor what follows from it.
LEMMA ToldStays ==
  ASSUME told' = told
  PROVE  /\ Objects' = Objects
         /\ \A i, j : StatAt(i, j)' = StatAt(i, j)
         /\ \A i : /\ StatsOf(i)' = StatsOf(i)
                   /\ Readable(i)' = Readable(i)
                   /\ Spoilt(i)' <=> Spoilt(i)
  BY DEF Objects, StatAt, StatsOf, Readable, Spoilt, Spoils

LEMMA NextSpoilt ==
  ASSUME told' = told, NEW n, seen' = n, Spoilt(n)
  PROVE  Spoilt(seen)'
  BY DEF Spoilt, Objects, Spoils, StatsOf, Readable, Parses, parsePlrStatData, parseObjStatData

LEMMA StatsInitIInv ==
  ASSUME StatsAssumption, StatsInit
  PROVE  StatsIInv
  <1>1. told \in Told
    BY DEF StatsInit
  <1>2. Len(told.objects) \in Nat /\ Objects = 1..Len(told.objects)
    BY <1>1, ToldFacts
  <1>3. Types
    <2>1. given \in [Objects -> SUBSET Nat] /\ \A i \in Objects : given[i] = {}
      BY DEF StatsInit
    <2>2. place.obj = 1 /\ place.stat = 0 /\ next = place
      BY DEF StatsInit, Start
    <2>3. 1 \in 1 .. Len(told.objects) + 1
      BY <1>2
    <2>4. StatsTypeOK
      BY <1>2, <2>1, <2>2, <2>3 DEF StatsInit, StatsTypeOK, StatsAssumption
    <2> QED
      BY <1>1, <2>1, <2>4 DEF Types
  <1>4. Positions
    BY DEF StatsInit, Positions
  <1>5. Gives
    BY <1>2 DEF StatsInit, Gives
  <1>6. Excused
    BY DEF StatsInit, Excused, Start, Astray
  <1> QED
    BY <1>3, <1>4, <1>5, <1>6 DEF StatsIInv

-----------------------------------------------------------------------------
\* The types StatsIInv gives the numbers.
LEMMA Numbers ==
  ASSUME StatsAssumption, StatsIInv
  PROVE  /\ told \in Told /\ Len(told.objects) \in Nat /\ Objects = 1..Len(told.objects)
         /\ seen \in 0..Len(told.objects) /\ seen \in Nat
         /\ left \in 0..MaxStats /\ left \in Nat /\ MaxStats \in Nat
         /\ \A i \in Objects : told.objects[i].found \in BOOLEAN /\ Len(StatsOf(i)) \in 0..MaxStats
  <1>1. told \in Told /\ MaxStats \in Nat
    BY DEF StatsIInv, Types, StatsAssumption
  <1>2. Len(told.objects) \in Nat
    BY <1>1, ToldFacts
  <1>3. seen \in 0..Len(told.objects) /\ left \in 0..MaxStats
    BY DEF StatsIInv, Types, StatsTypeOK
  <1> QED
    BY <1>1, <1>2, <1>3, ToldFacts

\* Where the reader is at a header: at the next object, or astray.
LEMMA AtHeader ==
  ASSUME StatsAssumption, StatsIInv, stage = "objects", place # Astray
  PROVE  place = Start(seen + 1) /\ \A i \in wrong : Spoilt(i)
  <1>1. target \in {0, seen}
    BY DEF StatsIInv, Positions
  <1>2. ~(target = 0 /\ seen # 0)
    BY DEF StatsIInv, Positions
  <1>3. place = Start(seen + 1)
    BY <1>2 DEF StatsIInv, Positions
  <1>4. ASSUME NEW i \in wrong PROVE Spoilt(i)
    <2>1. Spoilt(i) \/ (Spoilt(seen) /\ target = 0)
      BY DEF StatsIInv, Excused
    <2> QED
      BY <1>2, <2>1, NoneSpoilt
  <1> QED
    BY <1>3, <1>4

\* Behind the last stat of an object is the next one.
LEMMA StatAtFacts ==
  ASSUME NEW i \in Nat \ {0}, i \in Objects, NEW j \in Nat \ {0},
         Len(StatsOf(i)) \in Nat, j <= Len(StatsOf(i)) + 1
  PROVE  /\ StatAt(i, j) # Astray
         /\ j <= Len(StatsOf(i)) => StatAt(i, j) = [obj |-> i, stat |-> j]
         /\ j > Len(StatsOf(i)) => StatAt(i, j) = Start(i + 1)
  BY DEF StatAt, Start, Astray

\* The type of a place.
Placed(p) ==
  \/ p = Astray \/ (p.obj \in 1 .. Len(told.objects) + 1 /\ p.stat = 0)
  \/ (p.obj \in Objects /\ p.stat \in 1..Len(StatsOf(p.obj)))

LEMMA PlacedStart ==
  ASSUME Len(told.objects) \in Nat, NEW i \in 1 .. Len(told.objects) + 1
  PROVE  Placed(Start(i))
  BY DEF Placed, Start

LEMMA PlacedStat ==
  ASSUME Len(told.objects) \in Nat, Objects = 1..Len(told.objects),
         NEW i \in Objects, NEW j \in Nat \ {0}, Len(StatsOf(i)) \in Nat
  PROVE  Placed(StatAt(i, j))
  BY DEF Placed, StatAt, Start

\* StatsTypeOK, place by place.
LEMMA TypedPlaces ==
  StatsTypeOK <=>
    /\ Placed(place) /\ Placed(next)
    /\ stage \in {"objects", "stats", "panic"} /\ seen \in 0..Len(told.objects)
    /\ target \in 0..seen /\ left \in 0..MaxStats
    /\ \A i \in Objects : given[i] \subseteq 1..Len(StatsOf(i))
    /\ wrong \subseteq Objects
  BY DEF StatsTypeOK, Placed

-----------------------------------------------------------------------------
\* Every action leaves the packet as it is.
LEMMA Kept ==
  ASSUME StatsAssumption, StatsIInv, StatsNext
  PROVE  told' = told
  BY DEF StatsNext, ReadObject, ReadObjectAstray, ReadStat, SkipStat, MisreadStat, EndStats, Panic

\* How Reads and Jumped come about.
LEMMA NextReads ==
  ASSUME told' = told, NEW n, seen' = n, NEW k \in 0..Len(StatsOf(n)),
         left' = Len(StatsOf(n)) - k, place' = StatAt(n, k + 1), given'[n] = 1..k,
         \A j \in 1..k : Parses(told.objects[n].kind, StatsOf(n)[j])
  PROVE  Reads'
  <1>1. /\ StatsOf(n)' = StatsOf(n) /\ Len(StatsOf(n))' = Len(StatsOf(n))
        /\ StatAt(n, k + 1)' = StatAt(n, k + 1)
        /\ told'.objects[n].kind = told.objects[n].kind
    BY DEF StatsOf, StatAt
  <1>2. \A j \in 1..k : Parses(told.objects[n].kind, StatsOf(n)[j])'
    BY <1>1 DEF Parses, parsePlrStatData, parseObjStatData, StatsOf
  <1> QED
    BY <1>1, <1>2 DEF Reads

LEMMA NextJumped ==
  ASSUME told' = told, NEW n, seen' = n, place' \in {Astray, Start(n + 1)}, given'[n] = Readable(n),
         NEW j \in 1..Len(StatsOf(n)), j \notin Readable(n), left' <= Len(StatsOf(n)) - j
  PROVE  Jumped'
  <1>1. /\ Readable(n)' = Readable(n) /\ Len(StatsOf(n))' = Len(StatsOf(n))
        /\ Astray' = Astray /\ Start(n + 1)' = Start(n + 1)
    BY DEF StatsOf, Readable, Astray, Start
  <1> QED
    BY <1>1 DEF Jumped

LEMMA ReadObjectKeeps ==
  ASSUME StatsAssumption, StatsIInv, ReadObject
  PROVE  StatsIInv'
  <1>0. PICK i : i = place.obj
    OBVIOUS
  <1>1. /\ told' = told /\ given' = given /\ wrong' = wrong
        /\ stage = "objects" /\ seen < Len(told.objects) /\ i # 0
        /\ seen' = seen + 1 /\ next' = Start(i + 1)
        /\ target' = i /\ left' = Len(StatsOf(i))
        /\ IF told.objects[i].found
           THEN stage' = "stats" /\ place' = StatAt(i, 1)
           ELSE stage' = stage /\ place' = next'
    BY <1>0 DEF ReadObject
  <1>2. place # Astray
    BY <1>0, <1>1 DEF Astray, Start
  <1>3. place = Start(seen + 1) /\ \A k \in wrong : Spoilt(k)
    BY <1>1, <1>2, AtHeader
  <1>4. i = seen + 1
    BY <1>0, <1>3 DEF Start
  <1>5. /\ told \in Told /\ Len(told.objects) \in Nat /\ Objects = 1..Len(told.objects)
        /\ seen \in Nat /\ MaxStats \in Nat
        /\ i \in Objects /\ i \in Nat \ {0} /\ Len(StatsOf(i)) \in 0..MaxStats /\ Len(StatsOf(i)) \in Nat
    BY <1>1, <1>4, Numbers
  <1>6. given \in [Objects -> SUBSET Nat] /\ given[i] = {}
    BY <1>4, <1>5 DEF StatsIInv, Types, Gives
  <1>7. Placed(StatAt(i, 1)) /\ StatAt(i, 1) # Astray
    BY <1>5, PlacedStat, StatAtFacts
  <1>8. Placed(Start(i + 1)) /\ Start(i + 1) # Astray
    <2>1. i + 1 \in 1 .. Len(told.objects) + 1 /\ i + 1 # 0
      BY <1>5
    <2> QED
      BY <1>5, <2>1, PlacedStart DEF Start, Astray
  <1>9. Placed(place') /\ Placed(next') /\ place' # Astray
    BY <1>1, <1>7, <1>8
  <1>10. stage' \in {"objects", "stats"}
    BY <1>1
  <1>11. Types'
    <2>1. Placed(place)' /\ Placed(next)'
      BY <1>1, <1>9 DEF Placed, Objects, StatsOf, Astray, Start
    <2>2. /\ seen' \in 0..Len(told'.objects) /\ target' \in 0..seen' /\ left' \in 0..MaxStats
      BY <1>1, <1>4, <1>5
    <2>3. \A k \in Objects' : given'[k] \subseteq 1..Len(StatsOf(k)')
      BY <1>1, ToldStays DEF StatsIInv, Types, StatsTypeOK
    <2>4. wrong' \subseteq Objects' /\ given' \in [Objects' -> SUBSET Nat] /\ told' \in Told
      BY <1>1, <1>5, <1>6, ToldStays DEF StatsIInv, Types, StatsTypeOK
    <2> QED
      BY <1>10, <2>1, <2>2, <2>3, <2>4 DEF Types, StatsTypeOK, Placed
  <1>12. Positions'
    <2>1. target' = seen' /\ target' # 0 /\ next' = Start(seen' + 1)
      BY <1>1, <1>4, <1>5
    <2>2. stage' = "objects" => place' = Start(seen' + 1)
      BY <1>1, <1>4
    <2>3. ASSUME stage' = "stats" PROVE told'.objects[seen'].found /\ Reads'
      <3>1. told.objects[i].found /\ place' = StatAt(i, 1)
        BY <1>1, <2>3
      <3>2. /\ 0 \in 0..Len(StatsOf(i)) /\ Len(StatsOf(i)) - 0 = Len(StatsOf(i))
            /\ 0 + 1 = 1 /\ 1..0 = {}
        BY <1>5
      <3>3. seen' = i /\ given'[i] = 1..0
        BY <1>1, <1>4, <1>6, <3>2
      <3>4. Reads'
        BY <1>1, <3>1, <3>2, <3>3, NextReads
      <3> QED
        BY <1>1, <3>1, <3>3, <3>4
    <2> QED
      BY <2>1, <2>2, <2>3 DEF Positions, Start
  <1>13. Gives'
    <2>1. ASSUME NEW k \in Objects
          PROVE  /\ k > seen' => given'[k] = {}
                 /\ k <= seen' /\ ~Spoilt(k) /\ (k < seen' \/ stage' = "objects") =>
                      given'[k] = IF told.objects[k].found THEN Readable(k) ELSE {}
      <3>1. CASE k > seen'
        BY <1>1, <1>5, <3>1 DEF StatsIInv, Gives
      <3>2. CASE k < seen'
        BY <1>1, <1>5, <3>2 DEF StatsIInv, Gives
      <3>3. CASE k = seen'
        <4>1. k = i /\ given'[k] = {} /\ ~(k < seen') /\ ~(k > seen')
          BY <1>1, <1>4, <1>5, <1>6, <3>3
        <4>2. stage' = "objects" => ~told.objects[k].found
          BY <1>1, <4>1
        <4> QED
          BY <4>1, <4>2
      <3> QED
        BY <1>1, <1>5, <3>1, <3>2, <3>3
    <2> QED
      BY <1>1, <2>1, ToldStays DEF Gives
  <1>14. Excused'
    <2>1. ~(place' = Astray \/ stage' = "panic") /\ Astray' = Astray
      BY <1>9, <1>10 DEF Astray, Start
    <2>2. \A k \in wrong' : Spoilt(k)'
      BY <1>1, <1>3, ToldStays
    <2> QED
      BY <2>1, <2>2 DEF Excused
  <1> QED
    BY <1>11, <1>12, <1>13, <1>14 DEF StatsIInv

LEMMA ReadObjectAstrayKeeps ==
  ASSUME StatsAssumption, StatsIInv, ReadObjectAstray
  PROVE  StatsIInv'
  <1>1. /\ told' = told /\ given' = given /\ wrong' = wrong /\ place' = place
        /\ stage = "objects" /\ seen < Len(told.objects) /\ place = Astray
        /\ seen' = seen + 1 /\ next' = Astray /\ target' = 0 /\ left' \in 0..MaxStats
        /\ stage' \in {"objects", "stats"}
    BY DEF ReadObjectAstray
  <1>2. /\ told \in Told /\ Len(told.objects) \in Nat /\ Objects = 1..Len(told.objects)
        /\ seen \in Nat /\ MaxStats \in Nat
    BY Numbers
  <1>3. Spoilt(seen) /\ Spoilt(seen + 1)
    BY <1>1, <1>2, SpoiltGrows DEF StatsIInv, Excused
  <1>4. Spoilt(seen)'
    BY <1>1, <1>3, NextSpoilt
  <1>5. Astray' = Astray /\ seen' # 0
    BY <1>1, <1>2 DEF Astray, Start
  <1>6. Types'
    <2>1. Placed(place)' /\ Placed(next)'
      BY <1>1, <1>5 DEF Placed
    <2>2. /\ seen' \in 0..Len(told'.objects) /\ target' \in 0..seen'
      BY <1>1, <1>2
    <2>3. \A k \in Objects' : given'[k] \subseteq 1..Len(StatsOf(k)')
      BY <1>1, ToldStays DEF StatsIInv, Types, StatsTypeOK
    <2>4. wrong' \subseteq Objects' /\ given' \in [Objects' -> SUBSET Nat] /\ told' \in Told
      BY <1>1, <1>2, ToldStays DEF StatsIInv, Types, StatsTypeOK
    <2> QED
      BY <1>1, <2>1, <2>2, <2>3, <2>4 DEF Types, StatsTypeOK, Placed
  <1>7. Positions'
    BY <1>1, <1>5 DEF Positions
  <1>8. Gives'
    <2>1. ASSUME NEW k \in Objects
          PROVE  /\ k > seen' => given'[k] = {}
                 /\ k <= seen' /\ ~Spoilt(k) =>
                      given'[k] = IF told.objects[k].found THEN Readable(k) ELSE {}
      <3>1. CASE k > seen'
        BY <1>1, <1>2, <3>1 DEF StatsIInv, Gives
      <3>2. CASE k < seen'
        BY <1>1, <1>2, <3>2 DEF StatsIInv, Gives
      <3>3. CASE k = seen'
        BY <1>1, <1>2, <1>3, <3>3
      <3> QED
        BY <1>1, <1>2, <3>1, <3>2, <3>3
    <2> QED
      BY <1>1, <2>1, ToldStays DEF Gives
  <1>9. Excused'
    BY <1>1, <1>4 DEF Excused
  <1> QED
    BY <1>6, <1>7, <1>8, <1>9 DEF StatsIInv

-----------------------------------------------------------------------------
\* While stats are read: which object it is.
LEMMA InStats ==
  ASSUME StatsAssumption, StatsIInv, stage = "stats"
  PROVE  /\ seen \in Objects /\ seen \in Nat \ {0} /\ Len(StatsOf(seen)) \in Nat
         /\ \/ target = 0 /\ place = Astray /\ next = Astray
            \/ /\ target = seen /\ next = Start(seen + 1) /\ next # Astray
               /\ told.objects[seen].found /\ (Reads \/ Jumped)
  <1>1. seen # 0 /\ target \in {0, seen}
    BY DEF StatsIInv, Positions
  <1>2. seen \in Objects /\ seen \in Nat \ {0} /\ Len(StatsOf(seen)) \in Nat
    BY <1>1, Numbers
  <1>3. Start(seen + 1) # Astray
    <2>1. seen + 1 # 0
      BY <1>2
    <2> QED
      BY <2>1 DEF Start, Astray
  <1>4. CASE target = 0
    BY <1>1, <1>2, <1>4 DEF StatsIInv, Positions
  <1>5. CASE target = seen
    BY <1>1, <1>2, <1>3, <1>5 DEF StatsIInv, Positions
  <1> QED
    BY <1>1, <1>2, <1>4, <1>5

\* The next stat is one of the object's own.
LEMMA ReadsFacts ==
  ASSUME StatsAssumption, StatsIInv, stage = "stats", Reads, left > 0
  PROVE  \E k \in Nat : /\ k + 1 \in 1..Len(StatsOf(seen)) /\ left = Len(StatsOf(seen)) - k
                        /\ place = [obj |-> seen, stat |-> k + 1]
                        /\ given[seen] = 1..k
                        /\ \A j \in 1..k : Parses(told.objects[seen].kind, StatsOf(seen)[j])
  <1>1. seen \in Objects /\ seen \in Nat \ {0} /\ Len(StatsOf(seen)) \in Nat
    BY InStats
  <1>2. PICK k \in 0..Len(StatsOf(seen)) :
          /\ left = Len(StatsOf(seen)) - k
          /\ place = StatAt(seen, k + 1)
          /\ given[seen] = 1..k
          /\ \A j \in 1..k : Parses(told.objects[seen].kind, StatsOf(seen)[j])
    BY DEF Reads
  <1>3. k \in Nat /\ k + 1 \in 1..Len(StatsOf(seen)) /\ ~(k + 1 > Len(StatsOf(seen)))
    BY <1>1, <1>2
  <1>4. place = [obj |-> seen, stat |-> k + 1]
    BY <1>2, <1>3 DEF StatAt
  <1> QED
    BY <1>2, <1>3, <1>4

\* Nothing is read astray but in a packet that is spoilt.
LEMMA Misled ==
  ASSUME StatsAssumption, StatsIInv, stage = "stats", left > 0, Misleads
  PROVE  Spoilt(seen) /\ (target = 0 \/ Jumped)
  <1>1. /\ seen \in Objects /\ seen \in Nat \ {0} /\ Len(StatsOf(seen)) \in Nat
        /\ \/ target = 0 /\ place = Astray
           \/ told.objects[seen].found /\ (Reads \/ Jumped)
    BY InStats
  <1>2. CASE place = Astray
    <2>1. ~(\E k \in Nat : place = [obj |-> seen, stat |-> k + 1])
      BY <1>1, <1>2 DEF Astray, Start
    <2>2. ~Reads
      BY <2>1, ReadsFacts
    <2> QED
      BY <1>1, <1>2, <2>2 DEF StatsIInv, Excused
  <1>3. CASE place # Astray
    <2>1. ~Reads
      <3>1. SUFFICES ASSUME Reads PROVE FALSE
        OBVIOUS
      <3>2. PICK k \in Nat : place = [obj |-> seen, stat |-> k + 1]
        BY <3>1, ReadsFacts
      <3>3. place.obj # 0 /\ place.stat # 0
        BY <1>1, <3>2
      <3> QED
        BY <3>3 DEF Misleads
    <2>2. told.objects[seen].found /\ Jumped
      BY <1>1, <1>3, <2>1
    <2>3. place = Start(seen + 1) /\ place.obj = seen + 1
      BY <1>3, <2>2 DEF Jumped, Start
    <2>4. seen + 1 # 0
      BY <1>1
    <2>5. told.first[seen + 1]
      BY <2>3, <2>4 DEF Misleads
    <2>6. PICK j \in 1..Len(StatsOf(seen)) : j \notin Readable(seen) /\ left <= Len(StatsOf(seen)) - j
      BY <2>2 DEF Jumped
    <2>7. j \in 1 .. Len(StatsOf(seen)) - 1
      BY <1>1, <2>6, Numbers
    <2>8. Spoils(seen)
      BY <2>2, <2>5, <2>6, <2>7 DEF Spoils
    <2> QED
      BY <1>1, <2>2, <2>8, SpoilsSpoilt
  <1> QED
    BY <1>2, <1>3

\* What the loops leave alone keeps its type.
LEMMA NextTypes ==
  ASSUME StatsAssumption, StatsIInv, told' = told, wrong' \subseteq Objects,
         given' \in [Objects -> SUBSET Nat], \A i \in Objects : given'[i] \subseteq 1..Len(StatsOf(i)),
         Placed(place'), next' = next, stage' \in {"objects", "stats", "panic"},
         seen' = seen, target' = target, left' \in 0..MaxStats
  PROVE  Types'
  <1>1. Placed(next)
    BY DEF StatsIInv, Types, StatsTypeOK, Placed
  <1>2. Placed(place)' /\ Placed(next)'
    BY <1>1 DEF Placed, Objects, StatsOf, Astray, Start
  <1>3. told' \in Told /\ seen' \in 0..Len(told'.objects) /\ target' \in 0..seen'
    BY DEF StatsIInv, Types, StatsTypeOK
  <1> QED
    BY <1>2, <1>3, ToldStays DEF Types, StatsTypeOK, Placed

LEMMA PanicKeeps ==
  ASSUME StatsAssumption, StatsIInv, Panic
  PROVE  StatsIInv'
  <1>1. /\ told' = told /\ place' = place /\ seen' = seen /\ target' = target /\ left' = left
        /\ next' = next /\ given' = given /\ wrong' = wrong /\ stage' = "panic"
        /\ stage # "panic"
    BY DEF Panic
  <1>2. Spoilt(seen)
    <2>1. CASE stage = "stats" /\ left > 0 /\ Misleads
      BY <2>1, Misled
    <2>2. CASE place = Astray
      BY <2>2 DEF StatsIInv, Excused
    <2> QED
      BY <2>1, <2>2 DEF Panic
  <1>3. Types'
    <2>1. Placed(place')
      BY <1>1 DEF StatsIInv, Types, StatsTypeOK, Placed
    <2> QED
      BY <1>1, <2>1, NextTypes DEF StatsIInv, Types, StatsTypeOK
  <1>4. Positions'
    <2>1. ~(target = 0 /\ seen = 0)
      BY <1>2, NoneSpoilt
    <2> QED
      BY <1>1, <2>1 DEF StatsIInv, Positions, Start, Astray
  <1>5. Gives'
    BY <1>1, ToldStays DEF StatsIInv, Gives
  <1>6. Excused'
    <2>1. Spoilt(seen)'
      BY <1>1, <1>2, NextSpoilt
    <2> QED
      BY <1>1, <2>1, ToldStays DEF StatsIInv, Excused
  <1> QED
    BY <1>3, <1>4, <1>5, <1>6 DEF StatsIInv

LEMMA EndStatsKeeps ==
  ASSUME StatsAssumption, StatsIInv, EndStats
  PROVE  StatsIInv'
  <1>1. /\ told' = told /\ place' = place /\ seen' = seen /\ target' = target /\ left' = left
        /\ next' = next /\ given' = given /\ wrong' = wrong /\ stage' = "objects"
        /\ stage = "stats" /\ left = 0
    BY DEF EndStats
  <1>2. /\ seen \in Objects /\ seen \in Nat \ {0} /\ Len(StatsOf(seen)) \in Nat
        /\ \/ target = 0 /\ place = Astray /\ next = Astray
           \/ /\ target = seen /\ next = Start(seen + 1) /\ next # Astray
              /\ told.objects[seen].found /\ (Reads \/ Jumped)
    BY <1>1, InStats
  <1>3. target # 0 => /\ told.objects[seen].found /\ given[seen] = Readable(seen)
                      /\ place \in {Astray, Start(seen + 1)}
    <2>1. CASE Reads
      <3>1. PICK k \in 0..Len(StatsOf(seen)) :
              /\ left = Len(StatsOf(seen)) - k
              /\ place = StatAt(seen, k + 1)
              /\ given[seen] = 1..k
              /\ \A j \in 1..k : Parses(told.objects[seen].kind, StatsOf(seen)[j])
        BY <2>1 DEF Reads
      <3>2. k = Len(StatsOf(seen)) /\ k + 1 > Len(StatsOf(seen))
        BY <1>1, <1>2, <3>1
      <3>3. Readable(seen) = 1..k
        <4>1. \A j \in 1..k : 1..j \subseteq 1..k
          BY <1>2, <3>2
        <4> QED
          BY <3>1, <3>2, <4>1 DEF Readable
      <3>4. place = Start(seen + 1)
        BY <3>1, <3>2 DEF StatAt
      <3> QED
        BY <1>2, <3>1, <3>3, <3>4
    <2>2. CASE Jumped
      BY <1>2, <2>2 DEF Jumped
    <2> QED
      BY <1>2, <2>1, <2>2
  <1>4. target = 0 => Spoilt(seen)
    BY <1>2 DEF StatsIInv, Excused
  <1>5. Types'
    <2>1. Placed(place')
      BY <1>1 DEF StatsIInv, Types, StatsTypeOK, Placed
    <2> QED
      BY <1>1, <2>1, NextTypes DEF StatsIInv, Types, StatsTypeOK
  <1>6. Positions'
    BY <1>1, <1>2, <1>3 DEF Positions, Start, Astray
  <1>7. Gives'
    <2>1. ASSUME NEW k \in Objects
          PROVE  /\ k > seen => given[k] = {}
                 /\ k <= seen /\ ~Spoilt(k) =>
                      given[k] = IF told.objects[k].found THEN Readable(k) ELSE {}
      <3>1. CASE k = seen
        BY <1>2, <1>3, <1>4, <3>1
      <3>2. CASE k # seen
        <4>1. k <= seen => k < seen
          BY <1>2, <3>2, Numbers
        <4> QED
          BY <4>1 DEF StatsIInv, Gives
      <3> QED
        BY <3>1, <3>2
    <2> QED
      BY <1>1, <2>1, ToldStays DEF Gives
  <1>8. Excused'
    <2>1. Spoilt(seen) => Spoilt(seen)'
      BY <1>1, NextSpoilt
    <2> QED
      BY <1>1, <2>1, ToldStays DEF StatsIInv, Excused, Astray, Start
  <1> QED
    BY <1>5, <1>6, <1>7, <1>8 DEF StatsIInv

\* While the stats of an object are read, what the others were given and what
\* was excused stays so.
LEMMA NextGives ==
  ASSUME StatsAssumption, StatsIInv, stage = "stats", told' = told, seen' = seen, stage' = stage,
         \A i \in Objects : i # seen => given'[i] = given[i]
  PROVE  Gives'
  <1>1. seen \in Nat /\ Objects = 1..Len(told.objects) /\ Len(told.objects) \in Nat
    BY Numbers
  <1>2. ASSUME NEW k \in Objects
        PROVE  /\ k > seen => given'[k] = {}
               /\ k < seen /\ ~Spoilt(k) => given'[k] = IF told.objects[k].found THEN Readable(k) ELSE {}
    <2>1. CASE k = seen
      BY <1>1, <2>1
    <2>2. CASE k # seen
      <3>1. given'[k] = given[k]
        BY <2>2
      <3>2. CASE k > seen
        BY <1>1, <3>1, <3>2 DEF StatsIInv, Gives
      <3>3. CASE k < seen
        BY <1>1, <3>1, <3>3 DEF StatsIInv, Gives
      <3> QED
        BY <1>1, <2>2, <3>2, <3>3
    <2> QED
      BY <2>1, <2>2
  <1> QED
    BY <1>2, ToldStays DEF Gives

LEMMA ReadStatKeeps ==
  ASSUME StatsAssumption, StatsIInv, ReadStat
  PROVE  StatsIInv'
  <1>1. /\ stage = "stats" /\ left > 0 /\ left' = left - 1
        /\ place.obj # 0 /\ place.stat # 0
        /\ Parses(told.objects[place.obj].kind, StatsOf(place.obj)[place.stat])
        /\ given' = [given EXCEPT ![place.obj] = @ \cup {place.stat}]
        /\ place' = StatAt(place.obj, place.stat + 1)
        /\ told' = told /\ stage' = stage /\ seen' = seen /\ target' = target
        /\ next' = next /\ wrong' = wrong
    BY DEF ReadStat, ReadsStat
  <1>2. place # Astray /\ place # Start(seen + 1)
    BY <1>1 DEF Astray, Start
  <1>3. ~Jumped
    BY <1>2 DEF Jumped
  <1>4. /\ seen \in Objects /\ seen \in Nat \ {0} /\ Len(StatsOf(seen)) \in Nat
        /\ target = seen /\ next = Start(seen + 1) /\ told.objects[seen].found /\ Reads
    BY <1>1, <1>2, <1>3, InStats
  <1>5. PICK n : n = seen
    OBVIOUS
  <1>6. PICK k \in Nat : /\ k + 1 \in 1..Len(StatsOf(n)) /\ left = Len(StatsOf(n)) - k
                         /\ place = [obj |-> n, stat |-> k + 1]
                         /\ given[n] = 1..k
                         /\ \A j \in 1..k : Parses(told.objects[n].kind, StatsOf(n)[j])
    BY <1>1, <1>4, <1>5, ReadsFacts
  <1>7. /\ Parses(told.objects[n].kind, StatsOf(n)[k + 1])
        /\ given' = [given EXCEPT ![n] = @ \cup {k + 1}]
        /\ place' = StatAt(n, (k + 1) + 1)
    BY <1>1, <1>6
  <1>8. given \in [Objects -> SUBSET Nat] /\ \A i \in Objects : given[i] \subseteq 1..Len(StatsOf(i))
    BY DEF StatsIInv, Types, StatsTypeOK
  <1>9. /\ given'[n] = 1 .. k + 1 /\ \A i \in Objects : i # n => given'[i] = given[i]
        /\ given' \in [Objects -> SUBSET Nat]
    <2>1. (1..k) \cup {k + 1} = 1 .. k + 1
      BY <1>6
    <2>2. given'[n] = given[n] \cup {k + 1}
      BY <1>4, <1>5, <1>7, <1>8
    <2> QED
      BY <1>4, <1>5, <1>6, <1>7, <1>8, <2>1, <2>2
  <1>10. Types'
    <2>1. Placed(place')
      BY <1>4, <1>5, <1>7, PlacedStat, Numbers
    <2>2. \A i \in Objects : given'[i] \subseteq 1..Len(StatsOf(i))
      <3>1. 1 .. k + 1 \subseteq 1..Len(StatsOf(n))
        BY <1>4, <1>5, <1>6
      <3> QED
        BY <1>8, <1>9, <3>1
    <2>3. left' \in 0..MaxStats
      BY <1>1, Numbers
    <2> QED
      BY <1>1, <1>9, <2>1, <2>2, <2>3, NextTypes DEF StatsIInv, Types, StatsTypeOK
  <1>11. Positions'
    <2>1. Reads'
      <3>1. k + 1 \in 0..Len(StatsOf(n)) /\ left' = Len(StatsOf(n)) - (k + 1)
        BY <1>1, <1>4, <1>5, <1>6
      <3>2. \A j \in 1 .. k + 1 : Parses(told.objects[n].kind, StatsOf(n)[j])
        <4>1. \A j \in 1 .. k + 1 : j \in 1..k \/ j = k + 1
          BY <1>6
        <4> QED
          BY <1>6, <1>7, <4>1
      <3> QED
        BY <1>1, <1>5, <1>7, <1>9, <3>1, <3>2, NextReads
    <2> QED
      BY <1>1, <1>4, <2>1 DEF Positions, Start
  <1>12. Gives'
    BY <1>1, <1>5, <1>9, NextGives
  <1>13. Excused'
    <2>1. place' # Astray
      <3>1. (k + 1) + 1 <= Len(StatsOf(n)) + 1 /\ (k + 1) + 1 \in Nat \ {0}
        BY <1>4, <1>5, <1>6
      <3> QED
        BY <1>4, <1>5, <1>7, <3>1, StatAtFacts
    <2>2. Spoilt(seen) => Spoilt(seen)'
      BY <1>1, NextSpoilt
    <2> QED
      BY <1>1, <2>1, <2>2, ToldStays DEF StatsIInv, Excused, Astray, Start
  <1> QED
    BY <1>10, <1>11, <1>12, <1>13 DEF StatsIInv

\* What a loop that has met an unknown stat knows of it stays known.
LEMMA JumpedStays ==
  ASSUME StatsAssumption, StatsIInv, stage = "stats", Jumped, told' = told, seen' = seen, left' = left - 1,
         place' \in {Astray, Start(seen + 1)}, given' = given
  PROVE  Jumped'
  <1>1. Len(StatsOf(seen)) \in Nat
    BY InStats
  <1>2. PICK n : n = seen
    OBVIOUS
  <1>3. PICK j \in 1..Len(StatsOf(n)) : j \notin Readable(n) /\ left <= Len(StatsOf(n)) - j
    BY <1>2 DEF Jumped
  <1>4. left' <= Len(StatsOf(n)) - j
    BY <1>1, <1>2, <1>3, Numbers
  <1> QED
    BY <1>2, <1>3, <1>4, NextJumped DEF Jumped

LEMMA SkipStatKeeps ==
  ASSUME StatsAssumption, StatsIInv, SkipStat
  PROVE  StatsIInv'
  <1>1. /\ stage = "stats" /\ left > 0 /\ left' = left - 1 /\ Unknown
        /\ place' = next /\ given' = given
        /\ told' = told /\ stage' = stage /\ seen' = seen /\ target' = target
        /\ next' = next /\ wrong' = wrong
    BY DEF SkipStat, ReadsStat
  <1>2. /\ seen \in Objects /\ seen \in Nat \ {0} /\ Len(StatsOf(seen)) \in Nat
        /\ \/ target = 0 /\ place = Astray /\ next = Astray
           \/ /\ target = seen /\ next = Start(seen + 1) /\ next # Astray
              /\ told.objects[seen].found /\ (Reads \/ Jumped)
    BY <1>1, InStats
  <1>3. Types'
    <2>1. Placed(place')
      BY <1>1 DEF StatsIInv, Types, StatsTypeOK, Placed
    <2>2. left' \in 0..MaxStats
      BY <1>1, Numbers
    <2> QED
      BY <1>1, <2>1, <2>2, NextTypes DEF StatsIInv, Types, StatsTypeOK
  <1>4. ASSUME target # 0 PROVE Jumped'
    <2>1. target = seen /\ place' = Start(seen + 1) /\ (Reads \/ Jumped)
      BY <1>1, <1>2, <1>4
    <2>2. CASE Jumped
      BY <1>1, <2>1, <2>2, JumpedStays
    <2>3. CASE Reads
      <3>1. PICK n : n = seen
        OBVIOUS
      <3>2. PICK k \in Nat : /\ k + 1 \in 1..Len(StatsOf(n)) /\ left = Len(StatsOf(n)) - k
                             /\ place = [obj |-> n, stat |-> k + 1]
                             /\ given[n] = 1..k
                             /\ \A j \in 1..k : Parses(told.objects[n].kind, StatsOf(n)[j])
        BY <1>1, <2>3, <3>1, ReadsFacts
      <3>3. ~Parses(told.objects[n].kind, StatsOf(n)[k + 1])
        BY <1>1, <1>2, <3>1, <3>2 DEF Unknown
      <3>4. Readable(n) = 1..k
        <4>1. \A j \in 1..Len(StatsOf(n)) : j \notin 1..k => k + 1 \in 1..j
          BY <1>2, <3>1, <3>2
        <4>2. \A j \in 1..k : j \in 1..Len(StatsOf(n)) /\ 1..j \subseteq 1..k
          BY <1>2, <3>1, <3>2
        <4> QED
          BY <3>2, <3>3, <4>1, <4>2 DEF Readable
      <3>5. k + 1 \notin Readable(n) /\ left' <= Len(StatsOf(n)) - (k + 1)
        BY <1>1, <1>2, <3>1, <3>2, <3>4
      <3>6. place' \in {Astray, Start(n + 1)} /\ given'[n] = Readable(n) /\ seen' = n
        BY <1>1, <2>1, <3>1, <3>2, <3>4
      <3> QED
        BY <1>1, <3>2, <3>5, <3>6, NextJumped
    <2> QED
      BY <2>1, <2>2, <2>3
  <1>5. Positions'
    <2>1. target # 0 => place' = Start(seen + 1) /\ told.objects[seen].found
      BY <1>1, <1>2
    <2> QED
      BY <1>1, <1>2, <1>4, <2>1 DEF Positions, Start, Astray
  <1>6. Gives'
    BY <1>1, NextGives
  <1>7. Excused'
    <2>1. place' = Astray => Spoilt(seen)
      BY <1>1, <1>2 DEF StatsIInv, Excused
    <2>2. Spoilt(seen) => Spoilt(seen)'
      BY <1>1, NextSpoilt
    <2> QED
      BY <1>1, <2>1, <2>2, ToldStays DEF StatsIInv, Excused, Astray, Start
  <1> QED
    BY <1>3, <1>5, <1>6, <1>7 DEF StatsIInv

LEMMA MisreadStatKeeps ==
  ASSUME StatsAssumption, StatsIInv, MisreadStat
  PROVE  StatsIInv'
  <1>1. /\ stage = "stats" /\ left > 0 /\ left' = left - 1 /\ Misleads
        /\ place' = Astray /\ given' = given
        /\ wrong' = wrong \cup (IF target = 0 THEN Objects ELSE {target})
        /\ told' = told /\ stage' = stage /\ seen' = seen /\ target' = target /\ next' = next
    BY DEF MisreadStat, ReadsStat
  <1>2. /\ seen \in Objects /\ seen \in Nat \ {0} /\ Len(StatsOf(seen)) \in Nat
        /\ \/ target = 0 /\ place = Astray /\ next = Astray
           \/ /\ target = seen /\ next = Start(seen + 1) /\ next # Astray
              /\ told.objects[seen].found /\ (Reads \/ Jumped)
    BY <1>1, InStats
  <1>3. Spoilt(seen) /\ (target = 0 \/ Jumped)
    BY <1>1, Misled
  <1>4. Types'
    <2>1. Placed(place')
      BY <1>1 DEF Placed
    <2>2. left' \in 0..MaxStats
      BY <1>1, Numbers
    <2>3. wrong' \subseteq Objects
      BY <1>1, <1>2 DEF StatsIInv, Types, StatsTypeOK
    <2> QED
      BY <1>1, <2>1, <2>2, <2>3, NextTypes DEF StatsIInv, Types, StatsTypeOK
  <1>5. Positions'
    <2>1. target # 0 => told.objects[seen].found /\ Jumped'
      BY <1>1, <1>2, <1>3, JumpedStays
    <2> QED
      BY <1>1, <1>2, <2>1 DEF Positions, Start, Astray
  <1>6. Gives'
    BY <1>1, NextGives
  <1>7. Excused'
    <2>1. Spoilt(seen)'
      BY <1>1, <1>3, NextSpoilt
    <2>2. ASSUME NEW i \in wrong' PROVE Spoilt(i)' \/ target' = 0
      <3>1. CASE i \in wrong
        BY <1>1, <3>1, ToldStays DEF StatsIInv, Excused
      <3>2. CASE target # 0 /\ i = target
        <4>1. i = seen
          BY <1>2, <3>2
        <4>2. Spoilt(i)
          BY <1>3, <4>1
        <4> QED
          BY <1>1, <4>2, ToldStays
      <3> QED
        BY <1>1, <3>1, <3>2
    <2> QED
      BY <2>1, <2>2 DEF Excused
  <1> QED
    BY <1>4, <1>5, <1>6, <1>7 DEF StatsIInv

-----------------------------------------------------------------------------
LEMMA NextKeeps ==
  ASSUME StatsAssumption, StatsIInv, [StatsNext]_statsVars
  PROVE  StatsIInv'
  <1>1. CASE StatsNext
    BY <1>1, ReadObjectKeeps, ReadObjectAstrayKeeps, ReadStatKeeps, SkipStatKeeps, MisreadStatKeeps,
       EndStatsKeeps, PanicKeeps DEF StatsNext
  <1>2. CASE UNCHANGED statsVars
    <2>1. /\ told' = told /\ place' = place /\ seen' = seen /\ target' = target /\ left' = left
          /\ next' = next /\ given' = given /\ wrong' = wrong /\ stage' = stage
      BY <1>2 DEF statsVars
    <2>2. Placed(place')
      BY <2>1 DEF StatsIInv, Types, StatsTypeOK, Placed
    <2>3. Types'
      BY <2>1, <2>2, NextTypes DEF StatsIInv, Types, StatsTypeOK
    <2>4. Reads' = Reads /\ Jumped' = Jumped
      BY <2>1 DEF Reads, Jumped, StatsOf, StatAt, Start, Astray, Readable,
                  Parses, parsePlrStatData, parseObjStatData
    <2>5. Positions'
      BY <2>1, <2>4 DEF StatsIInv, Positions, Start, Astray
    <2>6. Gives'
      BY <2>1, ToldStays DEF StatsIInv, Gives
    <2>7. Excused'
      <3>1. Spoilt(seen) => Spoilt(seen)'
        BY <2>1, NextSpoilt
      <3> QED
        BY <2>1, <3>1, ToldStays DEF StatsIInv, Excused, Astray, Start
    <2> QED
      BY <2>3, <2>5, <2>6, <2>7 DEF StatsIInv
  <1> QED
    BY <1>1, <1>2

\* The invariant gives the property.
LEMMA IInvReaches ==
  ASSUME StatsIInv
  PROVE  StatsReach
  BY DEF StatsIInv, Types, Excused, Gives, StatsReach

\* Whatever the server writes into a packet, however many objects, stats and
\* kinds of them: an unknown stat costs the rest of its own object only, no
\* object gets a stat of another, and the reader does not leave the packet,
\* up to the first object whose unknown stat is followed by one that looks
\* like a stat.  (network.zig 643-738, 1072-1121)
THEOREM StatsReachEach ==
  ASSUME StatsAssumption
  PROVE  StatsSpec => []StatsReach
  <1>1. StatsInit => StatsIInv
    BY StatsInitIInv
  <1>2. StatsIInv /\ [StatsNext]_statsVars => StatsIInv'
    BY NextKeeps
  <1>3. StatsIInv => StatsReach
    BY IInvReaches
  <1> QED
    BY <1>1, <1>2, <1>3, PTL DEF StatsSpec

=============================================================================
