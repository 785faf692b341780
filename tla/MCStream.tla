------------------------------ MODULE MCStream ------------------------------
(***************************************************************************)
(* The two levels at which a packet is cut: accept cuts the stream into    *)
(* packets (PacketStream), a handler cuts a packet into objects and stats  *)
(* (Stats).  A behaviour is that of one level: accept moves reader.index   *)
(* to the packet's end wherever a handler left it.                         *)
(***************************************************************************)
EXTENDS PacketStream, Stats

ASSUME InsideAssumption == StatsAssumption

VARIABLE inside  \* whether it is the level of a handler
allVars == <<vars, statsVars, inside>>

\* At the other level, the handler is before a packet without objects.
Nobody == [tick |-> FALSE, objects |-> <<>>, first |-> [i \in 1 .. MaxObjects + 1 |-> FALSE]]

StreamInit ==
  /\ Init /\ StatsInit
  /\ inside \in BOOLEAN /\ (inside \/ told = Nobody)

StreamNext ==
  \/ ~inside /\ Next /\ UNCHANGED <<statsVars, inside>>
  \/ inside /\ StatsNext /\ UNCHANGED <<vars, inside>>

\* FairSpec of PacketStream, when it is that level.
StreamSpec ==
  /\ StreamInit /\ [][StreamNext]_allVars
  /\ WF_allVars(~inside /\ ~panicked /\ Accept /\ UNCHANGED <<statsVars, inside>>)
=============================================================================
