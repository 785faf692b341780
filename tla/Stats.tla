-------------------------------- MODULE Stats --------------------------------
(***************************************************************************)
(* How handleUpdate and handleNewTick of src/src/network.zig cut a packet  *)
(* into objects, and an object into stats: parsePlrStatData and            *)
(* parseObjStatData say which stats a player or an object has.  A stat     *)
(* says nothing of its length, so one that is unknown ends the object; the *)
(* loop over its stats goes on all the same.                               *)
(*                                                                         *)
(* Bytes are not represented.  The reader is at the start of an object, at *)
(* one of its stats, or astray; what is read astray is arbitrary.  What    *)
(* the first byte of an object would be as a stat is part of the packet.   *)
(***************************************************************************)
EXTENDS Naturals, Sequences

CONSTANTS
  Classes,    \* of stats: "both", "player", "object" or "none"
  MaxObjects, \* bound on the objects of a packet
  MaxStats    \* bound on the stats of all objects

\* What MCStream assumes of the constants.
StatsAssumption ==
  /\ Classes \subseteq {"both", "player", "object", "none"}
  /\ MaxObjects \in Nat /\ MaxStats \in Nat

VARIABLES
  told,    \* the packet: whether it is a NewTick; of every object its kind,
           \* whether NewTick finds its entity, and its stats; and what the
           \* first byte of an object, or behind the last, is as a stat
  place,   \* reader.index: obj and stat, where stat 0 is the object's start;
           \* obj is 0 if it is astray
  stage,   \* the loop it is in: "objects", "stats" or "panic"
  seen,    \* objects begun
  target,  \* the object whose stats are read; 0 if its header was read astray
  left,    \* stats left to read
  next,    \* next_obj_idx
  given,   \* the stats each entity was given
  wrong    \* history: the entities given what is not theirs

statsVars == <<told, place, stage, seen, target, left, next, given, wrong>>

parsePlrStatData(stat) == stat \in {"both", "player"}
parseObjStatData(stat) == stat \in {"both", "object"}
Parses(kind, stat) == IF kind = "player" THEN parsePlrStatData(stat) ELSE parseObjStatData(stat)

Objects == DOMAIN told.objects
Start(i) == [obj |-> i, stat |-> 0]
Astray == Start(0)
StatsOf(i) == told.objects[i].stats

\* Where stat j of object i is; behind the last is the next object's start.
StatAt(i, j) == IF j > Len(StatsOf(i)) THEN Start(i + 1) ELSE [obj |-> i, stat |-> j]

Object == [kind : {"player", "object"}, found : BOOLEAN,
           stats : UNION {[1..n -> Classes] : n \in 0..MaxStats}]

\* How many stats the first n objects have.
Total(objects) ==
  LET sum[n \in 0..Len(objects)] == IF n = 0 THEN 0 ELSE sum[n - 1] + Len(objects[n].stats)
  IN sum[Len(objects)]

\* A packet as the server writes it, and an Update's entities are its own.
Told == {t \in [tick : BOOLEAN, objects : UNION {[1..n -> Object] : n \in 0..MaxObjects},
                first : [1 .. MaxObjects + 1 -> BOOLEAN]] :
           /\ Total(t.objects) <= MaxStats
           /\ t.tick \/ \A i \in DOMAIN t.objects : t.objects[i].found}

StatsInit ==
  /\ told \in Told
  /\ place = Start(1) /\ stage = "objects" /\ seen = 0
  /\ target = 0 /\ left = 0 /\ next = Start(1)
  /\ given = [i \in Objects |-> {}] /\ wrong = {}

-----------------------------------------------------------------------------
\* An object's header, and what comes next: its stats, or, if NewTick does
\* not find a player or object of that id, the next object.
ReadObject ==
  LET i == place.obj IN
  /\ stage = "objects" /\ seen < Len(told.objects) /\ i # 0
  /\ seen' = seen + 1
  /\ next' = Start(i + 1)
  /\ target' = i /\ left' = Len(StatsOf(i))
  /\ IF told.objects[i].found
     THEN stage' = "stats" /\ place' = StatAt(i, 1)
     ELSE place' = next' /\ UNCHANGED stage
  /\ UNCHANGED <<told, given, wrong>>

\* A header read astray names any entity, or none, and has any lengths.
ReadObjectAstray ==
  /\ stage = "objects" /\ seen < Len(told.objects) /\ place = Astray
  /\ seen' = seen + 1
  /\ next' = Astray /\ target' = 0
  /\ left' \in 0..MaxStats
  /\ stage' \in {"objects", "stats"} /\ (told.tick \/ stage' = "stats")
  /\ UNCHANGED <<told, place, given, wrong>>

-----------------------------------------------------------------------------
ReadsStat == stage = "stats" /\ left > 0 /\ left' = left - 1

\* A stat of its own.
ReadStat ==
  LET i == place.obj
      j == place.stat
  IN
  /\ ReadsStat /\ i # 0 /\ j # 0
  /\ Parses(told.objects[i].kind, StatsOf(i)[j])
  /\ given' = [given EXCEPT ![i] = @ \cup {j}]
  /\ place' = StatAt(i, j + 1)
  /\ UNCHANGED <<told, stage, seen, target, next, wrong>>

\* The byte read as a stat's id is none, or one the entity does not have.
Unknown ==
  LET i == place.obj
      j == place.stat
  IN IF i = 0 THEN TRUE
     ELSE IF j = 0 THEN ~told.first[i]
     ELSE ~Parses(told.objects[i].kind, StatsOf(i)[j])

\* It is one, but not of this object.
Misleads == IF place.obj = 0 THEN TRUE ELSE place.stat = 0 /\ told.first[place.obj]

\* Mutant of SkipStat: the reader stays behind the stat's id.
SkipStatOnly ==
  /\ ReadsStat /\ Unknown
  /\ place' = IF place.obj = 0 \/ place.stat = 0 THEN Astray ELSE StatAt(place.obj, place.stat + 1)
  /\ UNCHANGED <<told, stage, seen, target, next, given, wrong>>

\* reader.index = next_obj_idx, and the loop goes on.
SkipStat ==
  /\ ReadsStat /\ Unknown
  /\ place' = next
  /\ UNCHANGED <<told, stage, seen, target, next, given, wrong>>

\* What is read as a stat is the start of the next object, or anything.
MisreadStat ==
  /\ ReadsStat /\ Misleads
  /\ place' = Astray
  /\ wrong' = wrong \cup (IF target = 0 THEN Objects ELSE {target})
  /\ UNCHANGED <<told, stage, seen, target, next, given>>

\* A length read astray leaves the buffer, or is too much for network_fba.
Panic ==
  /\ \/ stage = "stats" /\ left > 0 /\ Misleads
     \/ stage = "objects" /\ seen < Len(told.objects) /\ place = Astray
  /\ stage' = "panic"
  /\ UNCHANGED <<told, place, seen, target, left, next, given, wrong>>

\* The object is done; a new one is added to the map (see World).
EndStats ==
  /\ stage = "stats" /\ left = 0
  /\ stage' = "objects"
  /\ UNCHANGED <<told, place, seen, target, left, next, given, wrong>>

StatsNext ==
  \/ ReadObject \/ ReadObjectAstray
  \/ ReadStat \/ SkipStat \/ MisreadStat \/ EndStats
  \/ Panic

StatsSpec == StatsInit /\ [][StatsNext]_statsVars

-----------------------------------------------------------------------------
\* The reader is at an object or one of its stats.
StatsTypeOK ==
  /\ \A p \in {place, next} :
       p = Astray \/ (p.obj \in 1 .. Len(told.objects) + 1 /\ p.stat = 0)
       \/ (p.obj \in Objects /\ p.stat \in 1..Len(StatsOf(p.obj)))
  /\ stage \in {"objects", "stats", "panic"} /\ seen \in 0..Len(told.objects)
  /\ target \in 0..seen /\ left \in 0..MaxStats
  /\ \A i \in Objects : given[i] \subseteq 1..Len(StatsOf(i))
  /\ wrong \subseteq Objects

\* The stats before the first one that object i does not have.
Readable(i) ==
  {j \in 1..Len(StatsOf(i)) : \A k \in 1..j : Parses(told.objects[i].kind, StatsOf(i)[k])}

\* An unknown stat is not the last of object i, and the next object looks
\* like a stat.
Spoils(i) ==
  /\ told.objects[i].found /\ told.first[i + 1]
  /\ \E j \in 1 .. Len(StatsOf(i)) - 1 : j \notin Readable(i)

Spoilt(i) == \E m \in 1..i : m \in Objects /\ Spoils(m)

\* Every object gets its stats up to the first unknown one, and none of
\* another, and the reader stays in the packet: an unknown stat costs the rest
\* of its own object only.  Not so from the first object on whose unknown
\* stat is not its last and is followed by an object that begins like a stat.
\* (network.zig 643-738, 1072-1121)
StatsReach ==
  /\ StatsTypeOK
  /\ place = Astray \/ stage = "panic" => Spoilt(seen)
  /\ \A i \in Objects :
       /\ i \in wrong => Spoilt(i) \/ (Spoilt(seen) /\ target = 0)
       /\ i <= seen /\ ~Spoilt(i) /\ (i < seen \/ stage = "objects") =>
            given[i] = IF told.objects[i].found THEN Readable(i) ELSE {}
=============================================================================
