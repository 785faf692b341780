----------------------------- MODULE HitsProofs -----------------------------
(***************************************************************************)
(* Proofs about Hits: a shot reports a target once, claims to have killed  *)
(* are right, and what dies dies once.  The three hardly need one another, *)
(* and each follows a thing on its way: a shot that still flies, what the  *)
(* client keeps of an entity against what the server has, and who is       *)
(* between asking and setting dead.                                        *)
(***************************************************************************)
EXTENDS Hits, FiniteSetTheorems, TLAPS

-----------------------------------------------------------------------------
(* The inductive invariant: types.                                         *)

Struggle == {"test", "strike", "give", "report"}   \* in takeDamage or behind it

ShotType ==
  [kind : Kinds, born : Nat, checked : Int, hits : SUBSET Entity,
   said : Seq(Entity \cup {"square"}), flying : BOOLEAN]

ShotsOK ==
  /\ DOMAIN shots \subseteq 1..count.fired
  /\ shots \in [DOMAIN shots -> ShotType]
  /\ \A s \in DOMAIN shots : shots[s].born <= time /\ shots[s].checked <= time

EntsOK == ents \in [Entity -> [here : BOOLEAN, hp : 0..MaxHp, dead : BOOLEAN, cond : SUBSET Condition]]

WinType ==
  [pc : {"idle", "frame", "found"} \cup Struggle, todo : SUBSET Nat, shot : Nat, target : Entity,
   damage : Nat, kill : BOOLEAN, ver : Nat, cond : SUBSET Condition]

WinOK ==
  /\ win \in WinType
  /\ win.todo \subseteq DOMAIN shots
  /\ win.pc \in {"found"} \cup Struggle => win.shot \in win.todo
  /\ win.pc \in Struggle => win.target \in Hurt
  /\ win.pc = "give" => shots[win.shot].kind.effect # "none"

NetType ==
  [pc : {"idle", "strike", "give", "alive", "cond"}, target : Entity, kill : BOOLEAN,
   effect : Condition \cup {"none"}, ver : Nat, cond : SUBSET Condition]

NetOK ==
  /\ net \in NetType
  /\ net.pc \in {"strike", "give"} /\ ~net.kill => net.effect \in Condition
  /\ net.pc = "give" => ~net.kill
  /\ net.pc \in {"alive", "cond"} =>
       down # <<>> /\ Head(down).target = net.target /\ ents[net.target].hp = Head(down).hp

HitType == [target : Hurt, kill : BOOLEAN, ver : Nat, damage : {0, Damage}]
StatType == [target : Hurt, hp : 0..MaxHp, cond : SUBSET Condition, ver : Nat]

WiresOK == up \in Seq(HitType) /\ down \in Seq(StatType)

ServerOK ==
  /\ server \in [Hurt -> [hp : 0..MaxHp, cond : SUBSET Condition, ver : Nat]]
  /\ known \in [Entity -> Nat]

HistoryType ==
  [died : [Entity -> Nat], overlap : BOOLEAN, stale : BOOLEAN, told : SUBSET Entity, wrong : BOOLEAN]

CountsOK ==
  /\ time \in 0..MaxTime
  /\ count \in [fired : Nat, events : Nat]
  /\ history \in HistoryType

Types == ShotsOK /\ EntsOK /\ WinOK /\ NetOK /\ WiresOK /\ ServerOK /\ CountsOK

-----------------------------------------------------------------------------
(* Reports.                                                                *)

\* A shot that ended is not looked at again before it is removed.
Flight == \A s \in DOMAIN shots : s \in win.todo \/ win.pc = "idle" => shots[s].flying

\* One that flies has reported only what it has noted as hit, all of it
\* something that can be hurt, and nothing if it hits once.
Noted ==
  \A s \in DOMAIN shots : shots[s].flying =>
    /\ \A i \in DOMAIN shots[s].said : shots[s].said[i] \in Hurt \cap shots[s].hits
    /\ ~shots[s].kind.multi => shots[s].said = <<>>

\* What it is about to report it has not noted.
Fresh == win.pc \in Struggle => win.target \notin shots[win.shot].hits

Reports == EachHitOnce /\ Flight /\ Noted /\ Fresh

-----------------------------------------------------------------------------
(* Claims.                                                                 *)

\* What is told comes in order, none older than what the client keeps, and
\* what is as new as the server's has its conditions and no less hp.
Order ==
  /\ \A i, j \in DOMAIN down : i < j /\ down[i].target = down[j].target => down[i].ver <= down[j].ver
  /\ \A i \in DOMAIN down :
       LET e == down[i].target IN
       /\ known[e] <= down[i].ver /\ down[i].ver <= server[e].ver
       /\ down[i].ver = server[e].ver => down[i].cond = server[e].cond /\ server[e].hp <= down[i].hp

\* The server's conditions are among these, and its hp is not above the
\* client's, unless ver is an old one.
Current(e, ver, cond) ==
  /\ ver <= server[e].ver
  /\ ver = server[e].ver => server[e].cond \subseteq cond /\ server[e].hp <= ents[e].hp

\* What the client keeps, and what a thread has loaded to store it again.
Kept ==
  /\ \A e \in Hurt : Current(e, known[e], ents[e].cond)
  /\ win.pc = "give" => win.ver <= known[win.target] /\ Current(win.target, win.ver, win.cond)
  /\ net.pc = "give" /\ net.target \in Hurt =>
       /\ known[net.target] <= net.ver /\ Current(net.target, net.ver, net.cond)
       /\ \A i \in DOMAIN down : down[i].target = net.target => net.ver <= down[i].ver

\* A hit that claims to have killed would.
Deadly(e, ver, damage) ==
  ver = server[e].ver => server[e].hp <= damageWithDefense(damage, server[e].cond)

Claims ==
  /\ ~history.wrong
  /\ win.pc \in Struggle => win.ver <= server[win.target].ver
  /\ win.pc \in Struggle /\ win.kill => Deadly(win.target, win.ver, shots[win.shot].kind.damage)
  /\ win.pc = "give" => ~win.kill
  /\ \A i \in DOMAIN up :
       /\ up[i].ver <= server[up[i].target].ver
       /\ up[i].kill => Deadly(up[i].target, up[i].ver, up[i].damage)

Told == Order /\ Kept /\ Claims

-----------------------------------------------------------------------------
(* Deaths.                                                                 *)

\* Without an overlap who is about to set dead finds it not set.
Once ==
  ~history.overlap =>
    /\ \A e \in Entity : history.died[e] <= 1 /\ (history.died[e] = 1 => ents[e].dead)
    /\ win.pc = "strike" => ~ents[win.target].dead
    /\ net.pc = "strike" => ~ents[net.target].dead

\* DeadIsLow holds but while the hp of a status is set and dead is not.
Low ==
  /\ win.pc \in Struggle => win.damage <= damageWithDefense(Damage, {})
  /\ \A e \in Hurt : ents[e].dead =>
       \/ ents[e].hp <= damageWithDefense(Damage, {})
       \/ e \in history.told \/ history.stale
       \/ net.pc = "alive" /\ net.target = e

IInv == Types /\ Reports /\ Told /\ Once /\ Low

\* A step after which an entity shows the same hp and conditions.
Shows(e) == ents'[e].hp = ents[e].hp /\ ents'[e].cond = ents[e].cond

-----------------------------------------------------------------------------
(* Operators. *)

LEMMA DamageFacts ==
  ASSUME NEW d \in {0, Damage}, NEW cond
  PROVE  /\ damageWithDefense(d, cond) \in Nat
         /\ damageWithDefense(d, cond) <= damageWithDefense(Damage, {})
<1>1. Defence \in Nat /\ Damage \in Nat
  BY HitsAssumption
<1>2. Damage \div 4 \in Nat /\ 0 \div 4 = 0
  BY <1>1
<1>3. damageWithDefense(Damage, {}) = IF Damage - Defence > Damage \div 4 THEN Damage - Defence ELSE Damage \div 4
  BY DEF damageWithDefense
<1>4. damageWithDefense(Damage, {}) \in Nat /\ damageWithDefense(Damage, {}) >= Damage \div 4
      /\ damageWithDefense(Damage, {}) >= Damage - Defence
  BY <1>1, <1>2, <1>3
<1>5. CASE cond \cap {"invulnerable", "invincible"} # {}
  BY <1>5, <1>4 DEF damageWithDefense
<1>6. CASE cond \cap {"invulnerable", "invincible"} = {} /\ d = 0
  <2>1. damageWithDefense(0, cond) = 0
    <3>1. CASE "armored" \in cond
      BY <1>1, <1>2, <1>6, <3>1 DEF damageWithDefense
    <3>2. CASE "armored" \notin cond
      BY <1>1, <1>2, <1>6, <3>2 DEF damageWithDefense
    <3> QED BY <3>1, <3>2
  <2> QED BY <2>1, <1>6, <1>4
<1>7. CASE cond \cap {"invulnerable", "invincible"} = {} /\ d = Damage
  <2>1. CASE "armored" \in cond
    BY <1>1, <1>2, <1>4, <1>7, <2>1 DEF damageWithDefense
  <2>2. CASE "armored" \notin cond
    BY <1>1, <1>2, <1>4, <1>7, <2>2 DEF damageWithDefense
  <2> QED BY <2>1, <2>2
<1> QED BY <1>5, <1>6, <1>7

\* More conditions let less damage through.
LEMMA DamageAntitone ==
  ASSUME NEW d \in {0, Damage}, NEW c1, NEW c2, c1 \subseteq c2
  PROVE  damageWithDefense(d, c2) <= damageWithDefense(d, c1)
<1>1. Defence \in Nat /\ d \in Nat /\ d \div 4 \in Nat
  BY HitsAssumption
<1>2. CASE c2 \cap {"invulnerable", "invincible"} # {}
  <2>1. damageWithDefense(d, c2) = 0
    BY <1>2 DEF damageWithDefense
  <2> QED BY <2>1, DamageFacts
<1>3. CASE c2 \cap {"invulnerable", "invincible"} = {}
  <2>1. c1 \cap {"invulnerable", "invincible"} = {}
    BY <1>3
  <2>2. CASE "armored" \in c2
    BY <1>1, <1>3, <2>1, <2>2 DEF damageWithDefense
  <2>3. CASE "armored" \notin c2
    <3>1. "armored" \notin c1
      BY <2>3
    <3> QED BY <1>1, <1>3, <2>1, <2>3, <3>1 DEF damageWithDefense
  <2> QED BY <2>2, <2>3
<1> QED BY <1>2, <1>3

LEMMA HurtIsEntity == Hurt \subseteq Entity /\ Me \in Hurt /\ "square" \notin Hurt
BY HitsAssumption DEF Hurt, Entity

\* Only the named shot changes.
LEMMA ReportEffect ==
  ASSUME ShotsOK, CountsOK, NEW s \in DOMAIN shots, NEW target \in Entity \cup {"square"},
         NEW kill \in BOOLEAN, NEW stays \in BOOLEAN, stays => target \in Entity,
         Report(s, target, kill, stays)
  PROVE  /\ DOMAIN shots' = DOMAIN shots
         /\ \A r \in DOMAIN shots \ {s} : shots'[r] = shots[r]
         /\ shots'[s].kind = shots[s].kind /\ shots'[s].born = shots[s].born
         /\ shots'[s].said = Append(shots[s].said, target)
         /\ shots'[s].flying = stays
         /\ shots'[s].hits = IF stays THEN shots[s].hits \cup {target} ELSE shots[s].hits
         /\ shots'[s].checked = IF stays THEN time ELSE shots[s].checked
         /\ shots' \in [DOMAIN shots -> ShotType]
<1> DEFINE said == Append(shots[s].said, target)
           hits == IF stays THEN shots[s].hits \cup {target} ELSE shots[s].hits
           checked == IF stays THEN time ELSE shots[s].checked
           rec == [shots[s] EXCEPT !.said = said, !.flying = stays, !.hits = hits, !.checked = checked]
<1>1. shots[s] \in ShotType /\ time \in Int
  BY DEF ShotsOK, CountsOK
<1>2. said \in Seq(Entity \cup {"square"}) /\ hits \in SUBSET Entity /\ checked \in Int
  BY <1>1 DEF ShotType
<1>3. shots' = [shots EXCEPT ![s] = rec]
  BY <1>1 DEF Report, ShotType
<1> HIDE DEF said, hits, checked
<1>4. /\ rec \in ShotType
      /\ rec.kind = shots[s].kind /\ rec.born = shots[s].born
      /\ rec.said = said /\ rec.flying = stays /\ rec.hits = hits /\ rec.checked = checked
  BY <1>1, <1>2 DEF ShotType
<1> HIDE DEF rec
<1>5. shots'[s] = rec /\ DOMAIN shots' = DOMAIN shots /\ \A r \in DOMAIN shots \ {s} : shots'[r] = shots[r]
  BY <1>3
<1>6. shots' \in [DOMAIN shots -> ShotType]
  BY <1>3, <1>4 DEF ShotsOK
<1> QED BY <1>4, <1>5, <1>6 DEF said, hits, checked

LEMMA KeepEffect ==
  ASSUME ShotsOK, NEW s \in DOMAIN shots, NEW checked \in Int, NEW stays \in BOOLEAN,
         NEW hits \in SUBSET Entity, Keep(s, checked, stays, hits)
  PROVE  /\ DOMAIN shots' = DOMAIN shots
         /\ \A r \in DOMAIN shots \ {s} : shots'[r] = shots[r]
         /\ shots'[s].kind = shots[s].kind /\ shots'[s].born = shots[s].born
         /\ shots'[s].said = shots[s].said
         /\ shots'[s].flying = stays /\ shots'[s].hits = hits /\ shots'[s].checked = checked
         /\ shots' \in [DOMAIN shots -> ShotType]
         /\ up' = up
<1> DEFINE rec == [shots[s] EXCEPT !.checked = checked, !.flying = stays, !.hits = hits]
<1>1. shots[s] \in ShotType
  BY DEF ShotsOK
<1>2. shots' = [shots EXCEPT ![s] = rec] /\ up' = up
  BY <1>1 DEF Keep, ShotType
<1>3. /\ rec \in ShotType
      /\ rec.kind = shots[s].kind /\ rec.born = shots[s].born /\ rec.said = shots[s].said
      /\ rec.flying = stays /\ rec.hits = hits /\ rec.checked = checked
  BY <1>1 DEF ShotType
<1> HIDE DEF rec
<1>4. shots'[s] = rec /\ DOMAIN shots' = DOMAIN shots /\ \A r \in DOMAIN shots \ {s} : shots'[r] = shots[r]
  BY <1>2
<1>5. shots' \in [DOMAIN shots -> ShotType]
  BY <1>2, <1>3 DEF ShotsOK
<1> QED BY <1>2, <1>3, <1>4, <1>5

LEMMA AddedEffect ==
  ASSUME ShotsOK, CountsOK, NEW kind \in Kinds, Fires, shots' = Added(kind)
  PROVE  /\ count.fired + 1 \notin DOMAIN shots
         /\ DOMAIN shots' = DOMAIN shots \cup {count.fired + 1}
         /\ \A s \in DOMAIN shots : shots'[s] = shots[s]
         /\ LET new == shots'[count.fired + 1] IN
              /\ new.kind = kind /\ new.born = time /\ new.checked < time
              /\ new.hits = {} /\ new.said = <<>> /\ new.flying
         /\ shots' \in [DOMAIN shots' -> ShotType]
         /\ count' \in [fired : Nat, events : Nat] /\ count'.fired = count.fired + 1
<1> DEFINE n == count.fired + 1
<1>1. n \in Nat /\ count'.fired = n /\ count' \in [fired : Nat, events : Nat]
  BY DEF CountsOK, Fires
<1>2. n \notin DOMAIN shots
  BY <1>1 DEF ShotsOK, CountsOK
<1>3. Shot(kind) \in ShotType
  <2>1. time \in Nat /\ -1 - Interval \in Int
    BY HitsAssumption DEF CountsOK
  <2> QED BY <2>1 DEF Shot, ShotType
<1>4. -1 - Interval < time
  BY HitsAssumption DEF CountsOK
<1>5. /\ DOMAIN shots' = DOMAIN shots \cup {n}
      /\ \A s \in DOMAIN shots : shots'[s] = shots[s]
      /\ shots'[n] = Shot(kind)
  BY <1>2 DEF Added
<1>6. shots' \in [DOMAIN shots' -> ShotType]
  BY <1>3, <1>5, <1>2 DEF Added, ShotsOK
<1> QED BY <1>1, <1>2, <1>4, <1>5, <1>6 DEF Shot

LEMMA EndedEffect ==
  ASSUME WinOK, NEW s \in win.todo, Ended(s)
  PROVE  /\ win' \in WinType
         /\ win'.pc = "frame" /\ win'.todo = win.todo \ {s}
<1>1. win' = [pc |-> "frame", todo |-> win.todo \ {s}, shot |-> 0, target |-> Me, damage |-> 0,
              kill |-> FALSE, ver |-> 0, cond |-> {}]
  BY DEF WinOK, WinType, Ended
<1>2. Me \in Entity
  BY HurtIsEntity
<1> QED BY <1>1, <1>2 DEF WinOK, WinType

-----------------------------------------------------------------------------
(* Types. *)

LEMMA KindFacts ==
  ASSUME ShotsOK, NEW s \in DOMAIN shots
  PROVE  /\ shots[s].kind.damage \in {0, Damage} /\ shots[s].kind.effect \in Condition \cup {"none"}
         /\ shots[s].kind.multi \in BOOLEAN
BY HitsAssumption DEF ShotsOK, ShotType

LEMMA ReportUp ==
  ASSUME Types, NEW s \in DOMAIN shots, NEW target, NEW kill \in BOOLEAN, NEW stays,
         Report(s, target, kill, stays)
  PROVE  up' \in Seq(HitType) /\ (target \notin Hurt => up' = up)
<1> DEFINE hit == [target |-> target, kill |-> kill /\ target \in Enemies, ver |-> win.ver,
                   damage |-> shots[s].kind.damage]
<1>1. CASE target \in Hurt
  <2>1. hit \in HitType
    <3>1. shots[s].kind.damage \in {0, Damage} /\ win.ver \in Nat
      BY KindFacts DEF Types, WinOK, WinType
    <3> QED BY <1>1, <3>1 DEF HitType
  <2>2. up' = Append(up, hit) \/ up' = up
    BY DEF Report
  <2> HIDE DEF hit
  <2> QED BY <1>1, <2>1, <2>2 DEF Types, WiresOK
<1>2. CASE target \notin Hurt
  BY <1>2 DEF Report, Types, WiresOK
<1> QED BY <1>1, <1>2

\* A shot's turn ends.
LEMMA EndTypes ==
  ASSUME Types, NEW s \in win.todo, Ended(s),
         UNCHANGED <<time, ents, net, down, server, known, history, count>>,
         DOMAIN shots' = DOMAIN shots, shots' \in [DOMAIN shots -> ShotType],
         \A r \in DOMAIN shots \ {s} : shots'[r] = shots[r],
         shots'[s].born <= time, shots'[s].checked <= time,
         up' \in Seq(HitType)
  PROVE  Types'
<1>1. ShotsOK'
  <2>1. \A r \in DOMAIN shots' : shots'[r].born <= time /\ shots'[r].checked <= time
    BY DEF Types, ShotsOK
  <2> QED BY <2>1 DEF Types, ShotsOK
<1>2. WinOK'
  BY EndedEffect DEF Types, WinOK, Struggle
<1>3. EntsOK' /\ NetOK' /\ ServerOK'
  BY DEF Types, EntsOK, NetOK, ServerOK
<1>4. WiresOK' /\ CountsOK'
  BY DEF Types, WiresOK, CountsOK
<1> QED BY <1>1, <1>2, <1>3, <1>4 DEF Types

LEMMA ReportTypes ==
  ASSUME Types, NEW s \in win.todo, Ended(s), NEW target \in Entity \cup {"square"},
         NEW kill \in BOOLEAN, NEW stays \in BOOLEAN, stays => target \in Entity,
         Report(s, target, kill, stays),
         UNCHANGED <<time, ents, net, down, server, known, history, count>>
  PROVE  Types'
<1>1. s \in DOMAIN shots /\ ShotsOK /\ CountsOK
  BY DEF Types, WinOK
<1>2. shots[s].born <= time /\ shots[s].checked <= time /\ time \in Nat
  BY <1>1 DEF ShotsOK, CountsOK
<1>3. up' \in Seq(HitType)
  BY <1>1, ReportUp
<1>4. shots'[s].born = shots[s].born /\ shots'[s].checked = IF stays THEN time ELSE shots[s].checked
  BY <1>1, ReportEffect
<1>5. shots'[s].born <= time /\ shots'[s].checked <= time
  BY <1>2, <1>4
<1> QED BY <1>1, <1>3, <1>5, ReportEffect, EndTypes

LEMMA KeepTypes ==
  ASSUME Types, NEW s \in win.todo, Ended(s), NEW checked \in Int, checked <= time,
         NEW stays \in BOOLEAN, NEW hits \in SUBSET Entity, Keep(s, checked, stays, hits),
         UNCHANGED <<time, ents, net, down, server, known, history, count>>
  PROVE  Types'
<1>1. s \in DOMAIN shots /\ ShotsOK
  BY DEF Types, WinOK
<1>2. shots[s].born <= time
  BY <1>1 DEF ShotsOK
<1>3. up' \in Seq(HitType)
  BY <1>1, KeepEffect DEF Types, WiresOK
<1> QED BY <1>1, <1>2, <1>3, KeepEffect, EndTypes

LEMMA FrameBeginTypes ==
  ASSUME Types, FrameBegin PROVE Types'
<1>1. time \in Nat /\ time' = time + 1 /\ time' \in 0..MaxTime
  BY HitsAssumption DEF Types, CountsOK, FrameBegin
<1>2. ShotsOK'
  <2>1. \A r \in DOMAIN shots : shots[r].born <= time' /\ shots[r].checked <= time'
    BY <1>1 DEF Types, ShotsOK, ShotType
  <2> QED BY <2>1 DEF Types, ShotsOK, FrameBegin
<1>3. WinOK'
  <2>1. DOMAIN shots \subseteq Nat
    BY DEF Types, ShotsOK, CountsOK
  <2> QED BY <2>1 DEF Types, WinOK, WinType, FrameBegin, Struggle
<1>4. EntsOK' /\ NetOK' /\ ServerOK' /\ WiresOK'
  BY DEF Types, EntsOK, NetOK, ServerOK, WiresOK, FrameBegin
<1>5. CountsOK'
  BY <1>1 DEF Types, CountsOK, FrameBegin
<1> QED BY <1>2, <1>3, <1>4, <1>5 DEF Types

\* A shot is added.
LEMMA AddedTypes ==
  ASSUME Types, NEW kind \in Kinds, Fires, shots' = Added(kind),
         UNCHANGED <<time, ents, win, net, up, down, server, known, history>>
  PROVE  Types'
<1>1. ShotsOK /\ CountsOK
  BY DEF Types
<1>2. ShotsOK'
  <2>1. DOMAIN shots' \subseteq 1..count'.fired
    BY <1>1, AddedEffect DEF ShotsOK, CountsOK
  <2>2. \A s \in DOMAIN shots' : shots'[s].born <= time /\ shots'[s].checked <= time
    <3>1. TAKE s \in DOMAIN shots'
    <3>2. CASE s \in DOMAIN shots
      BY <1>1, <3>2, AddedEffect DEF ShotsOK
    <3>3. CASE s = count.fired + 1
      BY <1>1, <3>3, AddedEffect DEF ShotsOK, ShotType, CountsOK
    <3> QED BY <1>1, <3>1, <3>2, <3>3, AddedEffect
  <2> QED BY <1>1, <2>1, <2>2, AddedEffect DEF ShotsOK
<1>3. WinOK'
  BY <1>1, AddedEffect DEF Types, WinOK, Struggle
<1>4. EntsOK' /\ NetOK' /\ ServerOK' /\ WiresOK'
  BY DEF Types, EntsOK, NetOK, ServerOK, WiresOK
<1>5. CountsOK'
  BY <1>1, AddedEffect DEF CountsOK
<1> QED BY <1>2, <1>3, <1>4, <1>5 DEF Types

LEMMA FrameEndTypes ==
  ASSUME Types, FrameEnd PROVE Types'
<1> DEFINE left == {s \in DOMAIN shots : shots[s].flying}
<1>1. shots' = [s \in left |-> shots[s]]
  BY DEF FrameEnd, Restrict
<1>2. ShotsOK'
  BY <1>1 DEF Types, ShotsOK, FrameEnd
<1>3. WinOK'
  BY HurtIsEntity DEF WinOK, WinType, FrameEnd, Idle, Struggle
<1>4. EntsOK' /\ NetOK' /\ ServerOK' /\ WiresOK' /\ CountsOK'
  BY DEF Types, EntsOK, NetOK, ServerOK, WiresOK, CountsOK, FrameEnd
<1> QED BY <1>2, <1>3, <1>4 DEF Types

LEMMA UpdateShotTypes ==
  ASSUME Types, NEW s \in DOMAIN shots, UpdateShot(s) PROVE Types'
<1>1. /\ shots[s] \in ShotType /\ shots[s].checked \in Int /\ shots[s].checked <= time
      /\ shots[s].hits \in SUBSET Entity /\ time \in Int /\ time <= time
  BY DEF Types, ShotsOK, ShotType, CountsOK
<1>2. CASE Expire(s)
  BY <1>1, <1>2, KeepTypes DEF Expire, Turn
<1>3. CASE MeetGround(s)
  <2>1. CASE shots[s].kind.by = "enemy"
    BY <1>3, <2>1, ReportTypes DEF MeetGround, Turn
  <2>2. CASE shots[s].kind.by # "enemy"
    BY <1>1, <1>3, <2>2, KeepTypes DEF MeetGround, Turn
  <2> QED BY <2>1, <2>2
<1>4. CASE MeetNothing(s)
  <2> DEFINE checked == IF Due(s) THEN time ELSE shots[s].checked
  <2>1. checked \in Int /\ checked <= time
    BY <1>1
  <2>2. Keep(s, checked, TRUE, shots[s].hits)
    BY <1>4 DEF MeetNothing
  <2> HIDE DEF checked
  <2> QED BY <1>1, <1>4, <2>1, <2>2, KeepTypes DEF MeetNothing, Turn
<1>5. ASSUME NEW e \in Entity, MeetCover(s, e) PROVE Types'
  <2>1. CASE shots[s].kind.by = "enemy"
    BY <1>5, <2>1, ReportTypes DEF MeetCover, Turn
  <2>2. CASE shots[s].kind.by # "enemy"
    BY <1>1, <1>5, <2>2, KeepTypes DEF MeetCover, Turn
  <2> QED BY <2>1, <2>2
<1>6. ASSUME NEW e \in Entity, FindTarget(s, e) PROVE Types'
  <2>1. WinOK'
    BY <1>6 DEF Types, WinOK, WinType, FindTarget, Turn, Struggle
  <2>2. ShotsOK' /\ EntsOK' /\ NetOK' /\ ServerOK' /\ WiresOK' /\ CountsOK'
    BY <1>6 DEF Types, ShotsOK, EntsOK, NetOK, ServerOK, WiresOK, CountsOK, FindTarget
  <2> QED BY <2>1, <2>2 DEF Types
<1> QED BY <1>2, <1>3, <1>4, <1>5, <1>6 DEF UpdateShot

LEMMA MeetTypes ==
  ASSUME Types, MeetImmune \/ MeetInvulnerable \/ MeetOther \/ ReportHit PROVE Types'
<1> DEFINE s == win.shot
<1>1. /\ s \in win.todo /\ s \in DOMAIN shots /\ win.target \in Entity
      /\ win.kill \in BOOLEAN
  BY DEF Types, WinOK, WinType, MeetImmune, MeetInvulnerable, MeetOther, ReportHit, Found, Vulnerable, Struggle
<1>2. /\ shots \in [DOMAIN shots -> ShotType] /\ shots[s].checked \in Int /\ shots[s].checked <= time
      /\ shots[s].born <= time
      /\ shots[s].hits \in SUBSET Entity /\ time \in Int /\ time <= time
      /\ shots[s].kind.multi \in BOOLEAN
  BY <1>1, KindFacts DEF Types, ShotsOK, ShotType, CountsOK
<1>3. CASE MeetImmune
  <2>1. up \in Seq(HitType)
    BY DEF Types, WiresOK
  <2> QED BY <1>1, <1>2, <1>3, <2>1, EndTypes DEF MeetImmune
<1>4. CASE MeetInvulnerable
  BY <1>1, <1>2, <1>4, KeepTypes DEF MeetInvulnerable
<1>5. CASE MeetOther
  <2>1. CASE shots[s].kind.multi
    <3>1. shots[s].hits \cup {win.target} \in SUBSET Entity
      BY <1>1, <1>2
    <3> QED BY <1>1, <1>2, <1>5, <2>1, <3>1, KeepTypes DEF MeetOther
  <2>2. CASE ~shots[s].kind.multi
    BY <1>1, <1>2, <1>5, <2>2, ReportTypes DEF MeetOther
  <2> QED BY <2>1, <2>2
<1>6. CASE ReportHit
  BY <1>1, <1>2, <1>6, ReportTypes DEF ReportHit
<1> QED BY <1>3, <1>4, <1>5, <1>6

LEMMA ReckonEffect ==
  ASSUME Types, Reckon
  PROVE  /\ win' \in WinType
         /\ win'.pc = "test" /\ win'.shot = win.shot /\ win'.target = win.target /\ win'.todo = win.todo
         /\ win'.damage = damageWithDefense(shots[win.shot].kind.damage, ents[win.target].cond)
         /\ win'.kill = (ents[win.target].hp <= win'.damage)
         /\ win'.ver = known[win.target]
<1> DEFINE d == damageWithDefense(shots[win.shot].kind.damage, ents[win.target].cond)
           k == ents[win.target].hp <= d
           v == known[win.target]
<1>1. win.shot \in DOMAIN shots /\ v \in Nat
  BY DEF Types, WinOK, WinType, ServerOK, Reckon, Vulnerable, Found
<1>2. d \in Nat
  BY <1>1, KindFacts, DamageFacts DEF Types
<1>3. k \in BOOLEAN
  OBVIOUS
<1>4. win' = [win EXCEPT !.pc = "test", !.damage = d, !.kill = k, !.ver = v]
  BY DEF Reckon
<1> HIDE DEF d, k, v
<1>5. win'.damage = d /\ win'.kill = k /\ win'.ver = v /\ win' \in WinType /\ win'.pc = "test"
      /\ win'.shot = win.shot /\ win'.target = win.target /\ win'.todo = win.todo
  BY <1>1, <1>2, <1>3, <1>4 DEF Types, WinOK, WinType, Struggle
<1> QED BY <1>5 DEF d, k, v

LEMMA ReckonTypes ==
  ASSUME Types, Reckon PROVE Types'
<1>1. WinOK'
  BY ReckonEffect DEF Types, WinOK, Reckon, Vulnerable, Found
<1>2. ShotsOK' /\ EntsOK' /\ NetOK' /\ ServerOK' /\ WiresOK' /\ CountsOK'
  BY DEF Types, ShotsOK, EntsOK, NetOK, ServerOK, WiresOK, CountsOK, Reckon
<1> QED BY <1>1, <1>2 DEF Types

LEMMA TestTypes ==
  ASSUME Types, Test PROVE Types'
<1>1. WinOK'
  BY DEF Types, WinOK, WinType, Test, Struggle
<1>2. ShotsOK' /\ EntsOK' /\ NetOK' /\ ServerOK' /\ WiresOK' /\ CountsOK'
  BY DEF Types, ShotsOK, EntsOK, NetOK, ServerOK, WiresOK, CountsOK, Test
<1> QED BY <1>1, <1>2 DEF Types

\* What killing and giving do to the entities.
LEMMA KilledEffect ==
  ASSUME EntsOK, NEW e \in Entity, Killed(e)
  PROVE  /\ EntsOK'
         /\ \A x \in Entity : /\ ents'[x].hp = ents[x].hp /\ ents'[x].cond = ents[x].cond
                              /\ ents'[x].here = ents[x].here
                              /\ ents'[x].dead = (ents[x].dead \/ x = e)
BY DEF EntsOK, Killed

LEMMA GivenEffect ==
  ASSUME EntsOK, NEW e \in Entity, NEW cond \in SUBSET Condition, NEW effect \in Condition,
         Given(e, cond, effect)
  PROVE  /\ EntsOK'
         /\ \A x \in Entity : /\ ents'[x].hp = ents[x].hp
                              /\ ents'[x].cond = IF x = e THEN cond \cup {effect} ELSE ents[x].cond
                              /\ ents'[x].here = ents[x].here
                              /\ ents'[x].dead = ents[x].dead
<1>1. cond \cup {effect} \in SUBSET Condition
  OBVIOUS
<1> QED BY <1>1 DEF EntsOK, Given


\* An entity dies.
LEMMA DiedEffect ==
  ASSUME CountsOK, NEW e \in Entity, NEW overlap \in BOOLEAN, NEW stale \in BOOLEAN, NEW told \in SUBSET Entity,
         history' = [history EXCEPT !.died[e] = @ + 1, !.overlap = overlap, !.stale = stale, !.told = told]
  PROVE  /\ history' \in HistoryType
         /\ \A x \in Entity : history'.died[x] = IF x = e THEN history.died[x] + 1 ELSE history.died[x]
         /\ history'.overlap = overlap /\ history'.stale = stale /\ history'.told = told
         /\ history'.wrong = history.wrong
<1> DEFINE died == [history.died EXCEPT ![e] = @ + 1]
<1>1. history \in HistoryType /\ history.died \in [Entity -> Nat]
  BY DEF CountsOK, HistoryType
<1>2. history' = [history EXCEPT !.died = died, !.overlap = overlap, !.stale = stale, !.told = told]
  BY <1>1 DEF HistoryType
<1>3. died \in [Entity -> Nat] /\ \A x \in Entity : died[x] = IF x = e THEN history.died[x] + 1 ELSE history.died[x]
  BY <1>1
<1> HIDE DEF died
<1>4. history'.died = died /\ history'.overlap = overlap /\ history'.stale = stale /\ history'.told = told
      /\ history'.wrong = history.wrong /\ history' \in HistoryType
  BY <1>1, <1>2, <1>3 DEF HistoryType
<1> QED BY <1>3, <1>4

\* NetOK while hp, the packet and the wire stay.
LEMMA SameNet ==
  ASSUME Types, UNCHANGED <<net, down>>, \A x \in Entity : ents'[x].hp = ents[x].hp
  PROVE  NetOK'
BY DEF Types, NetOK, NetType

\* What a blow does to the history.
LEMMA StrikeDied ==
  ASSUME CountsOK, win.target \in Entity, Strike, win.kill
  PROVE  /\ history' \in HistoryType
         /\ \A x \in Entity : history'.died[x] = IF x = win.target THEN history.died[x] + 1 ELSE history.died[x]
         /\ history'.overlap = (history.overlap \/ BothAt(win.target))
         /\ history'.stale = (history.stale \/ ents[win.target].hp > win.damage)
         /\ history'.told = history.told /\ history'.wrong = history.wrong
<1> DEFINE overlap == history.overlap \/ BothAt(win.target)
           stale == history.stale \/ ents[win.target].hp > win.damage
<1>1. /\ history \in HistoryType /\ history.told \in SUBSET Entity
      /\ overlap \in BOOLEAN /\ stale \in BOOLEAN
  BY DEF CountsOK, HistoryType, BothAt
<1>2. history' = [history EXCEPT !.died[win.target] = @ + 1, !.overlap = overlap, !.stale = stale]
  BY DEF Strike
<1> HIDE DEF overlap, stale
<1>3. history' = [history EXCEPT !.died[win.target] = @ + 1, !.overlap = overlap, !.stale = stale,
                                 !.told = history.told]
  BY <1>1, <1>2 DEF HistoryType
<1>4. /\ history' \in HistoryType
      /\ \A x \in Entity : history'.died[x] = IF x = win.target THEN history.died[x] + 1 ELSE history.died[x]
      /\ history'.overlap = overlap /\ history'.stale = stale /\ history'.told = history.told
      /\ history'.wrong = history.wrong
  BY <1>1, <1>3, DiedEffect, ZenonT(60)
<1> QED BY <1>4 DEF overlap, stale

LEMMA DamageDied ==
  ASSUME CountsOK, net.target \in Entity, DamageStrike, net.kill
  PROVE  /\ history' \in HistoryType
         /\ \A x \in Entity : history'.died[x] = IF x = net.target THEN history.died[x] + 1 ELSE history.died[x]
         /\ history'.overlap = (history.overlap \/ BothAt(net.target))
         /\ history'.told = history.told \cup {net.target}
         /\ history'.stale = history.stale /\ history'.wrong = history.wrong
<1> DEFINE overlap == history.overlap \/ BothAt(net.target)
           told == history.told \cup {net.target}
<1>1. /\ history \in HistoryType /\ history.stale \in BOOLEAN
      /\ overlap \in BOOLEAN /\ told \in SUBSET Entity
  BY DEF CountsOK, HistoryType, BothAt
<1>2. history' = [history EXCEPT !.died[net.target] = @ + 1, !.overlap = overlap, !.told = told]
  BY DEF DamageStrike
<1> HIDE DEF overlap, told
<1>3. history' = [history EXCEPT !.died[net.target] = @ + 1, !.overlap = overlap, !.stale = history.stale,
                                 !.told = told]
  BY <1>1, <1>2 DEF HistoryType
<1>4. /\ history' \in HistoryType
      /\ \A x \in Entity : history'.died[x] = IF x = net.target THEN history.died[x] + 1 ELSE history.died[x]
      /\ history'.overlap = overlap /\ history'.told = told /\ history'.stale = history.stale
      /\ history'.wrong = history.wrong
  BY <1>1, <1>3, DiedEffect
<1> QED BY <1>4 DEF overlap, told

LEMMA CountEvents ==
  ASSUME Types, count' = [count EXCEPT !.events = @ + 1], UNCHANGED <<time, history>>
  PROVE  CountsOK' /\ count'.fired = count.fired
BY DEF Types, CountsOK

LEMMA StrikeTypes ==
  ASSUME Types, Strike PROVE Types'
<1> DEFINE e == win.target
           effect == shots[win.shot].kind.effect
<1>1. /\ e \in Entity /\ e \in Hurt /\ win.shot \in win.todo /\ win.shot \in DOMAIN shots
      /\ win \in WinType /\ win.todo \subseteq DOMAIN shots
  BY DEF Types, WinOK, WinType, Strike, Struggle
<1>2. ents[e].cond \in SUBSET Condition /\ known[e] \in Nat
  BY <1>1 DEF Types, EntsOK, ServerOK
<1>3. CASE win.kill
  <2>1. win' = [win EXCEPT !.pc = "report"]
    BY <1>3 DEF Strike
  <2>2. WinOK'
    BY <1>1, <2>1 DEF WinOK, WinType, Struggle, Strike
  <2>3. Killed(e)
    BY <1>3 DEF Strike
  <2>4. EntsOK' /\ NetOK'
    BY <1>1, <2>3, KilledEffect, SameNet DEF Types, Strike
  <2>5. CountsOK'
    BY <1>1, <1>3, StrikeDied DEF Types, CountsOK, Strike
  <2>6. ShotsOK' /\ ServerOK' /\ WiresOK'
    BY DEF Types, ShotsOK, ServerOK, WiresOK, Strike
  <2> QED BY <2>2, <2>4, <2>5, <2>6 DEF Types
<1>4. CASE ~win.kill
  <2>1. WinOK'
    <3>1. CASE effect = "none"
      <4>1. win' = [win EXCEPT !.pc = "report"]
        BY <1>4, <3>1 DEF Strike
      <4> QED BY <1>1, <4>1 DEF WinOK, WinType, Struggle, Strike
    <3>2. CASE effect # "none"
      <4>1. win' = [win EXCEPT !.pc = "give", !.cond = ents[e].cond, !.ver = known[e]]
        BY <1>4, <3>2 DEF Strike
      <4> QED BY <1>1, <1>2, <4>1 DEF WinOK, WinType, Struggle, Strike
    <3> QED BY <3>1, <3>2
  <2>2. EntsOK' /\ NetOK' /\ CountsOK' /\ ShotsOK' /\ ServerOK' /\ WiresOK'
    BY <1>4 DEF Types, ShotsOK, EntsOK, NetOK, ServerOK, WiresOK, CountsOK, Strike
  <2> QED BY <2>1, <2>2 DEF Types
<1> QED BY <1>3, <1>4

LEMMA GiveTypes ==
  ASSUME Types, win.pc = "give" => shots[win.shot].kind.effect # "none", Give PROVE Types'
<1> DEFINE e == win.target
           effect == shots[win.shot].kind.effect
<1>1. /\ e \in Entity /\ e \in Hurt /\ win.shot \in win.todo /\ win.shot \in DOMAIN shots
      /\ win \in WinType /\ win.cond \in SUBSET Condition /\ win.ver \in Nat
  BY DEF Types, WinOK, WinType, Give, Struggle
<1>2. effect \in Condition
  BY <1>1, KindFacts DEF Types, Give
<1>3. Given(e, win.cond, effect)
  BY DEF Give
<1>4. EntsOK' /\ NetOK'
  BY <1>1, <1>2, <1>3, GivenEffect, SameNet DEF Types, Give
<1>5. WinOK'
  BY <1>1 DEF Types, WinOK, WinType, Struggle, Give
<1>6. ServerOK'
  BY <1>1 DEF Types, ServerOK, Give
<1>7. ShotsOK' /\ WiresOK' /\ CountsOK'
  BY DEF Types, ShotsOK, WiresOK, CountsOK, Give
<1> QED BY <1>4, <1>5, <1>6, <1>7 DEF Types

LEMMA QuietOK == Quiet \in NetType /\ Quiet.pc = "idle"
BY HurtIsEntity DEF Quiet, NetType

LEMMA handleDamageTypes ==
  ASSUME Types, NEW e \in Entity, NEW kill \in BOOLEAN, NEW effect \in Condition \cup {"none"},
         ~kill => effect \in Condition, handleDamage(e, kill, effect)
  PROVE  Types'
<1>1. NetOK'
  <2>1. CASE ents[e].dead
    BY <2>1, QuietOK DEF NetOK, handleDamage
  <2>2. CASE ~ents[e].dead
    <3>1. net' = [pc |-> "strike", target |-> e, kill |-> kill, effect |-> effect, ver |-> 0, cond |-> {}]
      BY <2>2 DEF handleDamage, Quiet
    <3>2. net'.pc = "strike" /\ net'.kill = kill /\ net'.effect = effect
      BY <3>1
    <3> QED BY <3>1, <3>2 DEF NetOK, NetType
  <2> QED BY <2>1, <2>2
<1>2. CountsOK' /\ count'.fired = count.fired
  BY CountEvents DEF handleDamage
<1>3. WinOK' /\ EntsOK' /\ ServerOK' /\ WiresOK' /\ ShotsOK'
  BY <1>2 DEF Types, ShotsOK, EntsOK, WinOK, ServerOK, WiresOK, handleDamage
<1> QED BY <1>1, <1>2, <1>3 DEF Types

LEMMA DamageStrikeTypes ==
  ASSUME Types, DamageStrike PROVE Types'
<1> DEFINE e == net.target
<1>1. e \in Entity /\ net \in NetType /\ (~net.kill => net.effect \in Condition)
  BY DEF Types, NetOK, NetType, DamageStrike
<1>2. CASE net.kill
  <2>1. Killed(e) /\ net' = Quiet
    BY <1>2 DEF DamageStrike
  <2>2. EntsOK'
    BY <1>1, <2>1, KilledEffect DEF Types
  <2>3. NetOK'
    BY <2>1, QuietOK DEF NetOK
  <2>4. CountsOK'
    BY <1>1, <1>2, DamageDied DEF Types, CountsOK, DamageStrike
  <2>5. WinOK' /\ ServerOK' /\ WiresOK' /\ ShotsOK'
    BY DEF Types, ShotsOK, WinOK, ServerOK, WiresOK, DamageStrike
  <2> QED BY <2>2, <2>3, <2>4, <2>5 DEF Types
<1>3. CASE ~net.kill
  <2>1. net' = [net EXCEPT !.pc = "give", !.cond = ents[e].cond, !.ver = known[e]]
    BY <1>3 DEF DamageStrike
  <2>2. ents[e].cond \in SUBSET Condition /\ known[e] \in Nat
    BY <1>1 DEF Types, EntsOK, ServerOK
  <2>3. NetOK'
    BY <1>1, <1>3, <2>1, <2>2 DEF NetOK, NetType
  <2>4. WinOK' /\ EntsOK' /\ ServerOK' /\ WiresOK' /\ ShotsOK' /\ CountsOK'
    BY <1>3 DEF Types, ShotsOK, EntsOK, WinOK, ServerOK, WiresOK, CountsOK, DamageStrike
  <2> QED BY <2>3, <2>4 DEF Types
<1> QED BY <1>2, <1>3

LEMMA DamageGiveTypes ==
  ASSUME Types, DamageGive PROVE Types'
<1>1. net.target \in Entity /\ net.cond \in SUBSET Condition /\ net.effect \in Condition /\ net.ver \in Nat
  BY DEF Types, NetOK, NetType, DamageGive
<1>2. EntsOK'
  BY <1>1, GivenEffect DEF Types, DamageGive
<1>3. NetOK'
  BY QuietOK DEF NetOK, DamageGive
<1>4. ServerOK'
  BY <1>1 DEF Types, ServerOK, DamageGive
<1>5. WinOK' /\ WiresOK' /\ ShotsOK' /\ CountsOK'
  BY DEF Types, ShotsOK, WinOK, WiresOK, CountsOK, DamageGive
<1> QED BY <1>2, <1>3, <1>4, <1>5 DEF Types

LEMMA HeadDown ==
  ASSUME Types, down # <<>>
  PROVE  Head(down) \in StatType /\ Tail(down) \in Seq(StatType)
BY DEF Types, WiresOK

LEMMA StatHpTypes ==
  ASSUME Types, StatHp PROVE Types'
<1> DEFINE stat == Head(down)
<1>1. stat \in StatType /\ Tail(down) \in Seq(StatType) /\ down # <<>>
  BY HeadDown DEF StatHp
<1>2. stat.target \in Entity /\ stat.hp \in 0..MaxHp
  BY <1>1, HurtIsEntity DEF StatType
<1>3. WinOK' /\ ServerOK' /\ ShotsOK' /\ CountsOK'
  BY DEF Types, ShotsOK, WinOK, ServerOK, CountsOK, StatHp
<1>4. CASE ents[stat.target].here
  <2>1. ents' = [ents EXCEPT ![stat.target].hp = stat.hp] /\ down' = down
        /\ net' = [net EXCEPT !.pc = "alive", !.target = stat.target] /\ net = Quiet
    BY <1>4 DEF StatHp
  <2> HIDE DEF stat
  <2>2. EntsOK' /\ ents'[stat.target].hp = stat.hp
    BY <1>2, <2>1 DEF Types, EntsOK
  <2>3. net' \in NetType /\ net'.pc = "alive" /\ net'.target = stat.target
    BY <1>2, <2>1, QuietOK DEF NetType
  <2>4. NetOK'
    BY <1>1, <2>1, <2>2, <2>3 DEF NetOK, stat
  <2>5. WiresOK'
    BY <2>1 DEF Types, WiresOK, StatHp
  <2> QED BY <1>3, <2>2, <2>4, <2>5 DEF Types
<1>5. CASE ~ents[stat.target].here
  <2>1. ents' = ents /\ net' = net /\ down' = Tail(down) /\ net = Quiet
    BY <1>5 DEF StatHp
  <2>2. EntsOK' /\ NetOK'
    BY <2>1, QuietOK DEF Types, EntsOK, NetOK
  <2>3. WiresOK'
    BY <1>1, <2>1 DEF Types, WiresOK, StatHp
  <2> QED BY <1>3, <2>2, <2>3 DEF Types
<1> QED BY <1>4, <1>5

LEMMA StatAliveHistory ==
  ASSUME Types, StatAlive
  PROVE  LET e == net.target
             lives == ents[e].hp > 0 IN
         /\ history' \in HistoryType
         /\ \A x \in Entity : history'.died[x] = IF x = e /\ lives THEN 0 ELSE history.died[x]
         /\ history'.told = IF lives THEN history.told \ {e} ELSE history.told
         /\ history'.overlap = history.overlap /\ history'.stale = history.stale
         /\ history'.wrong = history.wrong
<1> DEFINE e == net.target
           lives == ents[e].hp > 0
           died == [history.died EXCEPT ![e] = IF lives THEN 0 ELSE @]
           told == IF lives THEN history.told \ {e} ELSE history.told
<1>1. history \in HistoryType /\ history.died \in [Entity -> Nat] /\ history.told \in SUBSET Entity
      /\ e \in Entity
  BY DEF Types, CountsOK, HistoryType, NetOK, NetType
<1>2. history' = [history EXCEPT !.died = died, !.told = told]
  BY <1>1 DEF StatAlive, HistoryType
<1>3. /\ died \in [Entity -> Nat] /\ told \in SUBSET Entity
      /\ \A x \in Entity : died[x] = IF x = e /\ lives THEN 0 ELSE history.died[x]
  <2> HIDE DEF lives
  <2> QED BY <1>1
<1> HIDE DEF died, told
<1>4. /\ history' \in HistoryType /\ history'.died = died /\ history'.told = told
      /\ history'.overlap = history.overlap /\ history'.stale = history.stale
      /\ history'.wrong = history.wrong
  BY <1>1, <1>2, <1>3 DEF HistoryType
<1> QED BY <1>3, <1>4 DEF told

LEMMA StatAliveTypes ==
  ASSUME Types, StatAlive PROVE Types'
<1> DEFINE e == net.target
           lives == ents[e].hp > 0
<1>1. e \in Entity /\ net \in NetType /\ lives \in BOOLEAN
  BY DEF Types, NetOK, NetType
<1>2. ents' = [ents EXCEPT ![e].dead = @ /\ ~lives]
  BY DEF StatAlive
<1>3. EntsOK' /\ \A x \in Entity : ents'[x].hp = ents[x].hp
  BY <1>1, <1>2 DEF Types, EntsOK
<1>4. net' = [net EXCEPT !.pc = "cond"] /\ down' = down
  BY DEF StatAlive
<1>5. NetOK'
  BY <1>1, <1>3, <1>4 DEF Types, NetOK, NetType, StatAlive
<1>6. CountsOK'
  BY StatAliveHistory DEF Types, CountsOK, StatAlive
<1>7. WinOK' /\ ServerOK' /\ WiresOK' /\ ShotsOK'
  BY DEF Types, ShotsOK, WinOK, ServerOK, WiresOK, StatAlive
<1> QED BY <1>3, <1>5, <1>6, <1>7 DEF Types

LEMMA StatCondEffect ==
  ASSUME Types, StatCond
  PROVE  /\ Head(down) \in StatType /\ Head(down).target = net.target /\ net.target \in Hurt
         /\ Types'
         /\ \A x \in Entity :
              /\ ents'[x].hp = ents[x].hp /\ ents'[x].dead = ents[x].dead
              /\ ents'[x].cond = IF x = net.target THEN Head(down).cond ELSE ents[x].cond
              /\ known'[x] = IF x = net.target THEN Head(down).ver ELSE known[x]
<1> DEFINE stat == Head(down)
<1>1. stat \in StatType /\ Tail(down) \in Seq(StatType) /\ stat.target = net.target /\ net.target \in Entity
      /\ net.target \in Hurt
  BY HeadDown DEF Types, NetOK, NetType, StatCond, StatType
<1>2. stat.cond \in SUBSET Condition /\ stat.ver \in Nat
  BY <1>1 DEF StatType
<1>3. ents' = [ents EXCEPT ![net.target].cond = stat.cond] /\ known' = [known EXCEPT ![net.target] = stat.ver]
      /\ down' = Tail(down) /\ net' = Quiet
  BY DEF StatCond
<1> HIDE DEF stat
<1>4. EntsOK' /\ \A x \in Entity :
              /\ ents'[x].hp = ents[x].hp /\ ents'[x].dead = ents[x].dead
              /\ ents'[x].cond = IF x = net.target THEN stat.cond ELSE ents[x].cond
  BY <1>1, <1>2, <1>3 DEF Types, EntsOK
<1>5. ServerOK' /\ \A x \in Entity : known'[x] = IF x = net.target THEN stat.ver ELSE known[x]
  BY <1>1, <1>2, <1>3 DEF Types, ServerOK, StatCond
<1>6. NetOK'
  BY <1>3, QuietOK DEF NetOK
<1>7. WiresOK'
  BY <1>1, <1>3 DEF Types, WiresOK, StatCond
<1>8. WinOK' /\ ShotsOK' /\ CountsOK'
  BY DEF Types, ShotsOK, WinOK, CountsOK, StatCond
<1> QED BY <1>1, <1>4, <1>5, <1>6, <1>7, <1>8 DEF Types, stat

LEMMA DropTypes ==
  ASSUME Types, NEW e \in Entity, Drop(e)
  PROVE  Types' /\ \A x \in Entity : /\ ents'[x].hp = ents[x].hp /\ ents'[x].cond = ents[x].cond
                                     /\ ents'[x].dead = ents[x].dead
<1>1. EntsOK' /\ \A x \in Entity : /\ ents'[x].hp = ents[x].hp /\ ents'[x].cond = ents[x].cond
                                   /\ ents'[x].dead = ents[x].dead
  BY DEF Types, EntsOK, Drop
<1>2. NetOK'
  BY <1>1, SameNet DEF Drop
<1>3. CountsOK'
  BY DEF Types, CountsOK, Drop
<1>4. ShotsOK'
  BY DEF Types, ShotsOK, CountsOK, Drop
<1>5. WinOK' /\ ServerOK' /\ WiresOK'
  BY DEF Types, WinOK, ServerOK, WiresOK, Drop
<1> QED BY <1>1, <1>2, <1>3, <1>4, <1>5 DEF Types

\* The server's steps leave the client alone.
LEMMA ServerTypes ==
  ASSUME Types, UNCHANGED <<time, shots, ents, win, net, known>>,
         down' = down \/ \E stat \in StatType : down' = Append(down, stat),
         up' \in Seq(HitType), ServerOK', CountsOK', count'.fired = count.fired
  PROVE  Types'
<1>1. ShotsOK' /\ EntsOK' /\ WinOK'
  BY DEF Types, ShotsOK, EntsOK, WinOK
<1>2. down' \in Seq(StatType) /\ (down # <<>> => down' # <<>> /\ Head(down') = Head(down))
  <2>1. CASE down' = down
    BY <2>1 DEF Types, WiresOK
  <2>2. ASSUME NEW stat \in StatType, down' = Append(down, stat)
        PROVE  down' \in Seq(StatType) /\ (down # <<>> => down' # <<>> /\ Head(down') = Head(down))
    <3>1. down \in Seq(StatType)
      BY DEF Types, WiresOK
    <3>2. down' \in Seq(StatType) /\ Len(down') = Len(down) + 1 /\ (Len(down) >= 1 => down'[1] = down[1])
      BY <2>2, <3>1
    <3> QED BY <3>1, <3>2
  <2> QED BY <2>1, <2>2
<1>3. WiresOK' /\ NetOK'
  BY <1>2 DEF Types, WiresOK, NetOK
<1> QED BY <1>1, <1>3 DEF Types

LEMMA HitHead ==
  ASSUME Types, up # <<>>
  PROVE  /\ Head(up) \in HitType /\ Tail(up) \in Seq(HitType)
         /\ Head(up).target \in Hurt /\ Head(up).damage \in {0, Damage} /\ Head(up).kill \in BOOLEAN
<1>1. Head(up) \in HitType /\ Tail(up) \in Seq(HitType)
  BY DEF Types, WiresOK
<1> QED BY <1>1 DEF HitType

LEMMA ServerTakesHitEffect ==
  ASSUME Types, ServerTakesHit
  PROVE  /\ Types'
         /\ \A e \in Hurt : /\ server'[e].hp <= server[e].hp
                            /\ server'[e].cond = server[e].cond /\ server'[e].ver = server[e].ver
<1> DEFINE hit == Head(up)
           d == damageWithDefense(hit.damage, server[hit.target].cond)
           left == server[hit.target].hp - d
           hp == IF left > 0 THEN left ELSE 0
<1>1. hit.target \in Hurt /\ hit.damage \in {0, Damage} /\ Tail(up) \in Seq(HitType) /\ hit.kill \in BOOLEAN
  BY HitHead DEF ServerTakesHit
<1>2. d \in Nat /\ server[hit.target].hp \in 0..MaxHp /\ MaxHp \in Nat
  BY <1>1, DamageFacts, HitsAssumption DEF Types, ServerOK
<1>3. hp \in 0..MaxHp /\ hp <= server[hit.target].hp
  <2> HIDE DEF d
  <2> QED BY <1>2
<1>4. server' = [server EXCEPT ![hit.target].hp = hp] /\ up' = Tail(up)
  BY DEF ServerTakesHit
<1>5. CountsOK'
  <2> DEFINE wrong == history.wrong \/ (hit.kill /\ left > 0 /\ hit.ver = server[hit.target].ver)
  <2>1. wrong \in BOOLEAN /\ history \in HistoryType
    BY DEF Types, CountsOK, HistoryType
  <2>2. history' = [history EXCEPT !.wrong = wrong]
    BY DEF ServerTakesHit
  <2> HIDE DEF wrong
  <2>3. history' \in HistoryType
    BY <2>1, <2>2 DEF HistoryType
  <2> QED BY <2>3 DEF Types, CountsOK, ServerTakesHit
<1> HIDE DEF hit, hp
<1>6. ServerOK' /\ \A e \in Hurt : /\ server'[e].hp = IF e = hit.target THEN hp ELSE server[e].hp
                                   /\ server'[e].cond = server[e].cond /\ server'[e].ver = server[e].ver
  <2>1. known' = known
    BY DEF ServerTakesHit
  <2>2. server \in [Hurt -> [hp : 0..MaxHp, cond : SUBSET Condition, ver : Nat]] /\ known \in [Entity -> Nat]
    BY DEF Types, ServerOK
  <2> QED BY <1>1, <1>3, <1>4, <2>1, <2>2 DEF ServerOK
<1>7. \A e \in Hurt : server'[e].hp <= server[e].hp
  BY <1>3, <1>6, HitsAssumption DEF Types, ServerOK
<1> QED BY <1>1, <1>4, <1>5, <1>6, <1>7, ServerTypes DEF ServerTakesHit

LEMMA ServerTellsTypes ==
  ASSUME Types, NEW e \in Hurt, ServerTells(e) PROVE Types'
<1> DEFINE stat == [target |-> e, hp |-> server[e].hp, cond |-> server[e].cond, ver |-> server[e].ver]
<1>1. stat \in StatType
  BY DEF Types, ServerOK, StatType
<1>2. down' = Append(down, stat)
  BY DEF ServerTells
<1>3. ServerOK' /\ up' \in Seq(HitType)
  BY DEF Types, ServerOK, WiresOK, ServerTells
<1> HIDE DEF stat
<1> QED BY <1>1, <1>2, <1>3, CountEvents, ServerTypes DEF ServerTells

LEMMA ServerChangesEffect ==
  ASSUME Types, NEW e \in Hurt, NEW hp \in 0..MaxHp, NEW cond \in SUBSET Conditions,
         ServerChanges(e, hp, cond)
  PROVE  /\ Types'
         /\ server'[e].ver = server[e].ver + 1
         /\ \A x \in Hurt \ {e} : server'[x] = server[x]
<1>1. server' = [server EXCEPT ![e] = [hp |-> hp, cond |-> cond, ver |-> @.ver + 1]]
  BY DEF ServerChanges
<1>2. cond \in SUBSET Condition /\ server[e].ver + 1 \in Nat
  BY HitsAssumption DEF Types, ServerOK
<1>3. ServerOK' /\ server'[e].ver = server[e].ver + 1 /\ \A x \in Hurt \ {e} : server'[x] = server[x]
  BY <1>1, <1>2 DEF Types, ServerOK, ServerChanges
<1>4. up' \in Seq(HitType) /\ down' = down
  BY DEF Types, WiresOK, ServerChanges
<1> QED BY <1>3, <1>4, CountEvents, ServerTypes DEF ServerChanges

LEMMA ServerHurtsEffect ==
  ASSUME Types, NEW e \in Hurt, ServerHurts(e)
  PROVE  /\ Types'
         /\ \A x \in Hurt : /\ server'[x].hp <= server[x].hp
                            /\ server'[x].cond = server[x].cond /\ server'[x].ver = server[x].ver
<1>1. server' = [server EXCEPT ![e].hp = @ - 1] /\ server[e].hp > 0
  BY DEF ServerHurts
<1>2. server[e].hp - 1 \in 0..MaxHp
  BY <1>1, HitsAssumption DEF Types, ServerOK
<1>3. ServerOK' /\ \A x \in Hurt : /\ server'[x].hp = IF x = e THEN server[e].hp - 1 ELSE server[x].hp
                                   /\ server'[x].cond = server[x].cond /\ server'[x].ver = server[x].ver
  BY <1>1, <1>2 DEF Types, ServerOK, ServerHurts
<1>4. \A x \in Hurt : server'[x].hp <= server[x].hp
  BY <1>3, HitsAssumption DEF Types, ServerOK
<1>5. up' \in Seq(HitType) /\ down' = down
  BY DEF Types, WiresOK, ServerHurts
<1> QED BY <1>3, <1>4, <1>5, CountEvents, ServerTypes DEF ServerHurts

-----------------------------------------------------------------------------
(* Reports. *)

LEMMA AtMostOne ==
  ASSUME NEW S, NEW x, S \subseteq {x} PROVE Cardinality(S) \in Nat /\ Cardinality(S) <= 1
<1>1. CASE S = {}
  BY <1>1, FS_EmptySet
<1>2. CASE S = {x}
  <2>1. Cardinality({x}) = 1
    BY FS_Singleton
  <2> QED BY <1>2, <2>1
<1> QED BY <1>1, <1>2

LEMMA SameReports ==
  ASSUME Reports, UNCHANGED <<shots, win>> PROVE Reports'
BY DEF Reports, EachHitOnce, Flight, Noted, Fresh

\* Only the window thread goes on, in its shot's turn.
LEMMA TurnReports ==
  ASSUME Reports, UNCHANGED shots, win'.todo = win.todo, win.pc # "idle", win'.pc # "idle",
         win'.pc \in Struggle => win'.target \notin shots[win'.shot].hits
  PROVE  Reports'
<1>1. EachHitOnce' /\ Noted'
  BY DEF Reports, EachHitOnce, Noted
<1>2. Flight'
  BY DEF Reports, Flight
<1>3. Fresh'
  BY DEF Fresh
<1> QED BY <1>1, <1>2, <1>3 DEF Reports

\* A shot's turn ends.
LEMMA EndReports ==
  ASSUME Types, Reports, NEW s \in win.todo, Ended(s),
         DOMAIN shots' = DOMAIN shots, \A r \in DOMAIN shots \ {s} : shots'[r] = shots[r],
         shots'[s].kind = shots[s].kind,
         \A i, j \in DOMAIN shots'[s].said : shots'[s].said[i] = shots'[s].said[j] => i = j,
         ~shots[s].kind.multi => Len(shots'[s].said) <= 1,
         Cardinality({i \in DOMAIN shots'[s].said : shots'[s].said[i] \notin Hurt}) <= 1,
         shots'[s].flying => /\ \A i \in DOMAIN shots'[s].said : shots'[s].said[i] \in Hurt \cap shots'[s].hits
                             /\ ~shots[s].kind.multi => shots'[s].said = <<>>
  PROVE  Reports'
<1>1. win'.pc = "frame" /\ win'.todo = win.todo \ {s}
  BY EndedEffect DEF Types
<1>2. EachHitOnce'
  <2>1. SUFFICES ASSUME NEW r \in DOMAIN shots
                 PROVE  /\ \A i, j \in DOMAIN shots'[r].said : shots'[r].said[i] = shots'[r].said[j] => i = j
                        /\ ~shots'[r].kind.multi => Len(shots'[r].said) <= 1
                        /\ Cardinality({i \in DOMAIN shots'[r].said : shots'[r].said[i] \notin Hurt}) <= 1
    BY DEF EachHitOnce
  <2>2. CASE r = s
    BY <2>2
  <2>3. CASE r # s
    BY <2>3 DEF Reports, EachHitOnce
  <2> QED BY <2>2, <2>3
<1>3. Flight'
  BY <1>1, EndedEffect DEF Types, Reports, Flight
<1>4. Noted'
  <2>1. SUFFICES ASSUME NEW r \in DOMAIN shots, shots'[r].flying
                 PROVE  /\ \A i \in DOMAIN shots'[r].said : shots'[r].said[i] \in Hurt \cap shots'[r].hits
                        /\ ~shots'[r].kind.multi => shots'[r].said = <<>>
    BY DEF Noted
  <2>2. CASE r = s
    BY <2>1, <2>2
  <2>3. CASE r # s
    BY <2>1, <2>3 DEF Reports, Noted
  <2> QED BY <2>2, <2>3
<1>5. Fresh'
  BY <1>1 DEF Fresh, Struggle
<1> QED BY <1>2, <1>3, <1>4, <1>5 DEF Reports

\* A report, of something not reported before.
LEMMA ReportReports ==
  ASSUME Types, Reports, NEW s \in win.todo, Ended(s), NEW target \in Entity \cup {"square"},
         NEW kill \in BOOLEAN, NEW stays \in BOOLEAN, Report(s, target, kill, stays),
         target \notin Hurt \/ target \notin shots[s].hits,
         stays => shots[s].kind.multi /\ target \in Hurt
  PROVE  Reports'
<1> DEFINE said == shots[s].said
<1>1. s \in DOMAIN shots /\ ShotsOK /\ CountsOK /\ shots[s] \in ShotType
  BY DEF Types, WinOK, ShotsOK
<1>2. said \in Seq(Entity \cup {"square"})
  BY <1>1 DEF ShotType
<1>3. /\ \A i \in DOMAIN said : said[i] \in Hurt \cap shots[s].hits
      /\ ~shots[s].kind.multi => said = <<>>
      /\ \A i, j \in DOMAIN said : said[i] = said[j] => i = j
  BY <1>1 DEF Reports, Flight, Noted, EachHitOnce
<1>4. stays => target \in Entity
  BY HurtIsEntity
<1>5. /\ DOMAIN shots' = DOMAIN shots
      /\ \A r \in DOMAIN shots \ {s} : shots'[r] = shots[r]
      /\ shots'[s].kind = shots[s].kind
      /\ shots'[s].said = Append(said, target)
      /\ shots'[s].flying = stays
      /\ stays => shots'[s].hits = shots[s].hits \cup {target}
  BY <1>1, <1>4, ReportEffect, ZenonT(60)
<1> HIDE DEF said
<1>6. /\ Len(shots'[s].said) = Len(said) + 1 /\ DOMAIN shots'[s].said = 1..Len(said) + 1
      /\ shots'[s].said[Len(said) + 1] = target
      /\ \A i \in DOMAIN said : shots'[s].said[i] = said[i]
      /\ DOMAIN said = 1..Len(said) /\ Len(said) \in Nat
  BY <1>2, <1>5
<1>7. \A i, j \in DOMAIN shots'[s].said : shots'[s].said[i] = shots'[s].said[j] => i = j
  <2>1. \A i \in DOMAIN said : said[i] # target
    BY <1>3
  <2>2. \A i \in DOMAIN shots'[s].said : i \in DOMAIN said \/ i = Len(said) + 1
    BY <1>6
  <2> QED BY <1>3, <1>6, <2>1, <2>2
<1>8. ~shots[s].kind.multi => Len(shots'[s].said) <= 1
  BY <1>3, <1>6
<1>9. Cardinality({i \in DOMAIN shots'[s].said : shots'[s].said[i] \notin Hurt}) <= 1
  <2>1. {i \in DOMAIN shots'[s].said : shots'[s].said[i] \notin Hurt} \subseteq {Len(said) + 1}
    BY <1>3, <1>6
  <2> QED BY <2>1, AtMostOne
<1>10. shots'[s].flying => /\ \A i \in DOMAIN shots'[s].said : shots'[s].said[i] \in Hurt \cap shots'[s].hits
                           /\ ~shots[s].kind.multi => shots'[s].said = <<>>
  <2>1. ASSUME stays, NEW i \in DOMAIN shots'[s].said PROVE shots'[s].said[i] \in Hurt \cap shots'[s].hits
    <3>1. CASE i \in DOMAIN said
      BY <1>3, <1>5, <1>6, <2>1, <3>1
    <3>2. CASE i = Len(said) + 1
      BY <1>5, <1>6, <2>1, <3>2
    <3> QED BY <1>6, <3>1, <3>2
  <2> QED BY <1>5, <2>1
<1> QED BY <1>5, <1>7, <1>8, <1>9, <1>10, EndReports

LEMMA KeepReports ==
  ASSUME Types, Reports, NEW s \in win.todo, Ended(s), NEW checked \in Int,
         NEW stays \in BOOLEAN, NEW hits \in SUBSET Entity, Keep(s, checked, stays, hits),
         shots[s].hits \subseteq hits
  PROVE  Reports'
<1>1. s \in DOMAIN shots /\ ShotsOK
  BY DEF Types, WinOK
<1>2. /\ \A i \in DOMAIN shots[s].said : shots[s].said[i] \in Hurt \cap shots[s].hits
      /\ ~shots[s].kind.multi => shots[s].said = <<>>
      /\ \A i, j \in DOMAIN shots[s].said : shots[s].said[i] = shots[s].said[j] => i = j
      /\ ~shots[s].kind.multi => Len(shots[s].said) <= 1
      /\ Cardinality({i \in DOMAIN shots[s].said : shots[s].said[i] \notin Hurt}) <= 1
  BY <1>1 DEF Reports, Flight, Noted, EachHitOnce
<1>3. /\ DOMAIN shots' = DOMAIN shots
      /\ \A r \in DOMAIN shots \ {s} : shots'[r] = shots[r]
      /\ shots'[s].kind = shots[s].kind
      /\ shots'[s].said = shots[s].said
      /\ shots'[s].hits = hits
  BY <1>1, KeepEffect
<1> QED BY <1>2, <1>3, EndReports

LEMMA AddedReports ==
  ASSUME Types, Reports, NEW kind \in Kinds, Fires, shots' = Added(kind), UNCHANGED win
  PROVE  Reports'
<1> DEFINE n == count.fired + 1
<1>1. /\ DOMAIN shots' = DOMAIN shots \cup {n}
      /\ \A s \in DOMAIN shots : shots'[s] = shots[s]
      /\ shots'[n].said = <<>> /\ shots'[n].flying
  BY AddedEffect DEF Types
<1>2. EachHitOnce'
  <2>1. SUFFICES ASSUME NEW r \in DOMAIN shots'
                 PROVE  /\ \A i, j \in DOMAIN shots'[r].said : shots'[r].said[i] = shots'[r].said[j] => i = j
                        /\ ~shots'[r].kind.multi => Len(shots'[r].said) <= 1
                        /\ Cardinality({i \in DOMAIN shots'[r].said : shots'[r].said[i] \notin Hurt}) <= 1
    BY DEF EachHitOnce
  <2>2. CASE r = n
    <3>1. DOMAIN shots'[r].said = {} /\ Len(shots'[r].said) = 0
      BY <1>1, <2>2
    <3>2. {i \in DOMAIN shots'[r].said : shots'[r].said[i] \notin Hurt} \subseteq {0}
      BY <3>1
    <3> QED BY <3>1, <3>2, AtMostOne
  <2>3. CASE r \in DOMAIN shots
    <3>1. shots'[r] = shots[r]
      BY <1>1, <2>3
    <3>2. /\ \A i, j \in DOMAIN shots[r].said : shots[r].said[i] = shots[r].said[j] => i = j
          /\ ~shots[r].kind.multi => Len(shots[r].said) <= 1
          /\ Cardinality({i \in DOMAIN shots[r].said : shots[r].said[i] \notin Hurt}) <= 1
      BY <2>3 DEF Reports, EachHitOnce
    <3> QED BY <3>1, <3>2
  <2> QED BY <1>1, <2>2, <2>3
<1>3. Flight'
  BY <1>1 DEF Reports, Flight
<1>4. Noted'
  <2>1. DOMAIN shots'[n].said = {}
    BY <1>1
  <2> QED BY <1>1, <2>1 DEF Reports, Noted
<1>5. Fresh'
  <2>1. win.pc \in Struggle => win.shot \in DOMAIN shots
    BY DEF Types, WinOK
  <2> QED BY <1>1, <2>1 DEF Reports, Fresh
<1> QED BY <1>2, <1>3, <1>4, <1>5 DEF Reports

LEMMA FrameReports ==
  ASSUME Types, Reports, FrameBegin \/ FrameEnd PROVE Reports'
<1>1. CASE FrameBegin
  <2>1. EachHitOnce' /\ Noted'
    BY <1>1 DEF Reports, EachHitOnce, Noted, FrameBegin
  <2>2. win'.pc = "frame"
    BY <1>1 DEF Types, WinOK, WinType, FrameBegin
  <2>3. Flight' /\ Fresh'
    BY <1>1, <2>2 DEF Reports, Flight, Fresh, FrameBegin, Struggle
  <2> QED BY <2>1, <2>3 DEF Reports
<1>2. CASE FrameEnd
  <2>1. shots' = [s \in {r \in DOMAIN shots : shots[r].flying} |-> shots[s]]
    BY <1>2 DEF FrameEnd, Restrict
  <2>2. /\ DOMAIN shots' \subseteq DOMAIN shots
        /\ \A s \in DOMAIN shots' : shots'[s] = shots[s] /\ shots'[s].flying
    BY <2>1
  <2>3. EachHitOnce'
    BY <2>2 DEF Reports, EachHitOnce
  <2>4. Noted' /\ Flight'
    BY <2>2 DEF Reports, Noted, Flight
  <2>5. Fresh'
    BY <1>2 DEF FrameEnd, Idle, Fresh, Struggle
  <2> QED BY <2>3, <2>4, <2>5 DEF Reports
<1> QED BY <1>1, <1>2

LEMMA UpdateShotReports ==
  ASSUME Types, Reports, NEW s \in DOMAIN shots, UpdateShot(s) PROVE Reports'
<1>1. /\ shots[s].checked \in Int /\ shots[s].hits \in SUBSET Entity /\ shots[s].hits \subseteq shots[s].hits
      /\ time \in Int
  BY DEF Types, ShotsOK, ShotType, CountsOK
<1>2. CASE Expire(s)
  BY <1>1, <1>2, KeepReports DEF Expire, Turn
<1>3. CASE MeetGround(s)
  <2>1. CASE shots[s].kind.by = "enemy"
    <3>1. s \in win.todo /\ Ended(s) /\ Report(s, "square", FALSE, FALSE)
      BY <1>3, <2>1 DEF MeetGround, Turn
    <3> QED BY <3>1, ReportReports, HurtIsEntity
  <2>2. CASE shots[s].kind.by # "enemy"
    BY <1>1, <1>3, <2>2, KeepReports DEF MeetGround, Turn
  <2> QED BY <2>1, <2>2
<1>4. CASE MeetNothing(s)
  <2> DEFINE checked == IF Due(s) THEN time ELSE shots[s].checked
  <2>1. checked \in Int
    BY <1>1
  <2>2. Keep(s, checked, TRUE, shots[s].hits) /\ Ended(s) /\ s \in win.todo
    BY <1>4 DEF MeetNothing, Turn
  <2> HIDE DEF checked
  <2> QED BY <1>1, <2>1, <2>2, KeepReports
<1>5. ASSUME NEW e \in Entity, MeetCover(s, e) PROVE Reports'
  <2>1. e \notin Hurt
    BY <1>5, HitsAssumption DEF MeetCover, Hurt
  <2>2. CASE shots[s].kind.by = "enemy"
    <3>1. s \in win.todo /\ Ended(s) /\ Report(s, e, FALSE, FALSE)
      BY <1>5, <2>2 DEF MeetCover, Turn
    <3> QED BY <2>1, <3>1, ReportReports
  <2>3. CASE shots[s].kind.by # "enemy"
    BY <1>1, <1>5, <2>3, KeepReports DEF MeetCover, Turn
  <2> QED BY <2>2, <2>3
<1>6. ASSUME NEW e \in Entity, FindTarget(s, e) PROVE Reports'
  <2>1. win'.todo = win.todo /\ win.pc = "frame" /\ win'.pc = "found" /\ shots' = shots
    BY <1>6 DEF Types, WinOK, WinType, FindTarget, Turn
  <2> QED BY <2>1, TurnReports DEF Struggle
<1> QED BY <1>2, <1>3, <1>4, <1>5, <1>6 DEF UpdateShot

LEMMA MeetReports ==
  ASSUME Types, Reports, MeetImmune \/ MeetInvulnerable \/ MeetOther \/ ReportHit PROVE Reports'
<1> DEFINE s == win.shot
<1>1. /\ s \in win.todo /\ s \in DOMAIN shots /\ win.target \in Entity /\ win.kill \in BOOLEAN
  BY DEF Types, WinOK, WinType, MeetImmune, MeetInvulnerable, MeetOther, ReportHit, Found, Vulnerable, Struggle
<1>2. /\ shots[s].checked \in Int /\ shots[s].hits \in SUBSET Entity /\ time \in Int
      /\ shots[s].kind.multi \in BOOLEAN
  BY <1>1, KindFacts DEF Types, ShotsOK, ShotType, CountsOK
<1>3. CASE MeetImmune
  <2>1. /\ \A i \in DOMAIN shots[s].said : shots[s].said[i] \in Hurt \cap shots[s].hits
        /\ ~shots[s].kind.multi => shots[s].said = <<>>
        /\ \A i, j \in DOMAIN shots[s].said : shots[s].said[i] = shots[s].said[j] => i = j
        /\ ~shots[s].kind.multi => Len(shots[s].said) <= 1
        /\ Cardinality({i \in DOMAIN shots[s].said : shots[s].said[i] \notin Hurt}) <= 1
    BY <1>1 DEF Reports, Flight, Noted, EachHitOnce
  <2>2. shots' = shots /\ Ended(s)
    BY <1>3 DEF MeetImmune
  <2> QED BY <1>1, <2>1, <2>2, EndReports
<1>4. CASE MeetInvulnerable
  <2>1. Keep(s, shots[s].checked, FALSE, shots[s].hits) /\ Ended(s)
    BY <1>4 DEF MeetInvulnerable
  <2> QED BY <1>1, <1>2, <2>1, KeepReports
<1>5. CASE MeetOther
  <2>1. CASE shots[s].kind.multi
    <3>1. Keep(s, time, TRUE, shots[s].hits \cup {win.target}) /\ Ended(s)
      BY <1>5, <2>1 DEF MeetOther
    <3>2. shots[s].hits \cup {win.target} \in SUBSET Entity /\ shots[s].hits \subseteq shots[s].hits \cup {win.target}
      BY <1>1, <1>2
    <3> QED BY <1>1, <1>2, <3>1, <3>2, KeepReports
  <2>2. CASE ~shots[s].kind.multi
    <3>1. Report(s, win.target, FALSE, FALSE) /\ Ended(s) /\ win.target \notin Hurt
      BY <1>5, <2>2 DEF MeetOther
    <3> QED BY <1>1, <3>1, ReportReports
  <2> QED BY <2>1, <2>2
<1>6. CASE ReportHit
  <2>1. Report(s, win.target, win.kill, shots[s].kind.multi) /\ Ended(s) /\ win.pc \in Struggle
    BY <1>6 DEF ReportHit, Struggle
  <2>2. win.target \in Hurt /\ win.target \notin shots[s].hits
    BY <2>1 DEF Types, WinOK, Reports, Fresh
  <2> QED BY <1>1, <1>2, <2>1, <2>2, ReportReports
<1> QED BY <1>3, <1>4, <1>5, <1>6

\* In takeDamage the shot and the target stay.
LEMMA StruggleReports ==
  ASSUME Types, Reports, Reckon \/ Test \/ Strike \/ Give PROVE Reports'
<1>1. CASE Reckon
  BY <1>1, ReckonEffect, TurnReports DEF Reckon, Vulnerable, Found, Immune
<1>2. CASE Test \/ Strike \/ Give
  <2>1. /\ win'.todo = win.todo /\ win'.shot = win.shot /\ win'.target = win.target
        /\ win.pc \in Struggle /\ win'.pc # "idle" /\ shots' = shots
    BY <1>2 DEF Types, WinOK, WinType, Test, Strike, Give, Struggle
  <2> QED BY <2>1, TurnReports DEF Reports, Fresh, Struggle
<1> QED BY <1>1, <1>2

-----------------------------------------------------------------------------
(* Claims: what the client keeps against what the server has. *)

\* What the steps of the claims need of the types.
LEMMA ToldTypes ==
  ASSUME Types
  PROVE  /\ \A e \in Hurt : /\ server[e].ver \in Nat /\ server[e].hp \in Nat /\ server[e].hp \in Int
                            /\ known[e] \in Nat /\ ents[e].hp \in Nat /\ e \in Entity
         /\ win.ver \in Nat /\ net.ver \in Nat
         /\ win.pc \in Struggle => win.target \in Hurt /\ win.shot \in DOMAIN shots /\ win.shot \in win.todo
         /\ \A i \in DOMAIN down : /\ down[i].target \in Hurt /\ down[i].ver \in Nat /\ down[i].hp \in Nat
         /\ \A i \in DOMAIN up : /\ up[i].target \in Hurt /\ up[i].ver \in Nat /\ up[i].kill \in BOOLEAN
                                 /\ up[i].damage \in {0, Damage}
<1>1. MaxHp \in Nat /\ Hurt \subseteq Entity
  BY HitsAssumption, HurtIsEntity
<1>2. \A e \in Hurt : /\ server[e].ver \in Nat /\ server[e].hp \in Nat
                      /\ known[e] \in Nat /\ ents[e].hp \in Nat /\ e \in Entity
  BY <1>1 DEF Types, ServerOK, EntsOK
<1>3. win.ver \in Nat /\ net.ver \in Nat
  BY DEF Types, WinOK, WinType, NetOK, NetType
<1>4. win.pc \in Struggle => win.target \in Hurt /\ win.shot \in DOMAIN shots /\ win.shot \in win.todo
  BY DEF Types, WinOK
<1>5. \A i \in DOMAIN down : /\ down[i].target \in Hurt /\ down[i].ver \in Nat /\ down[i].hp \in Nat
  <2>1. TAKE i \in DOMAIN down
  <2>2. down[i] \in StatType
    BY DEF Types, WiresOK
  <2> QED BY <1>1, <2>2 DEF StatType
<1>6. \A i \in DOMAIN up : /\ up[i].target \in Hurt /\ up[i].ver \in Nat /\ up[i].kill \in BOOLEAN
                           /\ up[i].damage \in {0, Damage}
  <2>1. TAKE i \in DOMAIN up
  <2>2. up[i] \in HitType
    BY DEF Types, WiresOK
  <2> QED BY <2>2 DEF HitType
<1> QED BY <1>2, <1>3, <1>4, <1>5, <1>6

LEMMA SameOrder ==
  ASSUME Order, UNCHANGED <<down, server, known>> PROVE Order'
BY DEF Order

LEMMA SameKept ==
  ASSUME Kept, UNCHANGED <<down, server, known>>, \A e \in Hurt : Shows(e),
         win.pc = "give" => win.target \in Hurt,
         win'.pc = "give" => win.pc = "give" /\ win'.target = win.target /\ win'.ver = win.ver /\ win'.cond = win.cond,
         net'.pc = "give" => net' = net
  PROVE  Kept'
<1>1. \A e \in Hurt : Current(e, known[e], ents[e].cond)'
  BY DEF Kept, Current, Shows
<1>2. win'.pc = "give" => win'.ver <= known'[win'.target] /\ Current(win.target, win.ver, win.cond)'
  BY DEF Kept, Current, Shows
<1>3. net'.pc = "give" /\ net'.target \in Hurt =>
       /\ known'[net'.target] <= net'.ver /\ Current(net.target, net.ver, net.cond)'
       /\ \A i \in DOMAIN down' : down'[i].target = net'.target => net'.ver <= down'[i].ver
  BY DEF Kept, Current, Shows
<1> QED BY <1>1, <1>2, <1>3 DEF Kept

LEMMA SameClaims ==
  ASSUME Claims, UNCHANGED <<server, up>>, history'.wrong = history.wrong,
         win'.pc \in Struggle =>
           /\ win.pc \in Struggle /\ win'.target = win.target /\ win'.ver = win.ver /\ win'.kill = win.kill
           /\ win'.shot = win.shot /\ shots'[win.shot].kind = shots[win.shot].kind
           /\ win'.pc = "give" => ~win.kill
  PROVE  Claims'
<1>1. win'.pc \in Struggle /\ win'.kill => Deadly(win.target, win.ver, shots[win.shot].kind.damage)'
  BY DEF Claims, Deadly
<1>2. \A i \in DOMAIN up' : /\ up'[i].ver <= server'[up'[i].target].ver
                            /\ up'[i].kill => Deadly(up[i].target, up[i].ver, up[i].damage)'
  BY DEF Claims, Deadly
<1>3. win'.pc \in Struggle => win'.ver <= server'[win'.target].ver
  BY DEF Claims
<1>4. ~history'.wrong /\ (win'.pc = "give" => ~win'.kill)
  BY DEF Claims, Struggle
<1> QED BY <1>1, <1>2, <1>3, <1>4 DEF Claims

\* The window thread outside takeDamage, without a report.
LEMMA AsideTold ==
  ASSUME Told, UNCHANGED <<ents, net, up, down, server, known, history>>, win'.pc \notin Struggle
  PROVE  Told'
<1>1. win'.pc # "give"
  BY DEF Struggle
<1>2. Kept'
  <2>1. \A e \in Hurt : Current(e, known[e], ents[e].cond)'
    BY DEF Told, Kept, Current
  <2>2. net'.pc = "give" /\ net'.target \in Hurt =>
         /\ known'[net'.target] <= net'.ver /\ Current(net.target, net.ver, net.cond)'
         /\ \A i \in DOMAIN down' : down'[i].target = net'.target => net'.ver <= down'[i].ver
    BY DEF Told, Kept, Current
  <2> QED BY <1>1, <2>1, <2>2 DEF Kept
<1> QED BY <1>1, <1>2, SameOrder, SameClaims DEF Told

LEMMA AddedTold ==
  ASSUME Types, Told, NEW kind \in Kinds, Fires, shots' = Added(kind),
         UNCHANGED <<ents, win, net, up, down, server, known, history>>
  PROVE  Told'
<1>1. win.pc \in Struggle => shots'[win.shot] = shots[win.shot] /\ win.target \in Hurt
  BY ToldTypes, AddedEffect DEF Types
<1>2. Kept'
  BY <1>1, SameKept DEF Told, Shows, Struggle
<1>3. win.pc = "give" => ~win.kill
  BY DEF Told, Claims
<1>4. Claims'
  BY <1>1, <1>3, SameClaims DEF Told
<1> QED BY <1>2, <1>4, SameOrder DEF Told

LEMMA AsideSteps ==
  ASSUME Types,
         \/ FrameBegin \/ FrameEnd \/ MeetImmune \/ MeetInvulnerable \/ MeetOther
         \/ \E s \in DOMAIN shots : UpdateShot(s)
  PROVE  /\ UNCHANGED <<ents, net, up, down, server, known, history>>
         /\ win'.pc \notin Struggle
<1>1. CASE FrameBegin \/ FrameEnd
  <2>1. win'.pc \in {"frame", "idle"}
    <3>1. CASE FrameBegin
      BY <3>1 DEF FrameBegin, Types, WinOK, WinType
    <3>2. CASE FrameEnd
      BY <3>2 DEF FrameEnd, Idle
    <3> QED BY <1>1, <3>1, <3>2
  <2> QED BY <1>1, <2>1 DEF FrameBegin, FrameEnd, Struggle
<1>2. CASE MeetImmune \/ MeetInvulnerable \/ MeetOther
  <2>1. Ended(win.shot) /\ win.shot \in win.todo /\ win.shot \in DOMAIN shots /\ win.target \in Entity
    BY <1>2 DEF MeetImmune, MeetInvulnerable, MeetOther, Vulnerable, Found, Types, WinOK, WinType
  <2>2. win'.pc = "frame"
    BY <2>1, EndedEffect DEF Types
  <2>3. up' = up
    <3>1. CASE MeetOther /\ ~shots[win.shot].kind.multi
      <4>1. Report(win.shot, win.target, FALSE, FALSE) /\ win.target \notin Hurt
        BY <3>1 DEF MeetOther
      <4> QED BY <2>1, <4>1, ReportUp
    <3>2. CASE ~(MeetOther /\ ~shots[win.shot].kind.multi)
      BY <1>2, <3>2 DEF MeetImmune, MeetInvulnerable, MeetOther, Keep
    <3> QED BY <3>1, <3>2
  <2> QED BY <1>2, <2>2, <2>3 DEF MeetImmune, MeetInvulnerable, MeetOther, Struggle
<1>3. ASSUME NEW s \in DOMAIN shots, UpdateShot(s)
      PROVE  UNCHANGED <<ents, net, up, down, server, known, history>> /\ win'.pc \notin Struggle
  <2>1. CASE Expire(s) \/ MeetGround(s) \/ MeetNothing(s) \/ \E e \in Entity : MeetCover(s, e)
    <3>1. Ended(s) /\ s \in win.todo /\ UNCHANGED <<ents, net, down, server, known, history>>
      BY <2>1 DEF Expire, MeetGround, MeetNothing, MeetCover, Turn
    <3>2. win'.pc = "frame"
      BY <3>1, EndedEffect DEF Types
    <3>3. up' = up
      <4>1. CASE Expire(s) \/ MeetNothing(s)
        BY <4>1 DEF Expire, MeetNothing, Keep
      <4>2. CASE MeetGround(s)
        BY <4>2, ReportUp, HurtIsEntity DEF MeetGround, Keep
      <4>3. ASSUME NEW e \in Entity, MeetCover(s, e) PROVE up' = up
        <5>1. e \notin Hurt
          BY <4>3, HitsAssumption DEF MeetCover, Hurt
        <5> QED BY <4>3, <5>1, ReportUp DEF MeetCover, Keep
      <4> QED BY <2>1, <4>1, <4>2, <4>3
    <3> QED BY <3>1, <3>2, <3>3 DEF Struggle
  <2>2. ASSUME NEW e \in Entity, FindTarget(s, e)
        PROVE  UNCHANGED <<ents, net, up, down, server, known, history>> /\ win'.pc \notin Struggle
    BY <2>2 DEF FindTarget, Types, WinOK, WinType, Struggle
  <2> QED BY <1>3, <2>1, <2>2 DEF UpdateShot
<1> QED BY <1>1, <1>2, <1>3

LEMMA ReportHitTold ==
  ASSUME Types, Told, ReportHit PROVE Told'
<1> DEFINE s == win.shot
           hit == [target |-> win.target, kill |-> win.kill /\ win.target \in Enemies, ver |-> win.ver,
                   damage |-> shots[s].kind.damage]
<1>1. /\ win.pc \in Struggle /\ Report(s, win.target, win.kill, shots[s].kind.multi) /\ Ended(s)
      /\ UNCHANGED <<ents, net, down, server, known, history>>
  BY DEF ReportHit, Struggle
<1>2. s \in win.todo /\ win.target \in Hurt
  BY <1>1, ToldTypes
<1>3. win'.pc = "frame"
  BY <1>2, <1>1, EndedEffect DEF Types
<1>4. Kept'
  <2>1. \A e \in Hurt : Current(e, known[e], ents[e].cond)'
    BY <1>1 DEF Told, Kept, Current
  <2>2. net'.pc = "give" /\ net'.target \in Hurt =>
         /\ known'[net'.target] <= net'.ver /\ Current(net.target, net.ver, net.cond)'
         /\ \A i \in DOMAIN down' : down'[i].target = net'.target => net'.ver <= down'[i].ver
    BY <1>1 DEF Told, Kept, Current
  <2> QED BY <1>3, <2>1, <2>2 DEF Kept
<1>5. Order'
  BY <1>1, SameOrder DEF Told
<1>6. up' = up \/ up' = Append(up, hit)
  BY <1>1 DEF Report
<1>7. hit.ver <= server[hit.target].ver /\ (hit.kill => Deadly(hit.target, hit.ver, hit.damage))
  BY <1>1 DEF Told, Claims
<1> HIDE DEF hit
<1>8. ASSUME NEW i \in DOMAIN up'
      PROVE  up'[i].ver <= server[up'[i].target].ver
             /\ (up'[i].kill => Deadly(up'[i].target, up'[i].ver, up'[i].damage))
  <2>1. CASE up' = up
    BY <2>1, <1>8 DEF Told, Claims
  <2>2. CASE up' = Append(up, hit)
    <3>1. up \in Seq(HitType)
      BY DEF Types, WiresOK
    <3>2. (i \in DOMAIN up /\ up'[i] = up[i]) \/ up'[i] = hit
      BY <1>8, <2>2, <3>1
    <3> QED BY <1>7, <3>2 DEF Told, Claims
  <2> QED BY <1>6, <2>1, <2>2
<1>9. Claims'
  BY <1>1, <1>3, <1>8 DEF Told, Claims, Deadly, Struggle
<1> QED BY <1>4, <1>5, <1>9 DEF Told

LEMMA ReckonTold ==
  ASSUME Types, Told, Reckon PROVE Told'
<1> DEFINE e == win.target
<1>1. /\ e \in Hurt /\ win.shot \in DOMAIN shots
      /\ UNCHANGED <<shots, ents, net, up, down, server, known, history>>
  BY DEF Types, WinOK, Reckon, Vulnerable, Found
<1>2. /\ win'.pc = "test" /\ win'.shot = win.shot /\ win'.target = e /\ win'.ver = known[e]
      /\ win'.damage = damageWithDefense(shots[win.shot].kind.damage, ents[e].cond)
      /\ win'.kill = (ents[e].hp <= win'.damage)
  BY ReckonEffect
<1>3. Order' /\ Kept'
  <2>1. \A x \in Hurt : Current(x, known[x], ents[x].cond)'
    BY <1>1 DEF Told, Kept, Current
  <2>2. net'.pc = "give" /\ net'.target \in Hurt =>
         /\ known'[net'.target] <= net'.ver /\ Current(net.target, net.ver, net.cond)'
         /\ \A i \in DOMAIN down' : down'[i].target = net'.target => net'.ver <= down'[i].ver
    BY <1>1 DEF Told, Kept, Current
  <2> QED BY <1>1, <1>2, <2>1, <2>2, SameOrder DEF Told, Kept
<1>4. Current(e, known[e], ents[e].cond)
  BY <1>1 DEF Told, Kept
<1>5. win'.kill => Deadly(e, known[e], shots[win.shot].kind.damage)
  <2>1. SUFFICES ASSUME win'.kill, known[e] = server[e].ver
                 PROVE  server[e].hp <= damageWithDefense(shots[win.shot].kind.damage, server[e].cond)
    BY DEF Deadly
  <2>2. shots[win.shot].kind.damage \in {0, Damage}
    BY <1>1, KindFacts DEF Types
  <2>3. /\ server[e].cond \subseteq ents[e].cond /\ server[e].hp <= ents[e].hp
    BY <1>4, <2>1 DEF Current
  <2>4. damageWithDefense(shots[win.shot].kind.damage, ents[e].cond)
        <= damageWithDefense(shots[win.shot].kind.damage, server[e].cond)
    BY <2>2, <2>3, DamageAntitone
  <2>5. /\ damageWithDefense(shots[win.shot].kind.damage, ents[e].cond) \in Nat
        /\ damageWithDefense(shots[win.shot].kind.damage, server[e].cond) \in Nat
    BY <2>2, DamageFacts
  <2>6. server[e].hp \in Nat /\ ents[e].hp \in Nat
    BY <1>1, ToldTypes
  <2>7. ents[e].hp <= damageWithDefense(shots[win.shot].kind.damage, ents[e].cond)
    BY <1>2, <2>1
  <2> QED BY <2>3, <2>4, <2>5, <2>6, <2>7
<1>6. Claims'
  <2>1. win'.kill => Deadly(win.target, win.ver, shots[win.shot].kind.damage)'
    BY <1>1, <1>2, <1>5 DEF Deadly
  <2>2. win'.ver <= server'[win'.target].ver
    BY <1>1, <1>2, <1>4 DEF Current
  <2>3. \A i \in DOMAIN up' : /\ up'[i].ver <= server'[up'[i].target].ver
                              /\ up'[i].kill => Deadly(up[i].target, up[i].ver, up[i].damage)'
    BY <1>1 DEF Told, Claims, Deadly
  <2> QED BY <1>1, <1>2, <2>1, <2>2, <2>3 DEF Told, Claims
<1> QED BY <1>3, <1>6 DEF Told

LEMMA TestTold ==
  ASSUME Types, Told, Test PROVE Told'
<1>1. /\ win.pc = "test" /\ win'.pc \in {"report", "strike"}
      /\ win'.shot = win.shot /\ win'.target = win.target /\ win'.ver = win.ver /\ win'.kill = win.kill
      /\ UNCHANGED <<shots, ents, net, up, down, server, known, history>>
  BY DEF Types, WinOK, WinType, Test
<1>2. Kept'
  BY <1>1, SameKept DEF Told, Shows
<1>3. Claims'
  BY <1>1, SameClaims DEF Told, Struggle
<1> QED BY <1>1, <1>2, <1>3, SameOrder DEF Told

LEMMA StrikeTold ==
  ASSUME Types, Told, Strike PROVE Told'
<1> DEFINE e == win.target
<1>1. /\ e \in Hurt /\ e \in Entity /\ win.pc = "strike" /\ win.pc \in Struggle /\ win \in WinType
      /\ UNCHANGED <<shots, net, up, down, server, known>>
  BY ToldTypes DEF Strike, Struggle, Types, WinOK
<1>2. CASE win.kill
  <2>1. win' = [win EXCEPT !.pc = "report"] /\ Killed(e)
    BY <1>2 DEF Strike
  <2>2. /\ win'.pc = "report" /\ win'.shot = win.shot /\ win'.target = e /\ win'.ver = win.ver
        /\ win'.kill = win.kill
    BY <1>1, <2>1 DEF WinType
  <2>3. \A x \in Hurt : Shows(x)
    BY <1>1, <2>1, KilledEffect, HurtIsEntity DEF Types, Shows
  <2>4. history'.wrong = history.wrong
    BY <1>1, <1>2, StrikeDied DEF Types
  <2>5. Kept'
    BY <1>1, <2>2, <2>3, SameKept DEF Told
  <2>6. Claims'
    BY <1>1, <2>2, <2>4, SameClaims DEF Told
  <2> QED BY <1>1, <2>5, <2>6, SameOrder DEF Told
<1>3. CASE ~win.kill
  <2>1. ents' = ents /\ history' = history
    BY <1>3 DEF Strike
  <2>2. \/ win' = [win EXCEPT !.pc = "report"]
        \/ win' = [win EXCEPT !.pc = "give", !.cond = ents[e].cond, !.ver = known[e]]
    BY <1>3 DEF Strike
  <2>3. /\ win'.pc \in {"report", "give"} /\ win'.shot = win.shot /\ win'.target = e /\ ~win'.kill
        /\ win'.ver = win.ver \/ win'.ver = known[e]
        /\ win'.pc = "give" => win'.ver = known[e] /\ win'.cond = ents[e].cond
    BY <1>1, <1>3, <2>2 DEF WinType
  <2>4. Current(e, known[e], ents[e].cond) /\ known[e] \in Nat
    BY <1>1, ToldTypes DEF Told, Kept
  <2>5. Kept'
    <3>1. \A x \in Hurt : Current(x, known[x], ents[x].cond)'
      BY <1>1, <2>1 DEF Told, Kept, Current
    <3>2. net'.pc = "give" /\ net'.target \in Hurt =>
           /\ known'[net'.target] <= net'.ver /\ Current(net.target, net.ver, net.cond)'
           /\ \A i \in DOMAIN down' : down'[i].target = net'.target => net'.ver <= down'[i].ver
      BY <1>1, <2>1 DEF Told, Kept, Current
    <3>3. win'.pc = "give" => win'.ver <= known'[win'.target] /\ Current(win.target, win.ver, win.cond)'
      BY <1>1, <2>1, <2>3, <2>4 DEF Current
    <3> QED BY <3>1, <3>2, <3>3 DEF Kept
  <2>6. Claims'
    <3>1. win'.ver <= server'[win'.target].ver
      BY <1>1, <2>3, <2>4 DEF Told, Claims, Current
    <3>2. \A i \in DOMAIN up' : /\ up'[i].ver <= server'[up'[i].target].ver
                                /\ up'[i].kill => Deadly(up[i].target, up[i].ver, up[i].damage)'
      BY <1>1 DEF Told, Claims, Deadly
    <3> QED BY <1>1, <2>1, <2>3, <3>1, <3>2 DEF Told, Claims
  <2> QED BY <1>1, <2>5, <2>6, SameOrder DEF Told
<1> QED BY <1>2, <1>3

LEMMA GiveTold ==
  ASSUME Types, Told, Give PROVE Told'
<1> DEFINE e == win.target
           effect == shots[win.shot].kind.effect
<1>1. /\ e \in Hurt /\ e \in Entity /\ win.pc = "give" /\ win.pc \in Struggle /\ win \in WinType
      /\ win.shot \in DOMAIN shots /\ win.cond \in SUBSET Condition
      /\ UNCHANGED <<shots, net, up, down, server, history>>
  BY ToldTypes DEF Give, Struggle, Types, WinOK, WinType
<1>2. effect \in Condition
  BY <1>1, KindFacts DEF Types, WinOK
<1>3. \A x \in Entity : /\ ents'[x].hp = ents[x].hp
                        /\ ents'[x].cond = IF x = e THEN win.cond \cup {effect} ELSE ents[x].cond
  BY <1>1, <1>2, GivenEffect DEF Give, Types
<1>4. \A x \in Entity : known'[x] = IF x = e THEN win.ver ELSE known[x]
  BY <1>1 DEF Give, Types, ServerOK
<1>5. /\ win'.pc = "report" /\ win'.shot = win.shot /\ win'.target = e /\ win'.ver = win.ver
      /\ win'.kill = win.kill
  BY <1>1 DEF Give, WinType
<1>6. /\ win.ver <= known[e] /\ Current(e, win.ver, win.cond) /\ win.ver \in Nat /\ known[e] \in Nat
  BY <1>1, ToldTypes DEF Told, Kept
<1>7. Order'
  <2>1. ASSUME NEW i \in DOMAIN down PROVE known'[down[i].target] <= down[i].ver
    <3>1. known[down[i].target] <= down[i].ver /\ down[i].target \in Entity /\ down[i].ver \in Nat
      BY ToldTypes DEF Told, Order
    <3> QED BY <1>4, <1>6, <3>1
  <2> QED BY <1>1, <2>1 DEF Told, Order
<1>8. Kept'
  <2>1. ASSUME NEW x \in Hurt PROVE Current(x, known[x], ents[x].cond)'
    <3>1. x \in Entity /\ Current(x, known[x], ents[x].cond)
      BY ToldTypes DEF Told, Kept
    <3>2. CASE x = e
      BY <1>1, <1>3, <1>4, <1>6, <3>1, <3>2 DEF Current
    <3>3. CASE x # e
      BY <1>1, <1>3, <1>4, <3>1, <3>3 DEF Current
    <3> QED BY <3>2, <3>3
  <2>2. net'.pc = "give" /\ net'.target \in Hurt =>
         /\ known'[net'.target] <= net'.ver /\ Current(net.target, net.ver, net.cond)'
         /\ \A i \in DOMAIN down' : down'[i].target = net'.target => net'.ver <= down'[i].ver
    <3>1. SUFFICES ASSUME net.pc = "give", net.target \in Hurt
                   PROVE  /\ known'[net.target] <= net.ver /\ Current(net.target, net.ver, net.cond)'
                          /\ \A i \in DOMAIN down : down[i].target = net.target => net.ver <= down[i].ver
      BY <1>1
    <3>2. /\ known[net.target] <= net.ver /\ Current(net.target, net.ver, net.cond)
          /\ \A i \in DOMAIN down : down[i].target = net.target => net.ver <= down[i].ver
          /\ net.target \in Entity /\ net.ver \in Nat
      BY <3>1, ToldTypes DEF Told, Kept
    <3>3. known'[net.target] <= net.ver
      BY <1>4, <1>6, <3>2
    <3>4. Current(net.target, net.ver, net.cond)'
      BY <1>1, <1>3, <3>2 DEF Current
    <3> QED BY <3>2, <3>3, <3>4
  <2> QED BY <1>5, <2>1, <2>2 DEF Kept
<1>9. Claims'
  BY <1>1, <1>5, SameClaims DEF Told
<1> QED BY <1>7, <1>8, <1>9 DEF Told

\* The network thread, while the wires and what is kept stay.
LEMMA NetTold ==
  ASSUME Types, Told, UNCHANGED <<shots, win, up, down, server, known>>,
         history'.wrong = history.wrong, \A e \in Hurt : Shows(e),
         net'.pc = "give" => net' = net
  PROVE  Told'
<1>1. win.pc \in Struggle => win.target \in Hurt
  BY ToldTypes
<1>2. Kept'
  BY <1>1, SameKept DEF Told, Struggle
<1>3. Claims'
  BY SameClaims DEF Told, Claims
<1> QED BY <1>2, <1>3, SameOrder DEF Told

LEMMA handleDamageTold ==
  ASSUME Types, Told, NEW e \in Entity, NEW kill, NEW effect, handleDamage(e, kill, effect) PROVE Told'
<1>1. net'.pc # "give"
  BY DEF handleDamage, Quiet
<1> QED BY <1>1, NetTold DEF handleDamage, Shows

LEMMA DamageStrikeTold ==
  ASSUME Types, Told, DamageStrike PROVE Told'
<1> DEFINE e == net.target
<1>1. e \in Entity /\ net \in NetType /\ UNCHANGED <<shots, win, up, down, server, known>>
  BY DEF Types, NetOK, NetType, DamageStrike
<1>2. CASE net.kill
  <2>1. Killed(e) /\ net' = Quiet
    BY <1>2 DEF DamageStrike
  <2>2. \A x \in Hurt : Shows(x)
    BY <1>1, <2>1, KilledEffect, HurtIsEntity DEF Types, Shows
  <2>3. history'.wrong = history.wrong
    BY <1>1, <1>2, DamageDied DEF Types
  <2> QED BY <1>1, <2>1, <2>2, <2>3, NetTold DEF Quiet
<1>3. CASE ~net.kill
  <2>1. net' = [net EXCEPT !.pc = "give", !.cond = ents[e].cond, !.ver = known[e]] /\ UNCHANGED <<ents, history>>
    BY <1>3 DEF DamageStrike
  <2>2. net'.pc = "give" /\ net'.target = e /\ net'.ver = known[e] /\ net'.cond = ents[e].cond
    BY <1>1, <2>1 DEF NetType
  <2>3. Kept'
    <3>1. \A x \in Hurt : Current(x, known[x], ents[x].cond)'
      BY <1>1, <2>1 DEF Told, Kept, Current
    <3>2. win'.pc = "give" => win'.ver <= known'[win'.target] /\ Current(win.target, win.ver, win.cond)'
      BY <1>1, <2>1 DEF Told, Kept, Current
    <3>3. net'.pc = "give" /\ net'.target \in Hurt =>
           /\ known'[net'.target] <= net'.ver /\ Current(net.target, net.ver, net.cond)'
           /\ \A i \in DOMAIN down' : down'[i].target = net'.target => net'.ver <= down'[i].ver
      <4>1. SUFFICES ASSUME e \in Hurt
                     PROVE  /\ known[e] <= known[e] /\ Current(net.target, net.ver, net.cond)'
                            /\ \A i \in DOMAIN down : down[i].target = e => known[e] <= down[i].ver
        BY <1>1, <2>2
      <4>2. Current(e, known[e], ents[e].cond) /\ known[e] \in Nat
        BY <4>1, ToldTypes DEF Told, Kept
      <4>3. Current(net.target, net.ver, net.cond)'
        BY <1>1, <2>1, <2>2, <4>2 DEF Current
      <4> QED BY <4>2, <4>3 DEF Told, Order
    <3> QED BY <3>1, <3>2, <3>3 DEF Kept
  <2>4. Claims'
    BY <1>1, <2>1, SameClaims DEF Told, Claims
  <2> QED BY <1>1, <2>3, <2>4, SameOrder DEF Told
<1> QED BY <1>2, <1>3

LEMMA DamageGiveTold ==
  ASSUME Types, Told, DamageGive PROVE Told'
<1> DEFINE e == net.target
<1>1. /\ e \in Entity /\ net.pc = "give" /\ net.cond \in SUBSET Condition /\ net.effect \in Condition
      /\ net.ver \in Nat
      /\ UNCHANGED <<shots, win, up, down, server, history>> /\ net' = Quiet
  BY DEF Types, NetOK, NetType, DamageGive
<1>2. \A x \in Entity : /\ ents'[x].hp = ents[x].hp
                        /\ ents'[x].cond = IF x = e THEN net.cond \cup {net.effect} ELSE ents[x].cond
  BY <1>1, GivenEffect DEF DamageGive, Types
<1>3. \A x \in Entity : known'[x] = IF x = e THEN net.ver ELSE known[x]
  BY <1>1 DEF DamageGive, Types, ServerOK
<1>4. e \in Hurt => /\ known[e] <= net.ver /\ Current(e, net.ver, net.cond)
                    /\ \A i \in DOMAIN down : down[i].target = e => net.ver <= down[i].ver
  BY <1>1 DEF Told, Kept
<1>5. Order'
  <2>1. ASSUME NEW i \in DOMAIN down PROVE known'[down[i].target] <= down[i].ver
    <3>1. known[down[i].target] <= down[i].ver /\ down[i].target \in Hurt /\ down[i].target \in Entity
      BY ToldTypes DEF Told, Order
    <3> QED BY <1>3, <1>4, <3>1
  <2> QED BY <1>1, <2>1 DEF Told, Order
<1>6. Kept'
  <2>1. ASSUME NEW x \in Hurt PROVE Current(x, known[x], ents[x].cond)'
    <3>1. x \in Entity /\ Current(x, known[x], ents[x].cond)
      BY ToldTypes DEF Told, Kept
    <3>2. CASE x = e
      BY <1>1, <1>2, <1>3, <1>4, <3>1, <3>2 DEF Current
    <3>3. CASE x # e
      BY <1>1, <1>2, <1>3, <3>1, <3>3 DEF Current
    <3> QED BY <3>2, <3>3
  <2>2. win'.pc = "give" => win'.ver <= known'[win'.target] /\ Current(win.target, win.ver, win.cond)'
    <3>1. SUFFICES ASSUME win.pc = "give"
                   PROVE  win.ver <= known'[win.target] /\ Current(win.target, win.ver, win.cond)'
      BY <1>1
    <3>2. /\ win.ver <= known[win.target] /\ Current(win.target, win.ver, win.cond)
          /\ win.target \in Hurt /\ win.target \in Entity /\ win.ver \in Nat /\ known[win.target] \in Nat
      BY <3>1, ToldTypes DEF Told, Kept, Struggle
    <3>3. win.ver <= known'[win.target]
      BY <1>1, <1>3, <1>4, <3>2
    <3>4. Current(win.target, win.ver, win.cond)'
      BY <1>1, <1>2, <3>2 DEF Current
    <3> QED BY <3>3, <3>4
  <2> QED BY <1>1, <2>1, <2>2 DEF Kept, Quiet
<1>7. Claims'
  BY <1>1, SameClaims DEF Told, Claims
<1> QED BY <1>5, <1>6, <1>7 DEF Told

LEMMA StatAliveTold ==
  ASSUME Types, Told, StatAlive PROVE Told'
<1> DEFINE lives == ents[net.target].hp > 0
<1>1. net.target \in Entity /\ net \in NetType
  BY DEF Types, NetOK, NetType
<1>2. ents' = [ents EXCEPT ![net.target].dead = @ /\ ~lives]
  BY DEF StatAlive
<1> HIDE DEF lives
<1>3. \A x \in Hurt : Shows(x)
  BY <1>1, <1>2, HurtIsEntity DEF Types, EntsOK, Shows
<1>4. net'.pc # "give"
  BY <1>1 DEF StatAlive, NetType
<1> QED BY <1>3, <1>4, StatAliveHistory, NetTold DEF StatAlive

LEMMA DropTold ==
  ASSUME Types, Told, NEW e \in Entity, Drop(e) PROVE Told'
<1>1. \A x \in Hurt : Shows(x)
  BY DropTypes, HurtIsEntity DEF Shows
<1> QED BY <1>1, NetTold DEF Drop

\* What is behind the first stat.
LEMMA TailOrder ==
  ASSUME Types, Order, down # <<>>
  PROVE  /\ DOMAIN Tail(down) = 1..Len(down) - 1 /\ 1 \in DOMAIN down /\ down[1] = Head(down)
         /\ \A i \in DOMAIN Tail(down) : /\ i + 1 \in DOMAIN down /\ Tail(down)[i] = down[i + 1]
                                         /\ Head(down).target = down[i + 1].target => Head(down).ver <= down[i + 1].ver
<1>1. down \in Seq(StatType) /\ Len(down) \in Nat /\ Len(down) >= 1 /\ DOMAIN down = 1..Len(down)
  BY DEF Types, WiresOK
<1>2. /\ DOMAIN Tail(down) = 1..Len(down) - 1 /\ 1 \in DOMAIN down /\ down[1] = Head(down)
      /\ \A i \in DOMAIN Tail(down) : i \in Nat /\ 1 < i + 1 /\ i + 1 \in DOMAIN down /\ Tail(down)[i] = down[i + 1]
  BY <1>1
<1> QED BY <1>2 DEF Order

LEMMA TailKeeps ==
  ASSUME Types, Order, down # <<>>, down' = Tail(down), UNCHANGED server,
         \A x \in Entity : known'[x] = known[x] \/ (x = Head(down).target /\ known'[x] = Head(down).ver)
  PROVE  Order'
<1> DEFINE rest == Tail(down)
<1>1. \A i, j \in DOMAIN rest : i < j /\ rest[i].target = rest[j].target => rest[i].ver <= rest[j].ver
  <2>1. SUFFICES ASSUME NEW i \in DOMAIN rest, NEW j \in DOMAIN rest, i < j, rest[i].target = rest[j].target
                 PROVE  rest[i].ver <= rest[j].ver
    OBVIOUS
  <2>2. i \in Int /\ j \in Int /\ i + 1 < j + 1
    BY <2>1, TailOrder
  <2> HIDE DEF rest
  <2>3. /\ i + 1 \in DOMAIN down /\ j + 1 \in DOMAIN down
        /\ rest[i] = down[i + 1] /\ rest[j] = down[j + 1]
    BY <2>1, TailOrder DEF rest
  <2> QED BY <2>1, <2>2, <2>3 DEF Order
<1>2. ASSUME NEW i \in DOMAIN rest
      PROVE  LET e == rest[i].target IN
             /\ known'[e] <= rest[i].ver /\ rest[i].ver <= server'[e].ver
             /\ rest[i].ver = server'[e].ver => rest[i].cond = server'[e].cond /\ server'[e].hp <= rest[i].hp
  <2>1. i + 1 \in DOMAIN down /\ rest[i] = down[i + 1]
    BY TailOrder
  <2>2. Head(down).target = down[i + 1].target => Head(down).ver <= down[i + 1].ver
    BY TailOrder
  <2> HIDE DEF rest
  <2>3. rest[i].target \in Entity
    BY <2>1, ToldTypes, HurtIsEntity
  <2> QED BY <2>1, <2>2, <2>3 DEF Order
<1> QED BY <1>1, <1>2 DEF Order

LEMMA StatHpTold ==
  ASSUME Types, Told, StatHp PROVE Told'
<1> DEFINE stat == Head(down)
<1>1. down # <<>> /\ net = Quiet /\ UNCHANGED <<shots, win, up, server, known, history>>
  BY DEF StatHp
<1>2. /\ stat = down[1] /\ 1 \in DOMAIN down /\ stat.target \in Hurt /\ stat.target \in Entity
      /\ stat.ver \in Nat /\ stat.hp \in Nat
  BY <1>1, TailOrder, ToldTypes DEF Told
<1>3. /\ known[stat.target] <= stat.ver /\ stat.ver <= server[stat.target].ver
      /\ stat.ver = server[stat.target].ver => server[stat.target].hp <= stat.hp
  BY <1>2 DEF Told, Order
<1>4. Claims'
  BY <1>1, SameClaims DEF Told, Claims
<1>5. CASE ents[stat.target].here
  <2>1. ents' = [ents EXCEPT ![stat.target].hp = stat.hp] /\ down' = down
        /\ net' = [net EXCEPT !.pc = "alive", !.target = stat.target]
    BY <1>5 DEF StatHp
  <2> HIDE DEF stat
  <2>2. \A x \in Entity : /\ ents'[x].cond = ents[x].cond
                          /\ ents'[x].hp = IF x = stat.target THEN stat.hp ELSE ents[x].hp
    BY <1>2, <2>1 DEF Types, EntsOK
  <2>3. net'.pc = "alive"
    BY <1>1, <2>1 DEF Quiet
  <2>4. ASSUME NEW x \in Hurt, NEW ver \in Nat, NEW cond, Current(x, ver, cond), ver <= known[x]
        PROVE  ver <= server[x].ver
               /\ (ver = server[x].ver => server[x].cond \subseteq cond /\ server[x].hp <= ents'[x].hp)
    <3>1. x \in Entity /\ known[x] \in Nat /\ server[x].ver \in Nat
      BY ToldTypes
    <3>2. CASE x = stat.target
      BY <1>2, <1>3, <2>2, <2>4, <3>1, <3>2 DEF Current
    <3>3. CASE x # stat.target
      BY <2>2, <2>4, <3>1, <3>3 DEF Current
    <3> QED BY <3>2, <3>3
  <2>5. \A x \in Hurt : Current(x, known[x], ents[x].cond)'
    <3>1. TAKE x \in Hurt
    <3>2. Current(x, known[x], ents[x].cond) /\ known[x] \in Nat /\ known[x] <= known[x] /\ x \in Entity
      BY ToldTypes DEF Told, Kept
    <3> QED BY <1>1, <2>2, <2>4, <3>2 DEF Current
  <2>6. win.pc = "give" => win.ver <= known[win.target] /\ Current(win.target, win.ver, win.cond)'
    <3>1. SUFFICES ASSUME win.pc = "give"
                   PROVE  win.ver <= known[win.target] /\ Current(win.target, win.ver, win.cond)'
      OBVIOUS
    <3>2. /\ win.ver <= known[win.target] /\ Current(win.target, win.ver, win.cond)
          /\ win.target \in Hurt /\ win.ver \in Nat
      BY <3>1, ToldTypes DEF Told, Kept, Struggle
    <3> QED BY <1>1, <2>4, <3>2 DEF Current
  <2>7. Kept'
    BY <1>1, <2>3, <2>5, <2>6 DEF Kept
  <2> QED BY <1>1, <1>4, <2>1, <2>7, SameOrder DEF Told
<1>6. CASE ~ents[stat.target].here
  <2>1. ents' = ents /\ net' = net /\ down' = Tail(down) /\ net.pc # "give"
    BY <1>1, <1>6 DEF StatHp, Quiet
  <2>2. Order'
    <3>0. known' = known
      BY <1>1
    <3>1. \A x \in Entity : known'[x] = known[x] \/ (x = Head(down).target /\ known'[x] = Head(down).ver)
      BY <3>0
    <3>2. UNCHANGED server
      BY <1>1
    <3>3. down # <<>> /\ down' = Tail(down) /\ Order
      BY <1>1, <2>1 DEF Told
    <3> HIDE DEF stat
    <3> QED BY <3>1, <3>2, <3>3, TailKeeps
  <2>3. Kept'
    <3>1. \A x \in Hurt : Current(x, known[x], ents[x].cond)'
      BY <1>1, <2>1 DEF Told, Kept, Current
    <3>2. win'.pc = "give" => win'.ver <= known'[win'.target] /\ Current(win.target, win.ver, win.cond)'
      BY <1>1, <2>1 DEF Told, Kept, Current
    <3> QED BY <2>1, <3>1, <3>2 DEF Kept
  <2> QED BY <1>4, <2>2, <2>3 DEF Told
<1> QED BY <1>5, <1>6

LEMMA StatCondTold ==
  ASSUME Types, Told, StatCond PROVE Told'
<1> DEFINE stat == Head(down)
           e == net.target
<1>1. /\ down # <<>> /\ UNCHANGED <<shots, win, up, server, history>> /\ net' = Quiet /\ down' = Tail(down)
      /\ ents[e].hp = stat.hp /\ e \in Hurt /\ e \in Entity /\ stat.target = e
  BY StatCondEffect, ToldTypes DEF StatCond, Types, NetOK
<1>2. \A x \in Entity : /\ ents'[x].hp = ents[x].hp
                        /\ ents'[x].cond = IF x = e THEN stat.cond ELSE ents[x].cond
                        /\ known'[x] = IF x = e THEN stat.ver ELSE known[x]
  BY StatCondEffect
<1>3. stat = down[1] /\ 1 \in DOMAIN down /\ stat.ver \in Nat
  BY <1>1, TailOrder, ToldTypes DEF Told
<1>4. /\ known[e] <= stat.ver /\ stat.ver <= server[e].ver
      /\ stat.ver = server[e].ver => stat.cond = server[e].cond /\ server[e].hp <= stat.hp
  BY <1>1, <1>3 DEF Told, Order
<1>5. Order'
  <2>1. ASSUME NEW x \in Entity
        PROVE  known'[x] = known[x] \/ (x = Head(down).target /\ known'[x] = Head(down).ver)
    <3> HIDE DEF stat, e
    <3>1. CASE x = e
      BY <1>1, <1>2, <3>1 DEF stat
    <3>2. CASE x # e
      BY <1>2, <2>1, <3>2
    <3> QED BY <3>1, <3>2
  <2>2. UNCHANGED server
    BY <1>1
  <2>3. down # <<>> /\ down' = Tail(down) /\ Order
    BY <1>1 DEF Told
  <2> HIDE DEF stat, e
  <2> QED BY <2>1, <2>2, <2>3, TailKeeps
<1>6. Claims'
  BY <1>1, SameClaims DEF Told, Claims
<1> HIDE DEF stat
<1>7. Kept'
  <2>1. ASSUME NEW x \in Hurt PROVE Current(x, known[x], ents[x].cond)'
    <3>1. x \in Entity /\ Current(x, known[x], ents[x].cond)
      BY ToldTypes DEF Told, Kept
    <3>2. CASE x = e
      BY <1>1, <1>2, <1>4, <3>1, <3>2 DEF Current
    <3>3. CASE x # e
      BY <1>1, <1>2, <3>1, <3>3 DEF Current
    <3> QED BY <3>2, <3>3
  <2>2. win'.pc = "give" => win'.ver <= known'[win'.target] /\ Current(win.target, win.ver, win.cond)'
    <3>1. SUFFICES ASSUME win.pc = "give"
                   PROVE  win.ver <= known'[win.target] /\ Current(win.target, win.ver, win.cond)'
      BY <1>1
    <3>2. /\ win.ver <= known[win.target] /\ Current(win.target, win.ver, win.cond)
          /\ win.target \in Hurt /\ win.target \in Entity /\ win.ver \in Nat /\ known[win.target] \in Nat
      BY <3>1, ToldTypes DEF Told, Kept, Struggle
    <3>3. win.ver <= known'[win.target]
      BY <1>2, <1>3, <1>4, <3>2
    <3>4. Current(win.target, win.ver, win.cond)'
      BY <1>1, <1>2, <3>2 DEF Current
    <3> QED BY <3>3, <3>4
  <2> QED BY <1>1, <2>1, <2>2 DEF Kept, Quiet
<1> QED BY <1>5, <1>6, <1>7 DEF Told

\* The server's hp sinks.
LEMMA SinkTold ==
  ASSUME Types, Told, UNCHANGED <<shots, ents, win, net, down, known>>,
         up' = up \/ (up # <<>> /\ up' = Tail(up)), history'.wrong = history.wrong,
         \A e \in Hurt : /\ server'[e].hp \in Nat /\ server'[e].hp <= server[e].hp
                         /\ server'[e].cond = server[e].cond /\ server'[e].ver = server[e].ver
  PROVE  Told'
<1>1. Order'
  <2>1. ASSUME NEW i \in DOMAIN down, down[i].ver = server[down[i].target].ver
        PROVE  server'[down[i].target].hp <= down[i].hp
    <3>1. /\ server[down[i].target].hp <= down[i].hp /\ down[i].target \in Hurt
          /\ server[down[i].target].hp \in Nat /\ down[i].hp \in Nat
      BY <2>1, ToldTypes DEF Told, Order
    <3> QED BY <3>1
  <2> QED BY <2>1, ToldTypes DEF Told, Order
<1>2. ASSUME NEW e \in Hurt, NEW ver, NEW cond, Current(e, ver, cond)
      PROVE  ver <= server'[e].ver
             /\ (ver = server'[e].ver => server'[e].cond \subseteq cond /\ server'[e].hp <= ents[e].hp)
  BY <1>2, ToldTypes DEF Current
<1>3. Kept'
  <2>1. \A x \in Hurt : Current(x, known[x], ents[x].cond)'
    BY <1>2 DEF Told, Kept, Current
  <2>2. win'.pc = "give" => win'.ver <= known'[win'.target] /\ Current(win.target, win.ver, win.cond)'
    <3>1. win.pc = "give" => win.target \in Hurt
      BY ToldTypes DEF Struggle
    <3> QED BY <1>2, <3>1 DEF Told, Kept, Current
  <2>3. net'.pc = "give" /\ net'.target \in Hurt =>
         /\ known'[net'.target] <= net'.ver /\ Current(net.target, net.ver, net.cond)'
         /\ \A i \in DOMAIN down' : down'[i].target = net'.target => net'.ver <= down'[i].ver
    BY <1>2 DEF Told, Kept, Current
  <2> QED BY <2>1, <2>2, <2>3 DEF Kept
<1>4. ASSUME NEW e \in Hurt, NEW ver, NEW damage \in {0, Damage}, Deadly(e, ver, damage), ver = server'[e].ver
      PROVE  server'[e].hp <= damageWithDefense(damage, server'[e].cond)
  <2>1. /\ server[e].hp <= damageWithDefense(damage, server[e].cond)
        /\ damageWithDefense(damage, server[e].cond) \in Nat /\ server[e].hp \in Nat
    BY <1>4, DamageFacts, ToldTypes DEF Deadly
  <2>2. damageWithDefense(damage, server'[e].cond) = damageWithDefense(damage, server[e].cond)
    OBVIOUS
  <2> QED BY <2>1, <2>2
<1>5. ASSUME NEW i \in DOMAIN up'
      PROVE  up'[i].ver <= server'[up'[i].target].ver
             /\ (up'[i].kill => Deadly(up[i].target, up[i].ver, up[i].damage)')
  <2>1. \E j \in DOMAIN up : up'[i] = up[j]
    <3>1. up \in Seq(HitType)
      BY DEF Types, WiresOK
    <3>2. CASE up' = up
      BY <1>5, <3>2
    <3>3. CASE up # <<>> /\ up' = Tail(up)
      <4>1. i + 1 \in DOMAIN up /\ up'[i] = up[i + 1]
        BY <1>5, <3>1, <3>3
      <4> QED BY <4>1
    <3> QED BY <3>2, <3>3
  <2>2. PICK j \in DOMAIN up : up'[i] = up[j]
    BY <2>1
  <2>3. /\ up[j].ver <= server[up[j].target].ver /\ (up[j].kill => Deadly(up[j].target, up[j].ver, up[j].damage))
        /\ up[j].target \in Hurt /\ up[j].damage \in {0, Damage}
    BY ToldTypes DEF Told, Claims
  <2> QED BY <1>4, <2>2, <2>3 DEF Deadly
<1>6. win'.pc \in Struggle => /\ win'.ver <= server'[win'.target].ver
                              /\ win'.kill => Deadly(win.target, win.ver, shots[win.shot].kind.damage)'
  <2>1. SUFFICES ASSUME win.pc \in Struggle
                 PROVE  /\ win.ver <= server'[win.target].ver
                        /\ win.kill => Deadly(win.target, win.ver, shots[win.shot].kind.damage)'
    OBVIOUS
  <2>2. /\ win.target \in Hurt /\ shots[win.shot].kind.damage \in {0, Damage}
        /\ win.ver <= server[win.target].ver
        /\ win.kill => Deadly(win.target, win.ver, shots[win.shot].kind.damage)
    BY <2>1, ToldTypes, KindFacts DEF Types, Told, Claims
  <2> QED BY <1>4, <2>2 DEF Deadly
<1>7. Claims'
  <2>1. ~history'.wrong /\ (win'.pc = "give" => ~win'.kill)
    BY DEF Told, Claims
  <2> QED BY <1>5, <1>6, <2>1 DEF Claims
<1> QED BY <1>1, <1>3, <1>7 DEF Told

LEMMA ServerTakesHitTold ==
  ASSUME Types, Told, ServerTakesHit PROVE Told'
<1> DEFINE hit == Head(up)
           left == server[hit.target].hp - damageWithDefense(hit.damage, server[hit.target].cond)
<1>1. /\ up # <<>> /\ up' = Tail(up) /\ UNCHANGED <<shots, ents, win, net, down, known>>
      /\ hit = up[1] /\ 1 \in DOMAIN up /\ hit.target \in Hurt /\ hit.damage \in {0, Damage}
  <2>1. up \in Seq(HitType) /\ up # <<>>
    BY DEF Types, WiresOK, ServerTakesHit
  <2>2. hit = up[1] /\ 1 \in DOMAIN up
    BY <2>1
  <2> QED BY <2>1, <2>2, ToldTypes DEF ServerTakesHit
<1>2. hit.kill => Deadly(hit.target, hit.ver, hit.damage)
  BY <1>1 DEF Told, Claims
<1>3. ~(hit.kill /\ left > 0 /\ hit.ver = server[hit.target].ver)
  <2>1. server[hit.target].hp \in Nat /\ damageWithDefense(hit.damage, server[hit.target].cond) \in Nat
    BY <1>1, ToldTypes, DamageFacts
  <2> QED BY <1>2, <2>1 DEF Deadly
<1>4. history'.wrong = history.wrong
  <2>1. history \in HistoryType
    BY DEF Types, CountsOK
  <2> HIDE DEF hit, left
  <2>2. history' = [history EXCEPT !.wrong = @ \/ (hit.kill /\ left > 0 /\ hit.ver = server[hit.target].ver)]
    BY DEF ServerTakesHit, hit, left
  <2> QED BY <1>3, <2>1, <2>2 DEF HistoryType
<1>5. \A e \in Hurt : server'[e].hp \in Nat
  BY ServerTakesHitEffect, HitsAssumption DEF Types, ServerOK
<1> QED BY <1>1, <1>4, <1>5, ServerTakesHitEffect, SinkTold

LEMMA ServerHurtsTold ==
  ASSUME Types, Told, NEW e \in Hurt, ServerHurts(e) PROVE Told'
<1>1. \A x \in Hurt : server'[x].hp \in Nat
  BY ServerHurtsEffect, HitsAssumption DEF Types, ServerOK
<1>2. UNCHANGED <<shots, ents, win, net, up, down, known, history>>
  BY DEF ServerHurts
<1>3. \A x \in Hurt : /\ server'[x].hp \in Nat /\ server'[x].hp <= server[x].hp
                      /\ server'[x].cond = server[x].cond /\ server'[x].ver = server[x].ver
  BY <1>1, ServerHurtsEffect
<1>4. UNCHANGED <<shots, ents, win, net, down, known>>
  BY <1>2
<1>5. up' = up \/ (up # <<>> /\ up' = Tail(up))
  BY <1>2
<1>6. history'.wrong = history.wrong
  BY <1>2
<1> QED BY <1>3, <1>4, <1>5, <1>6, SinkTold

LEMMA ServerTellsTold ==
  ASSUME Types, Told, NEW e \in Hurt, ServerTells(e) PROVE Told'
<1> DEFINE stat == [target |-> e, hp |-> server[e].hp, cond |-> server[e].cond, ver |-> server[e].ver]
<1>1. /\ down' = Append(down, stat) /\ UNCHANGED <<shots, ents, win, net, up, server, known, history>>
      /\ down \in Seq(StatType)
  BY DEF ServerTells, Types, WiresOK
<1>2. stat.target = e /\ stat.ver = server[e].ver /\ stat.cond = server[e].cond /\ stat.hp = server[e].hp
  OBVIOUS
<1> HIDE DEF stat
<1>3. /\ DOMAIN down = 1..Len(down) /\ DOMAIN down' = 1..Len(down) + 1 /\ Len(down) \in Nat
      /\ \A i \in DOMAIN down : down'[i] = down[i]
      /\ down'[Len(down) + 1] = stat
  BY <1>1
<1>4. Order'
  <2>1. ASSUME NEW i \in DOMAIN down', NEW j \in DOMAIN down', i < j, down'[i].target = down'[j].target
        PROVE  down'[i].ver <= down'[j].ver
    <3>1. i \in DOMAIN down
      BY <1>3, <2>1
    <3>2. CASE j \in DOMAIN down
      BY <1>3, <2>1, <3>1, <3>2 DEF Told, Order
    <3>3. CASE j = Len(down) + 1
      BY <1>2, <1>3, <2>1, <3>1, <3>3 DEF Told, Order
    <3> QED BY <1>3, <3>2, <3>3
  <2>2. ASSUME NEW i \in DOMAIN down'
        PROVE  LET x == down'[i].target IN
               /\ known[x] <= down'[i].ver /\ down'[i].ver <= server[x].ver
               /\ down'[i].ver = server[x].ver => down'[i].cond = server[x].cond /\ server[x].hp <= down'[i].hp
    <3>1. CASE i \in DOMAIN down
      BY <1>3, <3>1 DEF Told, Order
    <3>2. CASE i = Len(down) + 1
      <4>1. known[e] <= server[e].ver /\ server[e].ver \in Nat /\ server[e].hp \in Nat
        BY ToldTypes DEF Told, Kept, Current
      <4> QED BY <1>2, <1>3, <3>2, <4>1
    <3> QED BY <1>3, <3>1, <3>2
  <2> QED BY <1>1, <2>1, <2>2 DEF Order
<1>5. Kept'
  <2>1. \A x \in Hurt : Current(x, known[x], ents[x].cond)'
    BY <1>1 DEF Told, Kept, Current
  <2>2. win'.pc = "give" => win'.ver <= known'[win'.target] /\ Current(win.target, win.ver, win.cond)'
    BY <1>1 DEF Told, Kept, Current
  <2>3. net'.pc = "give" /\ net'.target \in Hurt =>
         /\ known'[net'.target] <= net'.ver /\ Current(net.target, net.ver, net.cond)'
    BY <1>1 DEF Told, Kept, Current
  <2>4. ASSUME net.pc = "give", net.target \in Hurt, NEW i \in DOMAIN down', down'[i].target = net.target
        PROVE  net.ver <= down'[i].ver
    <3>1. CASE i \in DOMAIN down
      BY <1>3, <2>4, <3>1 DEF Told, Kept
    <3>2. CASE i = Len(down) + 1
      BY <1>2, <1>3, <2>4, <3>2 DEF Told, Kept, Current
    <3> QED BY <1>3, <2>4, <3>1, <3>2
  <2> QED BY <1>1, <2>1, <2>2, <2>3, <2>4 DEF Kept
<1>6. Claims'
  BY <1>1, SameClaims DEF Told, Claims
<1> QED BY <1>4, <1>5, <1>6 DEF Told

\* Nothing is as new as what the server has just changed.
LEMMA ServerChangesTold ==
  ASSUME Types, Told, NEW e \in Hurt, NEW hp \in 0..MaxHp, NEW cond \in SUBSET Conditions,
         ServerChanges(e, hp, cond)
  PROVE  Told'
<1>1. /\ UNCHANGED <<shots, ents, win, net, up, down, known, history>>
      /\ server'[e].ver = server[e].ver + 1 /\ server[e].ver \in Nat
      /\ \A x \in Hurt \ {e} : server'[x] = server[x]
  BY ServerChangesEffect, ToldTypes DEF ServerChanges
<1>2. ASSUME NEW x \in Hurt, NEW ver \in Nat, ver <= server[x].ver
      PROVE  ver <= server'[x].ver /\ (ver = server'[x].ver => x # e)
  BY <1>1, <1>2
<1>3. Order'
  <2>1. ASSUME NEW i \in DOMAIN down
        PROVE  LET x == down[i].target IN
               /\ known[x] <= down[i].ver /\ down[i].ver <= server'[x].ver
               /\ down[i].ver = server'[x].ver => down[i].cond = server'[x].cond /\ server'[x].hp <= down[i].hp
    <3>1. down[i].target \in Hurt /\ down[i].ver \in Nat /\ down[i].ver <= server[down[i].target].ver
      BY ToldTypes DEF Told, Order
    <3>2. /\ down[i].ver <= server'[down[i].target].ver
          /\ down[i].ver = server'[down[i].target].ver => down[i].target # e
      BY <1>2, <3>1
    <3> QED BY <1>1, <3>1, <3>2 DEF Told, Order
  <2> QED BY <1>1, <2>1 DEF Told, Order
<1>4. ASSUME NEW x \in Hurt, NEW ver \in Nat, NEW c, Current(x, ver, c)
      PROVE  ver <= server'[x].ver
             /\ (ver = server'[x].ver => server'[x].cond \subseteq c /\ server'[x].hp <= ents[x].hp)
  <2>1. ver <= server'[x].ver /\ (ver = server'[x].ver => x # e)
    BY <1>2, <1>4 DEF Current
  <2> QED BY <1>1, <1>4, <2>1 DEF Current
<1>5. Kept'
  <2>1. \A x \in Hurt : Current(x, known[x], ents[x].cond)'
    BY <1>1, <1>4, ToldTypes DEF Told, Kept, Current
  <2>2. win'.pc = "give" => win'.ver <= known'[win'.target] /\ Current(win.target, win.ver, win.cond)'
    <3>1. win.pc = "give" => win.target \in Hurt /\ win.ver \in Nat
      BY ToldTypes DEF Struggle
    <3> QED BY <1>1, <1>4, <3>1 DEF Told, Kept, Current
  <2>3. net'.pc = "give" /\ net'.target \in Hurt =>
         /\ known'[net'.target] <= net'.ver /\ Current(net.target, net.ver, net.cond)'
         /\ \A i \in DOMAIN down' : down'[i].target = net'.target => net'.ver <= down'[i].ver
    BY <1>1, <1>4, ToldTypes DEF Told, Kept, Current
  <2> QED BY <2>1, <2>2, <2>3 DEF Kept
<1>6. ASSUME NEW x \in Hurt, NEW ver \in Nat, ver <= server[x].ver, NEW damage, Deadly(x, ver, damage),
             ver = server'[x].ver
      PROVE  server'[x].hp <= damageWithDefense(damage, server'[x].cond)
  <2>1. x # e
    BY <1>2, <1>6
  <2>2. server'[x] = server[x]
    BY <1>1, <2>1
  <2> QED BY <1>6, <2>2 DEF Deadly
<1>7. ASSUME NEW i \in DOMAIN up
      PROVE  up[i].ver <= server'[up[i].target].ver
             /\ (up[i].kill => Deadly(up[i].target, up[i].ver, up[i].damage)')
  <2>1. up[i].ver <= server[up[i].target].ver /\ up[i].target \in Hurt /\ up[i].ver \in Nat
        /\ (up[i].kill => Deadly(up[i].target, up[i].ver, up[i].damage))
    BY ToldTypes DEF Told, Claims
  <2> QED BY <1>1, <1>2, <1>6, <2>1 DEF Deadly
<1>8. win.pc \in Struggle => /\ win.ver <= server'[win.target].ver
                             /\ win.kill => Deadly(win.target, win.ver, shots[win.shot].kind.damage)'
  <2>1. SUFFICES ASSUME win.pc \in Struggle
                 PROVE  /\ win.ver <= server'[win.target].ver
                        /\ win.kill => Deadly(win.target, win.ver, shots[win.shot].kind.damage)'
    OBVIOUS
  <2>2. /\ win.target \in Hurt /\ win.ver \in Nat /\ win.ver <= server[win.target].ver
        /\ win.kill => Deadly(win.target, win.ver, shots[win.shot].kind.damage)
    BY <2>1, ToldTypes DEF Told, Claims
  <2> QED BY <1>1, <1>2, <1>6, <2>2 DEF Deadly
<1>9. Claims'
  BY <1>1, <1>7, <1>8 DEF Told, Claims
<1> QED BY <1>3, <1>5, <1>9 DEF Told

-----------------------------------------------------------------------------
(* Deaths. *)

\* What the steps of the deaths need of the types.
LEMMA DeathTypes ==
  ASSUME Types
  PROVE  /\ \A e \in Entity : history.died[e] \in Nat /\ ents[e].hp \in Nat /\ ents[e].dead \in BOOLEAN
         /\ win.target \in Entity /\ net.target \in Entity /\ win.damage \in Nat
         /\ history.overlap \in BOOLEAN /\ history.stale \in BOOLEAN
         /\ damageWithDefense(Damage, {}) \in Nat
         /\ \A e \in Hurt : e \in Entity
<1>1. damageWithDefense(Damage, {}) \in Nat
  BY DamageFacts
<1>2. MaxHp \in Nat
  BY HitsAssumption
<1>3. \A e \in Entity : ents[e].hp \in Nat /\ ents[e].dead \in BOOLEAN
  BY <1>2 DEF Types, EntsOK
<1>4. \A e \in Entity : history.died[e] \in Nat
  BY DEF Types, CountsOK, HistoryType
<1> QED BY <1>1, <1>3, <1>4, HurtIsEntity DEF Types, CountsOK, HistoryType, WinOK, WinType, NetOK, NetType

\* The same are dead, with the same hp; threads do not reach a strike.
LEMMA SameDeaths ==
  ASSUME Types, Once, Low, UNCHANGED history,
         \A e \in Entity : ents'[e].hp = ents[e].hp /\ ents'[e].dead = ents[e].dead,
         win'.pc = "strike" => (win'.target \in Entity /\ ~ents[win'.target].dead) \/ (win.pc = "strike" /\ win'.target = win.target),
         net'.pc = "strike" => (net'.target \in Entity /\ ~ents[net'.target].dead) \/ net' = net,
         win'.pc \in Struggle => win'.damage <= damageWithDefense(Damage, {}),
         net.pc = "alive" => net' = net
  PROVE  Once' /\ Low'
<1>1. Once'
  <2>1. SUFFICES ASSUME ~history.overlap
                 PROVE  /\ \A e \in Entity : history.died[e] <= 1 /\ (history.died[e] = 1 => ents'[e].dead)
                        /\ win'.pc = "strike" => ~ents'[win'.target].dead
                        /\ net'.pc = "strike" => ~ents'[net'.target].dead
    BY DEF Once
  <2>2. /\ \A e \in Entity : history.died[e] <= 1 /\ (history.died[e] = 1 => ents[e].dead)
        /\ win.pc = "strike" => ~ents[win.target].dead
        /\ net.pc = "strike" => ~ents[net.target].dead
    BY <2>1 DEF Once
  <2> QED BY <2>2, DeathTypes
<1>2. Low'
  BY DeathTypes DEF Low
<1> QED BY <1>1, <1>2

\* The window thread but for its blow, the entities as they were.
LEMMA WindowDeaths ==
  ASSUME Types, Once, Low, UNCHANGED <<ents, net, history>>,
         win'.pc \notin Struggle \/ (win.pc \in Struggle /\ win'.damage = win.damage /\ win'.target = win.target),
         win'.pc = "strike" => win.pc = "strike" \/ ~ents[win.target].dead
  PROVE  Once' /\ Low'
<1>1. win'.pc \in Struggle => win'.damage <= damageWithDefense(Damage, {})
  BY DEF Low
<1>2. win'.pc = "strike" => (win'.target \in Entity /\ ~ents[win'.target].dead) \/ (win.pc = "strike" /\ win'.target = win.target)
  BY DeathTypes DEF Struggle
<1> QED BY <1>1, <1>2, SameDeaths

LEMMA ReckonDeaths ==
  ASSUME Types, Once, Low, Reckon PROVE Once' /\ Low'
<1>1. win.shot \in DOMAIN shots
  BY DEF Types, WinOK, Reckon, Vulnerable, Found
<1>2. /\ win'.pc = "test" /\ win'.damage <= damageWithDefense(Damage, {})
  BY <1>1, ReckonEffect, KindFacts, DamageFacts DEF Types
<1> QED BY <1>2, SameDeaths DEF Reckon

LEMMA TestDeaths ==
  ASSUME Types, Once, Low, Test PROVE Once' /\ Low'
<1>1. /\ win.pc \in Struggle /\ win'.damage = win.damage /\ win'.target = win.target
      /\ win'.pc = "strike" => ~ents[win.target].dead
  BY DEF Test, Types, WinOK, WinType, Struggle
<1> QED BY <1>1, WindowDeaths DEF Test

\* The blow that kills, of the thread that has found e not dead.
LEMMA StrikeDeaths ==
  ASSUME Types, Once, Low, Strike PROVE Once' /\ Low'
<1> DEFINE e == win.target
<1>1. e \in Entity /\ win.pc = "strike" /\ win.pc \in Struggle /\ win \in WinType /\ net' = net
  BY DEF Types, WinOK, WinType, Strike, Struggle
<1>2. CASE win.kill
  <2>1. win' = [win EXCEPT !.pc = "report"] /\ Killed(e)
    BY <1>2 DEF Strike
  <2>2. win'.pc = "report" /\ win'.damage = win.damage
    BY <1>1, <2>1 DEF WinType
  <2>3. \A x \in Entity : ents'[x].hp = ents[x].hp /\ ents'[x].dead = (ents[x].dead \/ x = e)
    BY <1>1, <2>1, KilledEffect DEF Types
  <2>4. /\ \A x \in Entity : history'.died[x] = IF x = e THEN history.died[x] + 1 ELSE history.died[x]
        /\ history'.overlap = (history.overlap \/ BothAt(e))
        /\ history'.stale = (history.stale \/ ents[e].hp > win.damage)
        /\ history'.told = history.told
    BY <1>1, <1>2, StrikeDied DEF Types
  <2>5. Once'
    <3>1. SUFFICES ASSUME ~history'.overlap
                   PROVE  /\ \A x \in Entity : history'.died[x] <= 1 /\ (history'.died[x] = 1 => ents'[x].dead)
                          /\ net.pc = "strike" => ~ents'[net.target].dead
      BY <1>1, <2>2 DEF Once
    <3>2. ~history.overlap /\ ~(net.pc = "strike" /\ net.target = e)
      BY <1>1, <2>4, <3>1, DeathTypes DEF BothAt
    <3>3. /\ \A x \in Entity : history.died[x] <= 1 /\ (history.died[x] = 1 => ents[x].dead)
          /\ ~ents[e].dead
          /\ net.pc = "strike" => ~ents[net.target].dead
      BY <1>1, <3>2 DEF Once
    <3>4. ASSUME NEW x \in Entity PROVE history'.died[x] <= 1 /\ (history'.died[x] = 1 => ents'[x].dead)
      <4>1. CASE x = e
        <5>1. history.died[x] \in Nat /\ history.died[x] <= 1 /\ history.died[x] # 1
          BY <3>3, <3>4, <4>1, DeathTypes
        <5>2. history.died[x] = 0
          BY <5>1
        <5>3. history'.died[x] = history.died[x] + 1
          BY <2>4, <3>4, <4>1
        <5>4. ents'[x].dead
          BY <2>3, <3>4, <4>1
        <5> QED BY <5>2, <5>3, <5>4
      <4>2. CASE x # e
        <5>1. history'.died[x] = history.died[x] /\ (ents[x].dead => ents'[x].dead)
          BY <2>3, <2>4, <3>4, <4>2
        <5> QED BY <3>3, <3>4, <5>1
      <4> QED BY <4>1, <4>2
    <3>5. net.pc = "strike" => ~ents'[net.target].dead
      BY <2>3, <3>2, <3>3, DeathTypes
    <3> QED BY <3>4, <3>5
  <2>6. Low'
    <3>1. ASSUME NEW x \in Hurt, ents'[x].dead
          PROVE  \/ ents'[x].hp <= damageWithDefense(Damage, {})
                 \/ x \in history'.told \/ history'.stale
                 \/ net.pc = "alive" /\ net.target = x
      <4>1. x \in Entity
        BY DeathTypes
      <4>2. CASE ents[x].dead
        BY <2>3, <2>4, <3>1, <4>1, <4>2, DeathTypes DEF Low
      <4>3. CASE x = e
        <5>1. win.damage <= damageWithDefense(Damage, {})
          BY <1>1 DEF Low
        <5>2. win.damage \in Nat /\ damageWithDefense(Damage, {}) \in Nat /\ ents[x].hp \in Nat
          BY <4>1, DeathTypes
        <5>3. ents'[x].hp = ents[x].hp
          BY <2>3, <4>1
        <5>4. CASE ents[e].hp > win.damage
          BY <2>4, <5>4
        <5>5. CASE ~(ents[e].hp > win.damage)
          <6>1. ~(ents[x].hp > win.damage)
            BY <4>3, <5>5
          <6> HIDE DEF e
          <6>2. ents[x].hp <= damageWithDefense(Damage, {})
            BY <5>1, <5>2, <6>1
          <6> QED BY <5>3, <6>2
        <5> QED BY <5>4, <5>5
      <4> QED BY <2>3, <3>1, <4>1, <4>2, <4>3
    <3> QED BY <1>1, <2>2, <3>1 DEF Low
  <2> QED BY <2>5, <2>6
<1>3. CASE ~win.kill
  <2>1. ents' = ents /\ history' = history
    BY <1>3 DEF Strike
  <2>2. \/ win' = [win EXCEPT !.pc = "report"]
        \/ win' = [win EXCEPT !.pc = "give", !.cond = ents[e].cond, !.ver = known[e]]
    BY <1>3 DEF Strike
  <2>3. win'.pc # "strike" /\ win'.damage = win.damage /\ win'.target = win.target
    BY <1>1, <2>2 DEF WinType
  <2> QED BY <1>1, <2>1, <2>3, WindowDeaths
<1> QED BY <1>2, <1>3

LEMMA GiveDeaths ==
  ASSUME Types, Once, Low, Give PROVE Once' /\ Low'
<1>1. /\ win.pc = "give" /\ win.target \in Entity /\ win.shot \in DOMAIN shots /\ win.cond \in SUBSET Condition
      /\ win \in WinType /\ shots[win.shot].kind.effect # "none"
  BY DEF Types, WinOK, WinType, Give, Struggle
<1>2. shots[win.shot].kind.effect \in Condition
  BY <1>1, KindFacts DEF Types
<1>3. \A x \in Entity : ents'[x].hp = ents[x].hp /\ ents'[x].dead = ents[x].dead
  BY <1>1, <1>2, GivenEffect DEF Types, Give
<1>4. win'.pc = "report" /\ win'.damage <= damageWithDefense(Damage, {})
  BY <1>1 DEF Give, WinType, Low, Struggle
<1> QED BY <1>3, <1>4, SameDeaths DEF Give

LEMMA handleDamageDeaths ==
  ASSUME Types, Once, Low, NEW e \in Entity, NEW kill, NEW effect, handleDamage(e, kill, effect)
  PROVE  Once' /\ Low'
<1>1. net.pc = "idle"
  BY DEF handleDamage, Quiet
<1>2. net'.pc = "strike" => net'.target = e /\ ~ents[e].dead
  BY DEF handleDamage, Quiet
<1>3. UNCHANGED <<ents, win, history>>
  BY DEF handleDamage
<1>4. win.pc \in Struggle => win.damage <= damageWithDefense(Damage, {})
  BY DEF Low
<1> QED BY <1>1, <1>2, <1>3, <1>4, SameDeaths

LEMMA DamageStrikeDeaths ==
  ASSUME Types, Once, Low, DamageStrike PROVE Once' /\ Low'
<1> DEFINE e == net.target
<1>1. e \in Entity /\ net.pc = "strike" /\ net \in NetType /\ win' = win
  BY DEF Types, NetOK, NetType, DamageStrike
<1>2. CASE net.kill
  <2>1. net' = Quiet /\ Killed(e)
    BY <1>2 DEF DamageStrike
  <2>2. net'.pc = "idle"
    BY <2>1 DEF Quiet
  <2>3. \A x \in Entity : ents'[x].hp = ents[x].hp /\ ents'[x].dead = (ents[x].dead \/ x = e)
    BY <1>1, <2>1, KilledEffect DEF Types
  <2>4. /\ \A x \in Entity : history'.died[x] = IF x = e THEN history.died[x] + 1 ELSE history.died[x]
        /\ history'.overlap = (history.overlap \/ BothAt(e))
        /\ history'.told = history.told \cup {e} /\ history'.stale = history.stale
    BY <1>1, <1>2, DamageDied DEF Types
  <2>5. Once'
    <3>1. SUFFICES ASSUME ~history'.overlap
                   PROVE  /\ \A x \in Entity : history'.died[x] <= 1 /\ (history'.died[x] = 1 => ents'[x].dead)
                          /\ win.pc = "strike" => ~ents'[win.target].dead
      BY <1>1, <2>2 DEF Once
    <3>2. ~history.overlap /\ ~(win.pc = "strike" /\ win.target = e)
      BY <1>1, <2>4, <3>1, DeathTypes DEF BothAt
    <3>3. /\ \A x \in Entity : history.died[x] <= 1 /\ (history.died[x] = 1 => ents[x].dead)
          /\ ~ents[e].dead
          /\ win.pc = "strike" => ~ents[win.target].dead
      BY <1>1, <3>2 DEF Once
    <3>4. ASSUME NEW x \in Entity PROVE history'.died[x] <= 1 /\ (history'.died[x] = 1 => ents'[x].dead)
      <4>1. CASE x = e
        <5>1. history.died[x] \in Nat /\ history.died[x] <= 1 /\ history.died[x] # 1
          BY <3>3, <3>4, <4>1, DeathTypes
        <5>2. history.died[x] = 0
          BY <5>1
        <5>3. history'.died[x] = history.died[x] + 1
          BY <2>4, <3>4, <4>1
        <5>4. ents'[x].dead
          BY <2>3, <3>4, <4>1
        <5> QED BY <5>2, <5>3, <5>4
      <4>2. CASE x # e
        <5>1. history'.died[x] = history.died[x] /\ (ents[x].dead => ents'[x].dead)
          BY <2>3, <2>4, <3>4, <4>2
        <5> QED BY <3>3, <3>4, <5>1
      <4> QED BY <4>1, <4>2
    <3>5. win.pc = "strike" => ~ents'[win.target].dead
      BY <2>3, <3>2, <3>3, DeathTypes
    <3> QED BY <3>4, <3>5
  <2>6. Low'
    <3>1. ASSUME NEW x \in Hurt, ents'[x].dead
          PROVE  \/ ents'[x].hp <= damageWithDefense(Damage, {})
                 \/ x \in history'.told \/ history'.stale
      <4>1. x \in Entity
        BY DeathTypes
      <4>2. CASE ents[x].dead
        BY <1>1, <2>3, <2>4, <3>1, <4>1, <4>2 DEF Low
      <4>3. CASE x = e
        BY <2>4, <4>3
      <4> QED BY <2>3, <3>1, <4>1, <4>2, <4>3
    <3> QED BY <1>1, <3>1 DEF Low
  <2> QED BY <2>5, <2>6
<1>3. CASE ~net.kill
  <2>1. net'.pc = "give" /\ UNCHANGED <<ents, history>>
    BY <1>1, <1>3 DEF DamageStrike, NetType
  <2>2. win.pc \in Struggle => win.damage <= damageWithDefense(Damage, {})
    BY DEF Low
  <2> QED BY <1>1, <2>1, <2>2, SameDeaths
<1> QED BY <1>2, <1>3

LEMMA DamageGiveDeaths ==
  ASSUME Types, Once, Low, DamageGive PROVE Once' /\ Low'
<1>1. /\ net.pc = "give" /\ net.target \in Entity /\ net.cond \in SUBSET Condition /\ net.effect \in Condition
      /\ net'.pc = "idle"
  BY DEF Types, NetOK, NetType, DamageGive, Quiet
<1>2. \A x \in Entity : ents'[x].hp = ents[x].hp /\ ents'[x].dead = ents[x].dead
  BY <1>1, GivenEffect DEF Types, DamageGive
<1>3. (win.pc \in Struggle => win.damage <= damageWithDefense(Damage, {})) /\ UNCHANGED <<win, history>>
  BY DEF Low, DamageGive
<1> QED BY <1>1, <1>2, <1>3, SameDeaths

LEMMA StatHpDeaths ==
  ASSUME Types, Once, Low, StatHp PROVE Once' /\ Low'
<1> DEFINE stat == Head(down)
<1>1. stat.target \in Entity /\ net.pc = "idle" /\ net = Quiet /\ UNCHANGED <<win, history>>
  BY HeadDown, HurtIsEntity DEF StatHp, StatType, Quiet
<1>2. (win.pc \in Struggle => win.damage <= damageWithDefense(Damage, {}))
  BY DEF Low
<1>3. CASE ents[stat.target].here
  <2>1. ents' = [ents EXCEPT ![stat.target].hp = stat.hp] /\ net' = [net EXCEPT !.pc = "alive", !.target = stat.target]
    BY <1>3 DEF StatHp
  <2> HIDE DEF stat
  <2>2. \A x \in Entity : /\ ents'[x].dead = ents[x].dead
                          /\ x # stat.target => ents'[x].hp = ents[x].hp
    BY <1>1, <2>1 DEF Types, EntsOK
  <2>3. net'.pc = "alive" /\ net'.target = stat.target
    BY <1>1, <2>1 DEF Quiet
  <2>4. Once'
    BY <1>1, <2>2, <2>3, DeathTypes DEF Once
  <2>5. Low'
    BY <1>1, <1>2, <2>2, <2>3, DeathTypes DEF Low
  <2> QED BY <2>4, <2>5
<1>4. CASE ~ents[stat.target].here
  <2>1. UNCHANGED <<ents, net>>
    BY <1>4 DEF StatHp
  <2> QED BY <1>1, <1>2, <2>1, SameDeaths
<1> QED BY <1>3, <1>4

LEMMA StatAliveDeaths ==
  ASSUME Types, Once, Low, StatAlive PROVE Once' /\ Low'
<1> DEFINE e == net.target
           lives == ents[e].hp > 0
<1>1. e \in Entity /\ net \in NetType /\ win' = win /\ net.pc = "alive" /\ lives \in BOOLEAN
  BY DEF Types, NetOK, NetType, StatAlive
<1>2. ents' = [ents EXCEPT ![e].dead = @ /\ ~lives] /\ net' = [net EXCEPT !.pc = "cond"]
  BY DEF StatAlive
<1>3. /\ \A x \in Entity : history'.died[x] = IF x = e /\ lives THEN 0 ELSE history.died[x]
      /\ history'.told = IF lives THEN history.told \ {e} ELSE history.told
      /\ history'.overlap = history.overlap /\ history'.stale = history.stale
  BY StatAliveHistory
<1>4. lives \/ ents[e].hp = 0
  BY <1>1, DeathTypes
<1> HIDE DEF lives
<1>5. \A x \in Entity : ents'[x].hp = ents[x].hp /\ ents'[x].dead = (ents[x].dead /\ ~(x = e /\ lives))
  BY <1>1, <1>2 DEF Types, EntsOK
<1>6. net'.pc = "cond"
  BY <1>1, <1>2 DEF NetType
<1>7. Once'
  <2>1. SUFFICES ASSUME ~history.overlap
                 PROVE  /\ \A x \in Entity : history'.died[x] <= 1 /\ (history'.died[x] = 1 => ents'[x].dead)
                        /\ win.pc = "strike" => ~ents'[win.target].dead
    BY <1>1, <1>3, <1>6 DEF Once
  <2>2. /\ \A x \in Entity : history.died[x] <= 1 /\ (history.died[x] = 1 => ents[x].dead)
        /\ win.pc = "strike" => ~ents[win.target].dead
    BY <2>1 DEF Once
  <2>3. ASSUME NEW x \in Entity PROVE history'.died[x] <= 1 /\ (history'.died[x] = 1 => ents'[x].dead)
    <3>1. CASE x = e /\ lives
      BY <1>3, <3>1
    <3>2. CASE ~(x = e /\ lives)
      BY <1>3, <1>5, <2>2, <3>2
    <3> QED BY <3>1, <3>2
  <2>4. win.pc = "strike" => ~ents'[win.target].dead
    BY <1>5, <2>2, DeathTypes
  <2> QED BY <2>3, <2>4
<1>8. Low'
  <2>1. ASSUME NEW x \in Hurt, ents'[x].dead
        PROVE  \/ ents'[x].hp <= damageWithDefense(Damage, {})
               \/ x \in history'.told \/ history'.stale
    <3>1. x \in Entity
      BY DeathTypes
    <3>2. CASE x = e
      <4>1. ~lives
        BY <1>5, <2>1, <3>1, <3>2
      <4>2. ents'[x].hp = 0
        BY <1>4, <1>5, <3>1, <3>2, <4>1
      <4> QED BY <4>2, DeathTypes
    <3>3. CASE x # e
      BY <1>1, <1>3, <1>5, <2>1, <3>1, <3>3 DEF Low
    <3> QED BY <3>2, <3>3
  <2> QED BY <1>1, <2>1 DEF Low
<1> QED BY <1>7, <1>8

LEMMA StatCondDeaths ==
  ASSUME Types, Once, Low, StatCond PROVE Once' /\ Low'
<1>1. net.pc = "cond" /\ net'.pc = "idle" /\ UNCHANGED <<win, history>>
  BY DEF StatCond, Quiet
<1>2. win.pc \in Struggle => win.damage <= damageWithDefense(Damage, {})
  BY DEF Low
<1> QED BY <1>1, <1>2, StatCondEffect, SameDeaths

LEMMA DropDeaths ==
  ASSUME Types, Once, Low, NEW e \in Entity, Drop(e) PROVE Once' /\ Low'
<1>1. UNCHANGED <<win, net, history>>
  BY DEF Drop
<1>2. win.pc \in Struggle => win.damage <= damageWithDefense(Damage, {})
  BY DEF Low
<1> QED BY <1>1, <1>2, DropTypes, SameDeaths

LEMMA ServerDeaths ==
  ASSUME Types, Once, Low, Server PROVE Once' /\ Low'
<1>1. UNCHANGED <<ents, win, net>>
  BY DEF Server, ServerTakesHit, ServerTells, ServerHurts, ServerChanges
<1>2. /\ history'.overlap = history.overlap /\ history'.stale = history.stale
      /\ history'.told = history.told /\ history'.died = history.died
  <2>1. history \in HistoryType
    BY DEF Types, CountsOK
  <2>2. CASE ServerTakesHit
    BY <2>1, <2>2 DEF ServerTakesHit, HistoryType
  <2>3. CASE ~ServerTakesHit
    BY <2>3 DEF Server, ServerTells, ServerHurts, ServerChanges
  <2> QED BY <2>2, <2>3
<1> QED BY <1>1, <1>2 DEF Once, Low

-----------------------------------------------------------------------------
(* The invariant of the specification. *)

LEMMA InitIInv == Init => IInv
<1> SUFFICES ASSUME Init PROVE IInv
  OBVIOUS
<1>1. /\ time = 0 /\ shots = <<>> /\ win = Idle /\ net = Quiet /\ up = <<>> /\ down = <<>>
      /\ server = [e \in Hurt |-> [hp |-> StartHp[e], cond |-> {}, ver |-> 0]]
      /\ known = [e \in Entity |-> 0]
      /\ ents = [e \in Entity |-> [here |-> TRUE, hp |-> IF e \in Hurt THEN StartHp[e] ELSE 0, dead |-> FALSE, cond |-> {}]]
      /\ history = [died |-> [e \in Entity |-> 0], overlap |-> FALSE, stale |-> FALSE, told |-> {}, wrong |-> FALSE]
      /\ count = [fired |-> 0, events |-> 0]
  BY DEF Init
<1>2. DOMAIN shots = {} /\ DOMAIN up = {} /\ DOMAIN down = {} /\ win.pc = "idle" /\ net.pc = "idle"
  BY <1>1 DEF Idle, Quiet
<1>3. \A e \in Hurt : StartHp[e] \in 0..MaxHp /\ e \in Entity
  BY HitsAssumption, HurtIsEntity DEF Hurt
<1>4. Types
  <2>1. ShotsOK
    BY <1>1, <1>2 DEF ShotsOK
  <2>2. EntsOK
    <3>1. ASSUME NEW e \in Entity PROVE (IF e \in Hurt THEN StartHp[e] ELSE 0) \in 0..MaxHp
      BY <1>3, HitsAssumption
    <3> QED BY <1>1, <3>1 DEF EntsOK
  <2>3. WinOK
    <3>1. Idle \in WinType
      BY HurtIsEntity DEF Idle, WinType
    <3> QED BY <1>1, <1>2, <3>1 DEF WinOK, Idle, Struggle
  <2>4. NetOK
    BY <1>1, <1>2, QuietOK DEF NetOK
  <2>5. WiresOK
    BY <1>1 DEF WiresOK
  <2>6. ServerOK
    BY <1>1, <1>3 DEF ServerOK
  <2>7. CountsOK
    BY <1>1, HitsAssumption DEF CountsOK, HistoryType
  <2> QED BY <2>1, <2>2, <2>3, <2>4, <2>5, <2>6, <2>7 DEF Types
<1>5. Reports
  BY <1>1, <1>2 DEF Reports, EachHitOnce, Flight, Noted, Fresh, Struggle
<1>6. Told
  <2>1. \A e \in Hurt : Current(e, known[e], ents[e].cond)
    <3>1. TAKE e \in Hurt
    <3>2. /\ e \in Entity /\ known[e] = 0 /\ server[e].ver = 0 /\ server[e].cond = {}
          /\ server[e].hp = StartHp[e] /\ ents[e].hp = StartHp[e] /\ StartHp[e] \in Int
      BY <1>1, <1>3
    <3> QED BY <3>2 DEF Current
  <2> QED BY <1>1, <1>2, <2>1 DEF Told, Order, Kept, Claims, Struggle
<1>7. Once
  BY <1>1, <1>2 DEF Once
<1>8. Low
  BY <1>1, <1>2, <1>3 DEF Low, Struggle
<1> QED BY <1>4, <1>5, <1>6, <1>7, <1>8 DEF IInv

\* Either thread fires.
LEMMA AddedIInv ==
  ASSUME IInv, NEW kind \in Kinds, Fires, shots' = Added(kind),
         UNCHANGED <<time, ents, win, net, up, down, server, known, history>>
  PROVE  IInv'
<1>1. Types' /\ Reports' /\ Told'
  BY AddedTypes, AddedReports, AddedTold DEF IInv
<1>2. Once' /\ Low'
  BY WindowDeaths DEF IInv
<1> QED BY <1>1, <1>2 DEF IInv

LEMMA AsideIInv ==
  ASSUME IInv,
         \/ FrameBegin \/ FrameEnd \/ MeetImmune \/ MeetInvulnerable \/ MeetOther
         \/ \E s \in DOMAIN shots : UpdateShot(s)
  PROVE  IInv'
<1>1. Types /\ Reports /\ Told /\ Once /\ Low
  BY DEF IInv
<1>2. UNCHANGED <<ents, net, up, down, server, known, history>> /\ win'.pc \notin Struggle
  BY <1>1, AsideSteps
<1>3. Types'
  BY <1>1, FrameBeginTypes, FrameEndTypes, MeetTypes, UpdateShotTypes
<1>4. Reports'
  BY <1>1, FrameReports, MeetReports, UpdateShotReports
<1>5. Told'
  BY <1>1, <1>2, AsideTold
<1>6. Once' /\ Low'
  <2>1. win'.pc # "strike"
    BY <1>2 DEF Struggle
  <2> QED BY <1>1, <1>2, <2>1, WindowDeaths
<1> QED BY <1>3, <1>4, <1>5, <1>6 DEF IInv

LEMMA WindowIInv ==
  ASSUME IInv, Window PROVE IInv'
<1>1. Types /\ Reports /\ Told /\ Once /\ Low
  BY DEF IInv
<1>2. CASE doShoot
  <2>1. PICK kind \in Kinds : shots' = Added(kind)
    BY <1>2 DEF doShoot
  <2> QED BY <1>2, <2>1, AddedIInv DEF doShoot
<1>3. CASE \/ FrameBegin \/ FrameEnd \/ MeetImmune \/ MeetInvulnerable \/ MeetOther
           \/ \E s \in DOMAIN shots : UpdateShot(s)
  BY <1>3, AsideIInv
<1>4. CASE Reckon
  BY <1>1, <1>4, ReckonTypes, StruggleReports, ReckonTold, ReckonDeaths DEF IInv
<1>5. CASE Test
  BY <1>1, <1>5, TestTypes, StruggleReports, TestTold, TestDeaths DEF IInv
<1>6. CASE Strike
  BY <1>1, <1>6, StrikeTypes, StruggleReports, StrikeTold, StrikeDeaths DEF IInv
<1>7. CASE Give
  <2>1. win.pc = "give" => shots[win.shot].kind.effect # "none"
    BY <1>1 DEF Types, WinOK
  <2> QED BY <1>1, <1>7, <2>1, GiveTypes, StruggleReports, GiveTold, GiveDeaths DEF IInv
<1>8. CASE ReportHit
  <2>1. win.shot \in win.todo /\ UNCHANGED <<ents, net, history>>
    BY <1>1, <1>8 DEF ReportHit, Types, WinOK, Struggle
  <2>2. win'.pc = "frame"
    BY <1>1, <1>8, <2>1, EndedEffect DEF ReportHit, Types
  <2>3. Once' /\ Low'
    BY <1>1, <2>1, <2>2, WindowDeaths DEF Struggle
  <2> QED BY <1>1, <1>8, <2>3, MeetTypes, MeetReports, ReportHitTold DEF IInv
<1> QED BY <1>2, <1>3, <1>4, <1>5, <1>6, <1>7, <1>8 DEF Window

LEMMA NetworkIInv ==
  ASSUME IInv, Network PROVE IInv'
<1>1. Types /\ Reports /\ Told /\ Once /\ Low
  BY DEF IInv
<1>2. ASSUME NEW kind \in Kinds, handleShoot(kind) PROVE IInv'
  BY <1>2, AddedIInv DEF handleShoot
<1>3. ASSUME NEW e \in Entity, Drop(e) PROVE IInv'
  <2>1. Reports'
    BY <1>1, <1>3, SameReports DEF Drop
  <2>2. Types'
    BY <1>1, <1>3, DropTypes
  <2> QED BY <1>1, <1>3, <2>1, <2>2, DropTold, DropDeaths DEF IInv
<1>4. ASSUME NEW e \in Entity, NEW kill \in BOOLEAN, NEW effect \in Condition \cup {"none"},
             ~kill => effect \in Condition, handleDamage(e, kill, effect)
      PROVE  IInv'
  <2>1. Reports'
    BY <1>1, <1>4, SameReports DEF handleDamage
  <2> QED BY <1>1, <1>4, <2>1, handleDamageTypes, handleDamageTold, handleDamageDeaths DEF IInv
<1>5. CASE DamageStrike
  <2>1. Reports'
    BY <1>1, <1>5, SameReports DEF DamageStrike
  <2> QED BY <1>1, <1>5, <2>1, DamageStrikeTypes, DamageStrikeTold, DamageStrikeDeaths DEF IInv
<1>6. CASE DamageGive
  <2>1. Reports'
    BY <1>1, <1>6, SameReports DEF DamageGive
  <2> QED BY <1>1, <1>6, <2>1, DamageGiveTypes, DamageGiveTold, DamageGiveDeaths DEF IInv
<1>7. CASE StatHp
  <2>1. Reports'
    BY <1>1, <1>7, SameReports DEF StatHp
  <2> QED BY <1>1, <1>7, <2>1, StatHpTypes, StatHpTold, StatHpDeaths DEF IInv
<1>8. CASE StatAlive
  <2>1. Reports'
    BY <1>1, <1>8, SameReports DEF StatAlive
  <2> QED BY <1>1, <1>8, <2>1, StatAliveTypes, StatAliveTold, StatAliveDeaths DEF IInv
<1>9. CASE StatCond
  <2>1. Reports'
    BY <1>1, <1>9, SameReports DEF StatCond
  <2>2. Types'
    BY <1>1, <1>9, StatCondEffect
  <2> QED BY <1>1, <1>9, <2>1, <2>2, StatCondTold, StatCondDeaths DEF IInv
<1>10. CASE \E e \in Entity : \/ handleDamage(e, TRUE, "none")
                              \/ \E effect \in Conditions : handleDamage(e, FALSE, effect)
  BY <1>4, <1>10, HitsAssumption
<1> QED BY <1>2, <1>3, <1>5, <1>6, <1>7, <1>8, <1>9, <1>10 DEF Network

LEMMA ServerIInv ==
  ASSUME IInv, Server PROVE IInv'
<1>1. Types /\ Reports /\ Told /\ Once /\ Low
  BY DEF IInv
<1>2. UNCHANGED <<shots, win>>
  BY DEF Server, ServerTakesHit, ServerTells, ServerHurts, ServerChanges
<1>3. Reports' /\ Once' /\ Low'
  BY <1>1, <1>2, SameReports, ServerDeaths
<1>4. Types' /\ Told'
  <2>1. CASE ServerTakesHit
    BY <1>1, <2>1, ServerTakesHitEffect, ServerTakesHitTold
  <2>2. ASSUME NEW e \in Hurt, ServerTells(e) PROVE Types' /\ Told'
    BY <1>1, <2>2, ServerTellsTypes, ServerTellsTold
  <2>3. ASSUME NEW e \in Hurt, ServerHurts(e) PROVE Types' /\ Told'
    BY <1>1, <2>3, ServerHurtsEffect, ServerHurtsTold
  <2>4. ASSUME NEW e \in Hurt, NEW hp \in 0..MaxHp, NEW cond \in SUBSET Conditions, ServerChanges(e, hp, cond)
        PROVE  Types' /\ Told'
    BY <1>1, <2>4, ServerChangesEffect, ServerChangesTold
  <2> QED BY <2>1, <2>2, <2>3, <2>4 DEF Server
<1> QED BY <1>3, <1>4 DEF IInv

LEMMA NextIInv == IInv /\ [Next]_vars => IInv'
<1> SUFFICES ASSUME IInv, [Next]_vars PROVE IInv'
  OBVIOUS
<1>1. CASE Window
  BY <1>1, WindowIInv
<1>2. CASE Network
  BY <1>2, NetworkIInv
<1>3. CASE Server
  BY <1>3, ServerIInv
<1>4. CASE UNCHANGED vars
  <2>1. Types'
    BY <1>4 DEF vars, IInv, Types, ShotsOK, EntsOK, WinOK, NetOK, WiresOK, ServerOK, CountsOK
  <2>2. Reports'
    BY <1>4, SameReports DEF vars, IInv
  <2>3. Told'
    BY <1>4 DEF vars, IInv, Told, Order, Kept, Claims, Current, Deadly
  <2>4. Once' /\ Low'
    BY <1>4 DEF vars, IInv, Once, Low
  <2> QED BY <2>1, <2>2, <2>3, <2>4 DEF IInv
<1> QED BY <1>1, <1>2, <1>3, <1>4 DEF Next

\* Every state of the specification satisfies the inductive invariant: what a
\* thread, a report on its way or a status on its way keeps of an entity agrees
\* with the entity, in whatever order the two threads and the server step.
THEOREM Invariance == Spec => []IInv
BY InitIInv, NextIInv, PTL DEF Spec

\* A shot reports no target twice, and one that does not hit many reports once
\* in all: what it is about to report it has not noted (map.zig 1793-1925).
THEOREM HitOnce == Spec => []EachHitOnce
<1>1. IInv => EachHitOnce
  BY DEF IInv, Reports
<1> QED BY <1>1, Invariance, PTL

\* No hit that claims to have killed is found wrong by the server, unless the
\* target was healed or changed since it told the conditions that the client
\* keeps (map.zig 524, 1866-1893).
THEOREM ClaimsHold == Spec => []KilledIsRight
<1>1. IInv => KilledIsRight
  BY DEF IInv, Told, Claims, KilledIsRight
<1> QED BY <1>1, Invariance, PTL

LEMMA TypesTypeOK ==
  ASSUME Types, Kept PROVE TypeOK
<1>1. time \in 0..MaxTime /\ time \in Nat
  BY HitsAssumption DEF Types, CountsOK
<1>2. ASSUME NEW s \in DOMAIN shots
      PROVE  /\ shots[s].kind \in Kinds /\ shots[s].born \in 0..time /\ shots[s].checked <= time
             /\ shots[s].hits \subseteq Entity /\ shots[s].flying \in BOOLEAN
  <2>1. shots[s] \in ShotType /\ shots[s].born <= time /\ shots[s].checked <= time
    BY DEF Types, ShotsOK
  <2> QED BY <1>1, <2>1 DEF ShotType
<1>3. /\ win.pc \in {"idle", "frame", "found", "test", "strike", "give", "report"}
      /\ win.todo \subseteq DOMAIN shots /\ win.target \in Entity
      /\ win.pc \in {"found", "test", "strike", "give", "report"} => win.shot \in win.todo
  BY DEF Types, WinOK, WinType, Struggle
<1>4. /\ net.pc \in {"idle", "strike", "give", "alive", "cond"} /\ net.target \in Entity
      /\ net.pc \in {"alive", "cond"} => down # <<>>
  BY DEF Types, NetOK, NetType
<1>5. /\ \A i \in DOMAIN up : up[i].target \in Hurt
      /\ \A i \in DOMAIN down : down[i].target \in Hurt
  BY ToldTypes
<1>6. \A e \in Hurt : server[e].hp \in 0..MaxHp /\ known[e] <= server[e].ver
  BY DEF Types, ServerOK, Kept, Current
<1> QED BY <1>1, <1>2, <1>3, <1>4, <1>5, <1>6 DEF TypeOK, Types, EntsOK, ServerOK

\* What is shown dead has died, and died once until it is alive again, unless
\* both threads were between asking and setting dead; and it has no more hp
\* than a hit takes, or the server killed it, or its hp was replaced before the
\* blow (map.zig 423-546, 1045-1172).
THEOREM DeathsHold == Spec => []DeathsRight
<1>1. IInv => TypeOK
  BY TypesTypeOK DEF IInv, Told
<1>2. IInv => DiesOnce
  BY DEF IInv, Once, DiesOnce
<1>3. IInv => DeadIsLow
  BY QuietOK DEF IInv, Low, DeadIsLow
<1>4. IInv => DeathsRight
  BY <1>1, <1>2, <1>3 DEF DeathsRight
<1> QED BY <1>4, Invariance, PTL
=============================================================================
