-------------------------------- MODULE Hits --------------------------------
(***************************************************************************)
(* What shots hit: Projectile.update and takeDamage of src/src/map.zig,    *)
(* and the packets of src/src/network.zig that shoot, hurt, revive and     *)
(* drop entities.                                                          *)
(*                                                                         *)
(* The window thread moves every shot once a frame, with object_lock; the  *)
(* network thread changes hp, dead and the condition of entities without   *)
(* it, and adds shots.  A step is one access to an entity.  Where a shot   *)
(* flies is left out: each frame it meets anything it could meet.  The     *)
(* server is external: it takes every hit of the own shots, in the order   *)
(* they are reported, and tells hp and condition when it likes.            *)
(***************************************************************************)
EXTENDS Integers, Sequences, FiniteSets, Functions

CONSTANTS
  Enemies, Covers, Players, Me,  \* entities; Me is one of Players
  Damage, Defence,               \* of the shots that have damage; of everyone
  MaxHp, StartHp,                \* the latter of everything that can be hurt
  Conditions,                    \* those the server gives
  Kinds,                         \* of shots that are fired: by the own player,
                                 \* another or an enemy; whether they hit many;
                                 \* the condition they give; their damage
  Lifetime,                      \* frames a shot lives
  Interval,                      \* frames between two looks for a target
  MaxShots, MaxTime, MaxEvents  \* bounds; an event is a packet or a change of
                                \* the server's

\* "invincible" stands for stasis too, "slowed" for all that matter to
\* nothing here; armor_broken is left out.
Condition == {"armored", "invulnerable", "invincible", "slowed"}

ASSUME HitsAssumption ==
  /\ Me \in Players
  /\ Enemies \cap Covers = {} /\ (Enemies \cup Covers) \cap Players = {}
  /\ "square" \notin Enemies \cup Covers \cup Players
  /\ Damage \in Nat /\ Defence \in Nat /\ MaxHp \in Nat
  /\ StartHp \in [Enemies \cup {Me} -> 1..MaxHp]
  /\ Conditions \subseteq Condition
  /\ Kinds \subseteq [by : {"own", "other", "enemy"}, multi : BOOLEAN, effect : Condition \cup {"none"},
                     damage : {0, Damage}]
  /\ Lifetime \in Nat /\ Interval \in Nat
  /\ MaxShots \in Nat /\ MaxTime \in Nat /\ MaxEvents \in Nat

VARIABLES
  time,     \* frames since the start
  shots,    \* the shots there are, numbered as they were fired
  ents,     \* of every entity: here, hp, dead, and cond, its conditions
  win,      \* Projectile.update: pc, todo, the shots it has not seen this
            \* frame; shot, target, damage, kill, ver and cond, its locals
  net,      \* the packet being handled: pc, target, kill, effect, ver, cond
  up,       \* hits reported and not yet taken by the server
  down,     \* stats told and not yet handled
  server,   \* of everything that can be hurt: hp, cond and ver, which is
            \* raised when it is healed or changes its condition
  known,    \* history: the ver of the conditions that the client keeps
  history,  \* died: how often an entity died since it was alive; overlap: both
            \* threads were between asking and setting dead; stale: a kill was
            \* reckoned from an hp that was replaced; told: killed by a packet;
            \* wrong: a claim to have killed that the server found wrong
  count     \* shots fired, events so far

vars == <<time, shots, ents, win, net, up, down, server, known, history, count>>

Entity == Enemies \cup Covers \cup Players
Hurt == Enemies \cup {Me}
Idle == [pc |-> "idle", todo |-> {}, shot |-> 0, target |-> Me, damage |-> 0, kill |-> FALSE, ver |-> 0, cond |-> {}]
Quiet == [pc |-> "idle", target |-> Me, kill |-> FALSE, effect |-> "none", ver |-> 0, cond |-> {}]

Shot(kind) ==
  [kind |-> kind, born |-> time, checked |-> -1 - Interval, hits |-> {}, said |-> <<>>,
   flying |-> TRUE]

\* addToMap.
Added(kind) ==
  LET n == count.fired + 1 IN
  [s \in DOMAIN shots \cup {n} |-> IF s = n THEN Shot(kind) ELSE shots[s]]

\* damageWithDefense; a quarter of the damage always comes through.
damageWithDefense(damage, cond) ==
  LET def == IF "armored" \in cond THEN 2 * Defence ELSE Defence IN
  IF cond \cap {"invulnerable", "invincible"} # {} THEN 0
  ELSE IF damage - def > damage \div 4 THEN damage - def ELSE damage \div 4

Init ==
  /\ time = 0 /\ shots = <<>>
  /\ ents = [e \in Entity |-> [here |-> TRUE, hp |-> IF e \in Hurt THEN StartHp[e] ELSE 0, dead |-> FALSE, cond |-> {}]]
  /\ win = Idle /\ net = Quiet
  /\ up = <<>> /\ down = <<>>
  /\ server = [e \in Hurt |-> [hp |-> StartHp[e], cond |-> {}, ver |-> 0]]
  /\ known = [e \in Entity |-> 0]
  /\ history = [died |-> [e \in Entity |-> 0], overlap |-> FALSE, stale |-> FALSE,
                told |-> {}, wrong |-> FALSE]
  /\ count = [fired |-> 0, events |-> 0]

-----------------------------------------------------------------------------
(* The window thread: a frame, and in it each shot's update.               *)

FrameBegin ==
  /\ win.pc = "idle" /\ time < MaxTime
  /\ time' = time + 1
  /\ win' = [win EXCEPT !.pc = "frame", !.todo = DOMAIN shots]
  /\ UNCHANGED <<shots, ents, net, up, down, server, known, history, count>>

\* Bounds on shots: one fired when the last frame has begun meets nothing.
Fires ==
  /\ count.fired < MaxShots /\ time < MaxTime
  /\ count' = [count EXCEPT !.fired = @ + 1]

\* Player.doShoot, in Player.update of the same frame.
doShoot ==
  /\ win.pc = "frame" /\ ents[Me].here /\ Fires
  /\ \E kind \in Kinds : kind.by = "own" /\ shots' = Added(kind)
  /\ UNCHANGED <<time, ents, win, net, up, down, server, known, history>>

\* The shots whose update said that they end are removed.
FrameEnd ==
  /\ win.pc = "frame" /\ win.todo = {}
  /\ win' = Idle
  /\ shots' = Restrict(shots, {s \in DOMAIN shots : shots[s].flying})
  /\ UNCHANGED <<time, ents, net, up, down, server, known, history, count>>

\* What a shot reports, and whether it goes on; a report is heard by the
\* server only if it is about something that can be hurt.
Report(s, target, kill, stays) ==
  /\ shots' = [shots EXCEPT ![s].said = Append(@, target),
                            ![s].flying = stays,
                            ![s].hits = IF stays THEN @ \cup {target} ELSE @,
                            ![s].checked = IF stays THEN time ELSE @]
  /\ up' = IF target \in Hurt /\ shots[s].kind.by # "other"
           THEN Append(up, [target |-> target, kill |-> kill /\ target \in Enemies, ver |-> win.ver, damage |-> shots[s].kind.damage])
           ELSE up

\* Without a report.
Keep(s, checked, stays, hits) ==
  /\ shots' = [shots EXCEPT ![s].checked = checked, ![s].flying = stays, ![s].hits = hits]
  /\ UNCHANGED up

Ended(s) == win' = [win EXCEPT !.pc = "frame", !.todo = @ \ {s}, !.shot = 0, !.target = Me,
                               !.damage = 0, !.kill = FALSE, !.ver = 0, !.cond = {}]
Expired(s) == time - shots[s].born >= Lifetime

Turn(s) == win.pc = "frame" /\ s \in win.todo

Expire(s) ==
  /\ Turn(s) /\ Expired(s)
  /\ Keep(s, shots[s].checked, FALSE, shots[s].hits)
  /\ Ended(s)
  /\ UNCHANGED <<time, ents, net, down, server, known, history, count>>

\* It leaves the map, or is over a square without ground: square_hit.
MeetGround(s) ==
  /\ Turn(s) /\ ~Expired(s)
  /\ IF shots[s].kind.by = "enemy"
     THEN Report(s, "square", FALSE, FALSE)
     ELSE Keep(s, shots[s].checked, FALSE, shots[s].hits)
  /\ Ended(s)
  /\ UNCHANGED <<time, ents, net, down, server, known, history, count>>

\* It is over a square on which something stands: other_hit.
MeetCover(s, e) ==
  /\ Turn(s) /\ ~Expired(s)
  /\ e \in Covers /\ ents[e].here
  /\ IF shots[s].kind.by = "enemy"
     THEN Report(s, e, FALSE, FALSE)
     ELSE Keep(s, shots[s].checked, FALSE, shots[s].hits)
  /\ Ended(s)
  /\ UNCHANGED <<time, ents, net, down, server, known, history, count>>

Due(s) == time - shots[s].checked > Interval

MeetNothing(s) ==
  /\ Turn(s) /\ ~Expired(s)
  /\ Keep(s, IF Due(s) THEN time ELSE shots[s].checked, TRUE, shots[s].hits)
  /\ Ended(s)
  /\ UNCHANGED <<time, ents, net, down, server, known, history, count>>

\* findTargetPlayer and findTargetObject: the nearest, dead or not.
Targets(s) == IF shots[s].kind.by = "enemy" THEN Players ELSE Enemies \cup Covers

FindTarget(s, e) ==
  /\ Turn(s) /\ ~Expired(s) /\ Due(s)
  /\ e \in Targets(s) /\ ents[e].here
  /\ win' = [win EXCEPT !.pc = "found", !.shot = s, !.target = e]
  /\ UNCHANGED <<time, shots, ents, net, up, down, server, known, history, count>>

Found == win.pc = "found"
Immune(s, e) == "invincible" \in ents[e].cond \/ e \in shots[s].hits

\* update returns at once; the shot looks again in the next frame.
MeetImmune ==
  LET s == win.shot IN
  /\ Found /\ Immune(s, win.target)
  /\ Ended(s)
  /\ UNCHANGED <<time, shots, ents, net, up, down, server, known, history, count>>

MeetInvulnerable ==
  LET s == win.shot IN
  /\ Found /\ ~Immune(s, win.target)
  /\ "invulnerable" \in ents[win.target].cond
  /\ Keep(s, shots[s].checked, FALSE, shots[s].hits)
  /\ Ended(s)
  /\ UNCHANGED <<time, ents, net, down, server, known, history, count>>

Vulnerable == Found /\ ~Immune(win.shot, win.target) /\ "invulnerable" \notin ents[win.target].cond

\* Another player or a cover: other_hit of a shot that hits once; one that
\* hits many reports nothing.
MeetOther ==
  LET s == win.shot IN
  /\ Vulnerable /\ win.target \notin Hurt
  /\ IF shots[s].kind.multi
     THEN Keep(s, time, TRUE, shots[s].hits \cup {win.target})
     ELSE Report(s, win.target, FALSE, FALSE)
  /\ Ended(s)
  /\ UNCHANGED <<time, ents, net, down, server, known, history, count>>

\* Mutant of Reckon: the target's condition is not looked at.
ReckonPlain ==
  LET e == win.target
      d == damageWithDefense(shots[win.shot].kind.damage, {}) IN
  /\ Vulnerable /\ e \in Hurt
  /\ win' = [win EXCEPT !.pc = "test", !.damage = d, !.kill = ents[e].hp <= d, !.ver = known[e]]
  /\ UNCHANGED <<time, shots, ents, net, up, down, server, known, history, count>>

\* The damage, and whether it kills: takeDamage subtracts nothing, so what is
\* compared is the hp the server told last.
Reckon ==
  LET e == win.target
      d == damageWithDefense(shots[win.shot].kind.damage, ents[e].cond) IN
  /\ Vulnerable /\ e \in Hurt
  /\ win' = [win EXCEPT !.pc = "test", !.damage = d, !.kill = ents[e].hp <= d, !.ver = known[e]]
  /\ UNCHANGED <<time, shots, ents, net, up, down, server, known, history, count>>

\* takeDamage, of either thread: first it asks whether the target is dead,
\* then it kills it or gives it the shot's condition, one bit of a word that is
\* loaded and stored.
Killed(e) == ents' = [ents EXCEPT ![e].dead = TRUE]
Given(e, cond, effect) == ents' = [ents EXCEPT ![e].cond = cond \cup {effect}]

\* Mutant of Test: the dead die again.
TestNot ==
  /\ win.pc = "test"
  /\ win' = [win EXCEPT !.pc = "strike"]
  /\ UNCHANGED <<time, shots, ents, net, up, down, server, known, history, count>>

Test ==
  /\ win.pc = "test"
  /\ win' = [win EXCEPT !.pc = IF ents[win.target].dead THEN "report" ELSE "strike"]
  /\ UNCHANGED <<time, shots, ents, net, up, down, server, known, history, count>>

BothAt(e) == win.pc = "strike" /\ win.target = e /\ net.pc = "strike" /\ net.target = e

Strike ==
  LET e == win.target
      effect == shots[win.shot].kind.effect IN
  /\ win.pc = "strike"
  /\ IF win.kill
     THEN /\ Killed(e)
          /\ win' = [win EXCEPT !.pc = "report"]
          /\ history' = [history EXCEPT !.died[e] = @ + 1,
                                        !.overlap = @ \/ BothAt(e),
                                        !.stale = @ \/ ents[e].hp > win.damage]
     ELSE /\ win' = IF effect = "none" THEN [win EXCEPT !.pc = "report"]
                    ELSE [win EXCEPT !.pc = "give", !.cond = ents[e].cond, !.ver = known[e]]
          /\ UNCHANGED <<ents, history>>
  /\ UNCHANGED <<time, shots, net, up, down, server, known, count>>

\* A condition told meanwhile is overwritten.
Give ==
  LET e == win.target IN
  /\ win.pc = "give"
  /\ Given(e, win.cond, shots[win.shot].kind.effect)
  /\ known' = [known EXCEPT ![e] = win.ver]
  /\ win' = [win EXCEPT !.pc = "report"]
  /\ UNCHANGED <<time, shots, net, up, down, server, history, count>>

\* Mutant of ReportHit: what was hit is not noted.
ReportHitAgain ==
  LET s == win.shot IN
  /\ win.pc = "report"
  /\ shots' = [shots EXCEPT ![s].said = Append(@, win.target), ![s].flying = shots[s].kind.multi]
  /\ UNCHANGED up
  /\ Ended(s)
  /\ UNCHANGED <<time, ents, net, down, server, known, history, count>>

\* player_hit or enemy_hit, the latter with the kill that was reckoned; also
\* for the dead, and for shots of other players.
ReportHit ==
  LET s == win.shot IN
  /\ win.pc = "report"
  /\ Report(s, win.target, win.kill, shots[s].kind.multi)
  /\ Ended(s)
  /\ UNCHANGED <<time, ents, net, down, server, known, history, count>>

-----------------------------------------------------------------------------
(* The network thread.                                                     *)

\* handleEnemyShoot, if the enemy is known; handleAllyShoot, without damage,
\* and handleServerPlayerShoot, with damage, if the other player is.
handleShoot(kind) ==
  /\ net = Quiet /\ Fires
  /\ kind.by # "own"
  /\ \E e \in IF kind.by = "enemy" THEN Enemies ELSE Players \ {Me} : ents[e].here
  /\ shots' = Added(kind)
  /\ UNCHANGED <<time, ents, win, net, up, down, server, known, history>>

\* handleDamage: the server says that something was hurt or killed; hurt
\* without an effect is text only.
handleDamage(e, kill, effect) ==
  /\ net = Quiet /\ ents[e].here /\ count.events < MaxEvents
  /\ count' = [count EXCEPT !.events = @ + 1]
  /\ net' = IF ents[e].dead THEN Quiet ELSE [Quiet EXCEPT !.pc = "strike", !.target = e, !.kill = kill, !.effect = effect]
  /\ UNCHANGED <<time, shots, ents, win, up, down, server, known, history>>

DamageStrike ==
  LET e == net.target IN
  /\ net.pc = "strike"
  /\ IF net.kill
     THEN /\ Killed(e)
          /\ net' = Quiet
          /\ history' = [history EXCEPT !.died[e] = @ + 1,
                                        !.overlap = @ \/ BothAt(e),
                                        !.told = @ \cup {e}]
     ELSE /\ net' = [net EXCEPT !.pc = "give", !.cond = ents[e].cond, !.ver = known[e]]
          /\ UNCHANGED <<ents, history>>
  /\ UNCHANGED <<time, shots, win, up, down, server, known, count>>

\* Only a condition that the window thread gave is overwritten.
DamageGive ==
  /\ net.pc = "give"
  /\ Given(net.target, net.cond, net.effect)
  /\ known' = [known EXCEPT ![net.target] = net.ver]
  /\ net' = Quiet
  /\ UNCHANGED <<time, shots, win, up, down, server, history, count>>

\* The hp stat, in handleNewTick: hp is set, then the entity is alive again.
StatHp ==
  LET stat == Head(down) IN
  /\ net = Quiet /\ down # <<>>
  /\ IF ents[stat.target].here
     THEN /\ ents' = [ents EXCEPT ![stat.target].hp = stat.hp]
          /\ net' = [net EXCEPT !.pc = "alive", !.target = stat.target]
          /\ UNCHANGED down
     ELSE /\ down' = Tail(down)
          /\ UNCHANGED <<ents, net>>
  /\ UNCHANGED <<time, shots, win, up, server, known, history, count>>

StatAlive ==
  LET e == net.target
      lives == ents[e].hp > 0 IN
  /\ net.pc = "alive"
  /\ ents' = [ents EXCEPT ![e].dead = @ /\ ~lives]
  /\ net' = [net EXCEPT !.pc = "cond"]
  /\ history' = [history EXCEPT !.died[e] = IF lives THEN 0 ELSE @,
                                !.told = IF lives THEN @ \ {e} ELSE @]
  /\ UNCHANGED <<time, shots, win, up, down, server, known, count>>

\* The condition stat of the same status.
StatCond ==
  LET e == net.target IN
  /\ net.pc = "cond"
  /\ ents' = [ents EXCEPT ![e].cond = Head(down).cond]
  /\ known' = [known EXCEPT ![e] = Head(down).ver]
  /\ down' = Tail(down)
  /\ net' = Quiet
  /\ UNCHANGED <<time, shots, win, up, server, history, count>>

\* handleUpdate drops an entity, with object_lock.
Drop(e) ==
  /\ net = Quiet /\ win.pc = "idle" /\ ents[e].here
  /\ count.events < MaxEvents
  /\ count' = [count EXCEPT !.events = @ + 1]
  /\ ents' = [ents EXCEPT ![e].here = FALSE]
  /\ UNCHANGED <<time, shots, win, net, up, down, server, known, history>>

-----------------------------------------------------------------------------
(* The server.                                                             *)

ServerTakesHit ==
  LET hit == Head(up)
      d == damageWithDefense(hit.damage, server[hit.target].cond)
      left == server[hit.target].hp - d IN
  /\ up # <<>>
  /\ up' = Tail(up)
  /\ server' = [server EXCEPT ![hit.target].hp = IF left > 0 THEN left ELSE 0]
  /\ history' = [history EXCEPT !.wrong = @ \/ (hit.kill /\ left > 0 /\ hit.ver = server[hit.target].ver)]
  /\ UNCHANGED <<time, shots, ents, win, net, down, known, count>>

ServerTells(e) ==
  /\ count.events < MaxEvents
  /\ down' = Append(down, [target |-> e, hp |-> server[e].hp, cond |-> server[e].cond, ver |-> server[e].ver])
  /\ count' = [count EXCEPT !.events = @ + 1]
  /\ UNCHANGED <<time, shots, ents, win, net, up, server, known, history>>

\* It heals, or changes its condition.
ServerChanges(e, hp, cond) ==
  /\ count.events < MaxEvents
  /\ hp >= server[e].hp /\ (hp # server[e].hp \/ cond # server[e].cond)
  /\ server' = [server EXCEPT ![e] = [hp |-> hp, cond |-> cond, ver |-> @.ver + 1]]
  /\ count' = [count EXCEPT !.events = @ + 1]
  /\ UNCHANGED <<time, shots, ents, win, net, up, down, known, history>>

\* Others hit it too.
ServerHurts(e) ==
  /\ count.events < MaxEvents /\ server[e].hp > 0
  /\ server' = [server EXCEPT ![e].hp = @ - 1]
  /\ count' = [count EXCEPT !.events = @ + 1]
  /\ UNCHANGED <<time, shots, ents, win, net, up, down, known, history>>

-----------------------------------------------------------------------------
UpdateShot(s) ==
  \/ Expire(s) \/ MeetGround(s) \/ MeetNothing(s)
  \/ \E e \in Entity : MeetCover(s, e) \/ FindTarget(s, e)

Window ==
  \/ FrameBegin \/ doShoot \/ FrameEnd
  \/ \E s \in DOMAIN shots : UpdateShot(s)
  \/ MeetImmune \/ MeetInvulnerable \/ MeetOther
  \/ Reckon \/ Test \/ Strike \/ Give \/ ReportHit

Network ==
  \/ \E kind \in Kinds : handleShoot(kind)
  \/ \E e \in Entity : Drop(e) \/ handleDamage(e, TRUE, "none")
                          \/ \E effect \in Conditions : handleDamage(e, FALSE, effect)
  \/ DamageStrike \/ DamageGive \/ StatHp \/ StatAlive \/ StatCond

Server ==
  \/ ServerTakesHit
  \/ \E e \in Hurt : ServerTells(e) \/ ServerHurts(e)
  \/ \E e \in Hurt, hp \in 0..MaxHp, cond \in SUBSET Conditions : ServerChanges(e, hp, cond)

Next == Window \/ Network \/ Server

Spec == Init /\ [][Next]_vars

-----------------------------------------------------------------------------
(* Properties.                                                             *)

\* Every variable is in its range, and the window thread is in a shot's
\* update only for a shot there is.
TypeOK ==
  /\ time \in 0..MaxTime
  /\ \A s \in DOMAIN shots :
       /\ shots[s].kind \in Kinds /\ shots[s].born \in 0..time /\ shots[s].checked <= time
       /\ shots[s].hits \subseteq Entity /\ shots[s].flying \in BOOLEAN
  /\ ents \in [Entity -> [here : BOOLEAN, hp : 0..MaxHp, dead : BOOLEAN, cond : SUBSET Condition]]
  /\ win.pc \in {"idle", "frame", "found", "test", "strike", "give", "report"}
  /\ win.todo \subseteq DOMAIN shots /\ win.target \in Entity
  /\ win.pc \in {"found", "test", "strike", "give", "report"} => win.shot \in win.todo
  /\ net.pc \in {"idle", "strike", "give", "alive", "cond"} /\ net.target \in Entity
  /\ net.pc \in {"alive", "cond"} => down # <<>>
  /\ \A i \in DOMAIN up : up[i].target \in Hurt
  /\ \A i \in DOMAIN down : down[i].target \in Hurt
  /\ known \in [Entity -> Nat]
  /\ \A e \in Hurt : server[e].hp \in 0..MaxHp /\ known[e] <= server[e].ver

\* A shot reports no target twice, and one that does not hit many reports
\* once in all, whatever it meets in whatever frames; one that hits many ends
\* with at most one report of the ground or a cover.  (map.zig 1793-1925)
EachHitOnce ==
  \A s \in DOMAIN shots :
    LET said == shots[s].said IN
    /\ \A i, j \in DOMAIN said : said[i] = said[j] => i = j
    /\ ~shots[s].kind.multi => Len(said) <= 1
    /\ Cardinality({i \in DOMAIN said : said[i] \notin Hurt}) <= 1

\* Once the server has handled a hit that claims to have killed, its target
\* has no hp left, unless it was healed or changed its condition since it told
\* the one the client keeps: although the client subtracts nothing, hears
\* late, and reads hp and condition while they are written.  The client keeps
\* an older condition than it was told if it gave one of its own meanwhile.
\* (map.zig 524, 1866-1893)
KilledIsRight == ~history.wrong

\* An entity dies once until it is alive again, however many shots and
\* packets kill it, unless both threads have asked and neither has set dead.
\* (map.zig 436-440, 1058-1062)
DiesOnce == \A e \in Entity : history.died[e] <= 1 \/ history.overlap

\* An entity shown dead has no more hp than a hit takes, or the server said
\* it died, or a kill was struck after its hp had been replaced.
\* (map.zig 1873, network.zig 1134, 1260)
DeadIsLow ==
  net = Quiet => \A e \in Hurt :
    ents[e].dead => \/ ents[e].hp <= damageWithDefense(Damage, {})
                    \/ e \in history.told \/ history.stale

\* What is shown dead has died, and died once, but for the races above.
\* (map.zig 423-546, 1045-1172)
DeathsRight == TypeOK /\ DiesOnce /\ DeadIsLow
=============================================================================
