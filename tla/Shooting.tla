------------------------------ MODULE Shooting ------------------------------
(***************************************************************************)
(* The local player's shots and abilities (src/src/map.zig) and what makes *)
(* their damage the same for client and server: both draw it from a        *)
(* generator with the seed of the map, one draw for every shot and every   *)
(* burn of the ground, in the order of the packets that announce them.     *)
(*                                                                         *)
(* The window thread shoots, one projectile after the other.  Leaving by a *)
(* portal or by escape empties the queue, so that some draws are never     *)
(* announced, and clears the map.  The network thread sends the queue, and *)
(* starts over with a new seed when it handles MapInfo.  Other entities    *)
(* are left out; a connection that breaks ends everything here.            *)
(***************************************************************************)
EXTENDS Random, Sequences

CONSTANTS
  Seeds,       \* the seeds the server deals
  BulletIds,   \* how many ids a player's bullets have (128 in the code)
  Volley,      \* num_projectiles of the weapon and of the ability
  Delay,       \* frames between two attacks, two abilities, two burns
  Mana,        \* mp of the player, as the server reports it
  Cost,        \* mp_cost of the ability
  None,        \* no seed loaded
  Conditions,  \* those the server gives the player, and "none"
  MaxLeaves,   \* bound on how often the player leaves a map
  MaxAttacks   \* bound on the attacks, abilities and burns

ASSUME ShootingAssumption ==
  /\ Conditions \subseteq {"none", "stunned", "stasis", "paused"}
  /\ Seeds \subseteq Word /\ None \notin Word
  /\ BulletIds \in Nat \ {0} /\ Volley \in Nat /\ Delay \in Nat
  /\ Mana \in Int /\ Cost \in Int /\ MaxLeaves \in Nat /\ MaxAttacks \in Nat

VARIABLES
  seed,     \* map.random.seed
  player,   \* known, local_player_id is set; here, it is in the entity table;
            \* bullet, next_bullet_id; condition; wait, frames until it may
            \* attack, use the ability and burn again
  firing,   \* what is left of a volley: shots, and the seed loaded
  queue,    \* packets pushed and not yet sent
  wire,     \* packets sent and not yet handled by the server
  inbox,    \* packets of the server not yet handled by the client
  server,   \* the server's seed
  hasty,    \* history: the player left a map before it was in it
  attacks, leaves  \* counters for the bounds

vars == <<seed, player, firing, queue, wire, inbox, server, hasty, attacks, leaves>>
net  == <<wire, inbox, server>>

Waits == {"attack", "ability", "burn"}
Still == [left |-> 0, at |-> "id", loaded |-> None, kind |-> "player_shoot"]
Absent == [known |-> FALSE, here |-> FALSE, bullet |-> 0, condition |-> "none",
           wait |-> [w \in Waits |-> 0]]
Present == player.known /\ player.here

Init ==
  /\ seed \in Seeds /\ server = seed
  /\ player = [Absent EXCEPT !.known = TRUE, !.here = TRUE]
  /\ firing = Still
  /\ queue = <<>> /\ wire = <<>> /\ inbox = <<>>
  /\ hasty = FALSE /\ attacks = 0 /\ leaves = 0

Queue(kind) == queue' = Append(queue, kind)

\* The server's generator after packets were handled: it draws as they say.
Draws(kind) == kind \in {"player_shoot", "ground_damage"}
Handled(s, kind) == IF Draws(kind) THEN gen(s) ELSE s
Drawn(s, packets) ==
  LET after[i \in 0..Len(packets)] ==
        IF i = 0 THEN s ELSE Handled(after[i - 1], packets[i])
  IN after[Len(packets)]

-----------------------------------------------------------------------------
(* The window thread.                                                      *)

\* The player does something it has waited long enough for.
Starts(w) ==
  /\ firing = Still /\ Present
  /\ player.wait[w] = 0
  /\ player' = [player EXCEPT !.wait[w] = Delay]
  /\ attacks < MaxAttacks /\ attacks' = attacks + 1 /\ UNCHANGED leaves

\* A frame passes.
Frame ==
  /\ firing = Still /\ \E w \in Waits : player.wait[w] > 0
  /\ player' = [player EXCEPT !.wait = [w \in Waits |-> IF @[w] = 0 THEN 0 ELSE @[w] - 1]]
  /\ UNCHANGED <<seed, firing, queue, net, hasty, attacks, leaves>>

weaponShoot ==
  /\ player.condition \notin {"stunned", "stasis"}
  /\ Starts("attack")
  /\ firing' = [Still EXCEPT !.left = Volley]
  /\ UNCHANGED <<seed, queue, net, hasty>>

\* An ability may shoot.  What it costs is left to the server to subtract.
useAbility(shoots) ==
  /\ player.condition # "paused" /\ Cost <= Mana
  /\ Starts("ability")
  /\ Queue("use_item")
  /\ firing' = [Still EXCEPT !.left = IF shoots THEN Volley ELSE 0]
  /\ UNCHANGED <<seed, net, hasty>>

\* doShoot, for every projectile: take an id, draw the damage, announce it.
ShotId ==
  /\ firing.left > 0 /\ firing.at = "id"
  /\ player' = [player EXCEPT !.bullet = (@ + 1) % BulletIds]
  /\ firing' = [firing EXCEPT !.at = "draw", !.loaded = seed]
  /\ UNCHANGED <<seed, queue, net, hasty, attacks, leaves>>

\* The ground burns the player: one draw without a projectile.
GroundDamage ==
  /\ player.condition # "stasis"
  /\ Starts("burn")
  /\ firing' = [left |-> 1, at |-> "draw", loaded |-> seed, kind |-> "ground_damage"]
  /\ UNCHANGED <<seed, queue, net, hasty>>

DamageDrawn ==
  /\ firing.at = "draw"
  /\ seed' = gen(firing.loaded)
  /\ firing' = [firing EXCEPT !.at = "announce"]
  /\ UNCHANGED <<player, queue, net, hasty, attacks, leaves>>

Announced ==
  /\ firing.at = "announce"
  /\ Queue(firing.kind)
  /\ firing' = IF firing.left = 1 THEN Still
               ELSE [firing EXCEPT !.left = @ - 1, !.at = "id", !.loaded = None]
  /\ UNCHANGED <<seed, player, net, hasty, attacks, leaves>>

\* Mutant: leaving does not clear the map.
LeaveUncleared ==
  /\ firing = Still
  /\ queue' = <<"leave">>
  /\ hasty' = (hasty \/ ~Present)
  /\ leaves < MaxLeaves /\ leaves' = leaves + 1
  /\ UNCHANGED <<seed, player, firing, net, attacks>>

\* Mutant: what is queued stays queued, and the map is not cleared either.
LeaveAppends ==
  /\ firing = Still
  /\ queue' = Append(queue, "leave")
  /\ hasty' = (hasty \/ ~Present)
  /\ leaves < MaxLeaves /\ leaves' = leaves + 1
  /\ UNCHANGED <<seed, player, firing, net, attacks>>

\* By a portal or by the escape key: nothing asks whether the player has
\* arrived yet.
Leave ==
  /\ firing = Still
  /\ queue' = <<"leave">>
  /\ player' = Absent
  /\ hasty' = (hasty \/ ~Present)
  /\ leaves < MaxLeaves /\ leaves' = leaves + 1
  /\ UNCHANGED <<seed, firing, net, attacks>>

-----------------------------------------------------------------------------
(* The network thread.                                                     *)

SendQueued ==
  /\ queue # <<>>
  /\ wire' = Append(wire, Head(queue))
  /\ queue' = Tail(queue)
  /\ UNCHANGED <<seed, player, firing, inbox, server, hasty, attacks, leaves>>

Received(kind) ==
  /\ inbox # <<>> /\ Head(inbox).kind = kind
  /\ inbox' = Tail(inbox)
  /\ UNCHANGED <<firing, queue, wire, server, hasty, attacks, leaves>>

handleMapInfo ==
  /\ Received("map_info")
  /\ seed' = Head(inbox).seed
  /\ player' = Absent

handleCreateSuccess ==
  /\ Received("create_success")
  /\ player' = [player EXCEPT !.known = TRUE]
  /\ UNCHANGED seed

\* The update that brings the player's own entity.
handleUpdate ==
  /\ Received("update")
  /\ player' = [player EXCEPT !.here = TRUE]
  /\ UNCHANGED seed

\* A tick that changes the player's condition.
handleNewTick(c) ==
  /\ player.here /\ player.condition # c
  /\ player' = [player EXCEPT !.condition = c]
  /\ UNCHANGED <<seed, firing, queue, net, hasty, attacks, leaves>>

-----------------------------------------------------------------------------
(* The server: draws with the player, and lets it into another map or not. *)

ServerDraws ==
  /\ wire # <<>> /\ Head(wire) # "leave"
  /\ server' = Handled(server, Head(wire))
  /\ wire' = Tail(wire)
  /\ UNCHANGED <<seed, player, firing, queue, inbox, hasty, attacks, leaves>>

ServerMoves(s) ==
  /\ wire # <<>> /\ Head(wire) = "leave"
  /\ server' = s
  /\ inbox' = inbox \o <<[kind |-> "map_info", seed |-> s],
                         [kind |-> "create_success"], [kind |-> "update"]>>
  /\ wire' = Tail(wire)
  /\ UNCHANGED <<seed, player, firing, queue, hasty, attacks, leaves>>

ServerRefuses ==
  /\ wire # <<>> /\ Head(wire) = "leave"
  /\ wire' = Tail(wire)
  /\ UNCHANGED <<seed, player, firing, queue, inbox, server, hasty, attacks, leaves>>

-----------------------------------------------------------------------------
Window ==
  \/ Frame \/ weaponShoot \/ GroundDamage \/ ShotId \/ DamageDrawn \/ Announced
  \/ \E shoots \in BOOLEAN : useAbility(shoots)
  \/ Leave

Network ==
  \/ SendQueued \/ handleMapInfo \/ handleCreateSuccess \/ handleUpdate
  \/ \E c \in Conditions : handleNewTick(c)

Server == ServerDraws \/ ServerRefuses \/ \E s \in Seeds : ServerMoves(s)

Next == Window \/ Network \/ Server

Spec == Init /\ [][Next]_vars

-----------------------------------------------------------------------------
\* Bullet ids wrap below BulletIds, seeds are words, waits never underflow.
TypeOK ==
  /\ seed \in Word /\ server \in Word
  /\ player \in [known : BOOLEAN, here : BOOLEAN, bullet : 0 .. BulletIds - 1,
                 condition : Conditions \cup {"none"}, wait : [Waits -> 0 .. Delay]]
  /\ firing \in [left : 0 .. Volley + 1, at : {"id", "draw", "announce"},
                 loaded : Word \cup {None}, kind : {"player_shoot", "ground_damage"}]
  /\ queue \in Seq({"leave", "use_item", "player_shoot", "ground_damage"})
  /\ wire \in Seq({"leave", "use_item", "player_shoot", "ground_damage"})
  /\ hasty \in BOOLEAN /\ attacks \in 0 .. MaxAttacks /\ leaves \in 0 .. MaxLeaves

\* When the server will have handled all that was announced, its generator
\* is where the client's is now, so that the next shot does what the client
\* shows: although draws are dropped with the queue, and the seed is set by
\* the other thread.  It holds if the player leaves a map only once it is in
\* it, which the code does not ask.  The types hold in every case.
Underway == IF firing.at = "announce" THEN <<firing.kind>> ELSE <<>>
InStep ==
  /\ TypeOK
  /\ (~hasty /\ Present) => seed = Drawn(server, wire \o queue \o Underway)

\* The seed is never set in the middle of a draw, in the same case: no draw
\* is computed from a seed of another map.
DrawsFromMap == (~hasty /\ firing.at = "draw") => firing.loaded = seed

=============================================================================
