# A TLA+ verification of ZombPanic

ZombPanic is a Teeworlds game mode built on DDNet-Skeleton: humans are hunted
by zombies, whoever a zombie kills becomes one, and a round ends when no human
is left or when the time is up.  The specifications here are about the game
server (`src/src/game/server`, `src/src/engine/server`), which decides
everything; the clients only show it.

Paths without a prefix are below `src/src`.  `gc` is
`game/server/gamecontroller.cpp`, `ctx` is `game/server/gamecontext.cpp`.

## 1. The system

| part | state | operations | what is hard | what makes it correct |
|---|---|---|---|---|
| Round (`gc`) | `m_Warmup`, `m_LastWarmup`, `m_ZombiesSelected`, `m_LastZombie`(`2`), `m_GameOverTick`, `m_RoundStartTick`, `m_aTeamscore`, `m_RoundCount` | `Tick`, `StartRound`, `EndRound`, `DoWinCheck`, `RandomZombie`, `ResetZombies` | many flags that must agree, changed by the tick, by messages and by the console; the requested reset takes effect one tick later | play follows a selection; the winner matches the reason; rounds end and start again |
| Players (`player.cpp`, `gamemodes/DDRace.cpp`) | team, pause (sleep), character, spawning | connect, enter, drop, team message, die, respawn, `Pause` | a character lives, dies and is deleted in different phases of the tick; `Pause` works only on a player who has one | no cure, no escape of the last zombie, nobody asleep in play |
| Console (`ctx`, `ddracecommands.cpp`) | none of its own | `restart`, `pause_game`, `set_team`, `set_team_all`, `swap_teams`, `shuffle_teams`, `kill_pl`, `skip_map`, ... | writes the state of the other parts between two ticks without their guards | what an administrator may not break |
| Doors (`gc`, `panicdoor.cpp`, `character.cpp`) | per door a state and a timer; a cached state in the entity | hold points, `Tick`, `ResetDoors` | two doors with three timers per number, started by humans and zombies in any order | zombies are neither locked out for ever nor let in too early |
| Map rotation (`gc`, `engine/server/server.cpp`) | `sv_map`, current map, reload flag, queue, previous map | cycle, skip, queue, change, reload, load | the load happens later in the server loop and destroys the controller | names agree, the rotation moves on |
| World (`gameworld.cpp`) | entity lists, reset request, pause | `Tick`, `Reset` | deferred reset and removal | part of the round model |
| Turrets, laser walls, weapons (`entities/`) | owner, life time, flags in the owner's character | create, tick, reset | the owner may die or turn while the entity stands; it looks at its owner in every tick | ownership flags agree with the entities |
| Votes (`ctx`) | close time, command, ballots and their positions, count request, last result, enforcement | call, vote, tick, force, abort | majority, time-out, veto, administrator and departure of the target in one tick; the result may be of an earlier tick; slots are reused | the result is current, a kick hits whom it was called for, every vote ends |
| Snapshot ids (`server.cpp`, `CSnapIDPool`) | free list, time-out list | `NewID`, `FreeID`, `RemoveFirstTimeout` | reuse before the clients forgot an id, exhaustion | an id in use is not given out |
| Reliable connection (`engine/shared/network_conn.cpp`, `ringbuffer.cpp`) | sequence numbers, acknowledgements, resend buffer | queue, resend, feed, time-out | loss, duplication, reordering, numbers modulo 1024, full buffer | a FIFO channel while the connection is open, and no way to lock a side out |
| Database pool (`engine/server/databases/connection_pool.cpp`) | ring of queries, two semaphores, shutdown flag, connections and fail mode of the workers; the tables | `Execute`, `ExecuteWrite`, registration, workers, `OnShutdown` | three threads, fallback to a backup, lost answers, shutdown at any moment | every query is answered once and in order; ranks are kept; shutdown ends |
| Job pool (`engine/shared/jobs.cpp`) | queue, flag, semaphore | `Add`, workers, `Destroy` | shutdown with jobs in the queue | a job runs at most once |
| Bans, external console, registration | lists with expiry, attempts, request numbers | see `PROJECT.json` | expiry, retries | not modelled, see section 8 |
| DDRace teams, saves, scores, recording, configuration, data formats, client, editor, master server, external libraries | | | | not modelled, see section 8 |

The parts interact like this.  The server loop loads a map when the reload flag
is set, takes packets and console lines, and runs `CGameContext::OnTick` for
each tick that is due: the world (with a requested reset first), the game
controller, the players.  All of it is one thread, so the interesting
interleavings are those of messages, commands and phases of ticks.  Messages
come over a connection of `CNetConnection`s, one in each client and one in the
server's slot; when it ends, the slot is dropped, and that aborts a vote about
its player.  A vote that passes executes a console command between two ticks.
Threads appear only behind the database and job pools.

`PROJECT.json` lists every component and, under "hazards", the places where the
behaviour is hard to test, with the properties that watch them.

## 2. Modules

| module | what it is |
|---|---|
| `RoundCycle` | abstract specification of a round: lobby, warm-up, play, over |
| `PanicRound` | client slots, teams, sleep, characters, the phases of a tick, the console; implements `RoundCycle` |
| `PanicRoundProofs` | theorems about `PanicRound` |
| `Passage` | abstract specification of the ways of a map: shut, opening, open, and the zombies held back on them for a while |
| `PanicDoor`, `PanicDoorProofs` | the doors of a map; implements `Passage`; theorems about them |
| `MapRotation`, `MapRotationProofs` | choosing and loading maps and theorems about it |
| `JobQueue` | abstract specification of the database pool: queries answered in order, closed when none is left |
| `DbPool`, `DbPoolProofs` | the ring, the two workers, the tables of ranks; implements `JobQueue`; theorems about it |
| `VitalChannel` | abstract specification of a connection: per direction a FIFO channel without loss, until it is closed |
| `NetConnection`, `NetConnectionProofs` | two connections and the network between them; implements `VitalChannel`; theorems about it |
| `Vote`, `VoteProofs` | a vote and the players who come, go and vote, and theorems about it |
| `MCPanicRound`, `MCPanicDoor`, `MCMapRotation`, `MCDbPool`, `MCNetConnection`, `MCVote` | instances for the model checker |

Definitions whose comment begins with "A variant of" are changed forms of the
definition after them, the way a plausible bug would change it.  No
specification uses them; they show that each property can fail.

### PanicRound

`phase` splits a tick into the steps of `CGameContext::OnTick`:

    net -> world -> warmup [-> select -> wake] -> gameover -> wincheck -> players -> net

* `net`: between two ticks.  `OnClientConnected`, `OnClientEnter`,
  `OnClientDrop` and `SetTeamMessage` are the messages that touch the round,
  `Con...` the remote-console commands; `LoadMap` is the server loop.
  `client` is `"empty"`, `"ready"` (the player object exists and is counted) or
  `"ingame"` (its `Tick` runs).
* `world`: `BeginTick` performs a reset requested one tick ago; `Die` is a death
  with `OnCharacterDeath`.
* `warmup`: the branches of `IGameController::Tick` (`gc` 647-694): `SkipWarmup`,
  `CountDown`, `BeginSelection`, `TooFewPlayers`.  `select` is one step of
  `RandomZombie` per initial zombie, `wake` is `gc` 696-704.
* `gameover`, `wincheck`, `players`: `gc` 707-720, `DoWinCheck`, `CPlayer::Tick`.

`StartRound` is one operator with all that the code assigns (reset request,
clocks, pause, warm-up, teams, scores), used wherever the code calls it.  `asleep` is `PAUSE_PAUSED`; `chr` is the character (`"dead"` until
`CPlayer::Tick` deletes it).  `gameOver` counts the ticks since
`m_GameOverTick`, `elapsed` those since `m_RoundStartTick`, which stands still
while the world is paused.

Undefined behaviour is a choice: `m_LastZombie` and `m_LastZombie2` are not
initialised by the constructor, so `Init` takes any value; `m_apPlayers[-1]` is
memory before the array, so `WakeUp` goes on or ends in phase `crashed`.

Abstractions: when a player respawns is free (any player without a character
may come back in any tick the world runs), which covers all spawn delays and
blocked spawn points; which characters die is free; seconds are a few ticks.
`CycleMap` yields another map, the same one or none.  The model is of the default
settings `sv_spectable 0`, `sv_self_kill 0`, `sv_inactivekick_time 0`, of
`sv_time_limit > 0` and of no sudden death.

### PanicDoor

For each number the door, the zombie door and a timer for each, counted down
from what the code adds to `Server()->Tick()`; `DoorsTick` is the loop at the
end of `IGameController::Tick`, `HoldPoint` what `CCharacter::HandleTiles` does
for a human or a zombie, `StartRound` resets the doors at any time.  Numbers are
those inside the array.  For `Passage`, `Passable` is what the door and its timer
mean to everybody and `Holding` what the zombie door means to zombies; several ways
may move on in one step, as the loop in `Tick` goes over all doors.

### MapRotation

`svMap`, `currentMap`, `mapReload`, and the controller's `queued` and `previous`,
which `LoadMap` clears because the controller is built anew.  `place` is a
history variable: the last place of the rotation that was loaded.  `Rotation` is
the list of words of `sv_map_rotation`; place 0 is the code's -1.

### DbPool

Query i is the i-th one submitted; `aQueries` holds these numbers with 0 for a
null pointer, so that a query that is lost, repeated or overtaken is seen.
`backup.job` and `worker.job` are the two `JobNum`; the main thread's
`m_InsertIdx` is the number of queries modulo `Size`.

* Main thread: `Insert` (all functions that put a query into the ring),
  `OnShutdown`, `ShutdownDone`.  `Submit` is the game that calls `Insert`:
  `FewOutstanding` and `MayRegister` say when it does.
* Backup worker: `BackupTake` waits and looks, `BackupWrite` and `BackupSkip`
  process the query and hand it on.
* Worker: `WorkerTop` (leave fail mode), `WorkerTake`, then one action per kind of
  query; a write takes two steps, `WorkerWrite` and `WorkerSettle`, so the other
  threads, the shutdown and a kill of the server come between them.

What the write functions of `scoreworker.cpp` do in their four modes is a set of
outcomes: what is returned, and which rows have moved between the write
database, the backup table and the final table of the backup file.  Each
statement may fail; the write database may also commit and lose the answer.
`SaveScore` ignores errors of `ExecuteUpdate` and `SaveTeamScore` looks for another
id than it stored, and so do the outcomes.

Steps that are merged: storing a query with its signal (nobody looks at the slot
before), the last access to a query with the signal to the next thread, and the
two counters of `CSemaphore` (the approximate one is ahead only between two
instructions of `Signal`, which looks like a signal that was already sent).  The
look at `m_Shutdown` and the call it guards are one step, because a shutdown in
between changes nothing that the call reads.

`FewOutstanding` with `Backlog < Size` is an assumption on the game and translates no
line of the code: the pool has 512 slots, and `Insert`, like `Execute`, never looks
whether they are full.  It is a conjunct of `Submit`, apart from `Insert`, and all that
is checked and proved of the pool rests on it.  With a full ring a query would be
overwritten or stand where the shutdown expects null; nothing here is claimed of that case.

### NetConnection

Both ends of an open connection (`engine/shared/network_conn.cpp`) and, for each,
the set `net` of packets on their way to it.  A chunk is its number among the
vital chunks of its sender together with the sequence number the code gives it;
the first is history, the code sees only the second.

* `QueueChunk` is `CServer::SendMsg` down to `QueueChunkEx`: the next number, the
  copy for resending (unless `Allocate` fails: `overflow`), the packet being
  filled, and a flush of what does not fit.  `Flush`, `Resend`, `TimeOut` are the
  parts of `Update`, `Disconnect` sends a last packet and resets.
* `Receive` is `Recv` with `Feed`: `Refuse` for an acknowledgement that is not
  valid, else `Feed` with the resend, the close and `AckChunks`.  `FetchChunk` is the
  unpacker: one chunk at a time, old ones skipped, gaps asked for.
* `Transmit` is the network.  Whenever packets are sent, any part of those on
  their way may be gone; `Receive` may leave the packet where it is, and takes any
  of them.

`IsSeqInBackroom` and the test of an acknowledgement are the code's, with its
comparison modulo `MaxSequence`.  Whether they are right depends on two facts the
module states: an entry of the buffer takes 72 of 32768 bytes at least, so there
are at most 455 of them, less than half of 1024 (`NetAssumption`); and no packet
lives as long as about 1024 vital chunks take (`PacketsDieOut`, a guard of
`QueueChunk`, which nothing in the code enforces).

Merged: `Update` is split into steps that may come in any order, as its conditions
are times; a resend comes at any time after the chunk was flushed.  Left out: the
handshake and tokens, chunks without `NETSENDFLAG_VITAL` and packets without a
connection, and `SetTimedOut`, which moves a client to a new address.

### Vote

`player` is what a vote reads of `m_apPlayers`: address, in game, spectator, away,
age (before `m_FirstVoteTick`, after it, long enough for a veto), `m_Vote` and
`m_VotePos`.  `running` is `m_VoteCloseTime # 0`, and `timeLeft` is what is left
until then.  `command` and `target` are what `m_aVoteCommand` says; the command
determines `m_VoteType`.

* Between two ticks: `OnClientConnected`, `OnClientEnter`, `OnClientDrop` (with
  `AbortVoteKickOnDisconnect`), `SetTeamMessage`, `CallVote`, `VoteMessage`, `ForceVote`
  (the commands `vote yes` and `vote no`), `OnSetAuthed`, `LoadMap`, and three ways
  in which the electorate changes although nobody sets `m_VoteUpdate`:
  `ConSetTeam`, `AfkTimer`, `GrowOld`.
* `Tick` is the part of `OnTick` about votes: `AbortVote`, or `Decide` with
  the count that is due, the rule for the end of the time, and `PassVote`,
  `PassByAdmin`, `FailVote` or `GoOn`.  `Execute` is the command: whom it drops is dropped
  while the vote still runs, with all that `OnClientDrop` does.

`Counted`, `Behind` and `CurVote` say which clients count once per address, and
with which ballot; the code does the same with an array of flags in one pass.
The comparison with `100.0f / sv_vote_yes_percentage` is done in integers, which is
the same for the default 50 and differs by rounding at most for others.

`named`, `forced` and `drifted` are history: whether the target is still the one
the vote was called for, whether an administrator decided, and whether the
electorate changed without a request to count.

## 3. Properties and runs

| run | question | instance |
|---|---|---|
| `PanicRoundSafety` | Does the round keep its promises, and does it implement `RoundCycle`? | 3 slots, warm-up of 3 ticks, limits 5 and 2, 2 rounds per map, commands `restart`, `set_team`, `set_team_all`, `kill_pl`, `skip_map` |
| `PanicRoundConsole` | What survives commands that work outside the rules? Is every pick of a selection new? | 4 slots, 2 initial zombies, commands `restart n`, `pause_game`, `swap_teams`, `shuffle_teams` |
| `PanicRoundLive` | Do rounds end and begin again, do warm-ups run out? | 2 slots, fairness of the tick, no commands |
| `PanicDoor` | Do the two doors of a number agree (`Passage`), and do they open? | 2 numbers, times 6, 2 and 4 |
| `MapRotation` | Do the names agree, and does the rotation go on? | 3 maps in rotation, one outside, one that cannot be loaded, all commands, in order and at random |
| `DbPool` | Is every query answered, in order; is no rank lost; does the shutdown end? | ring of 3, at most 2 outstanding, 4 queries of 7 kinds, all outcomes of all calls |
| `PanicRoundAwake` | Are all initial zombies woken? (violated) | 2 slots |
| `PanicRoundCrash` | Is the crash prevented that the comment speaks of? (violated) | 2 slots |
| `NetConnection` | Is a connection a FIFO channel over a network that loses, repeats and reorders? Does it recover? | numbers modulo 6, buffer of 2, packets of 1, one side sends two chunks whose numbers wrap, 1 packet overtaken |
| `Vote` | Is the result current, does only a majority pass a vote early, does a kick hit whom it was called for, does every vote end? | 2 slots, 2 addresses, players of all ages, all commands, both values of `sv_vote_majority`, 2 ballots, 3 changes |
| `VoteVeto` | Does a veto hold until the vote is over? (violated) | options, grown and long-standing players |
| `DbPoolSettled` | Is the copy removed once a write has succeeded? (violated) | 3 queries, team ranks only |

Safety of the round: `SelectionHasCandidate` (the exclusion of the last two
zombies never empties the list), `NoZombieBeforeSelection`,
`PlayFollowsSelection`, `GameOverStopsWorld`.  Actions: `WinnerMatchesTeams` (the
winner agrees with the reason, although `DoWinCheck` and `EndRound` compute the
time limit differently), `NoNewHumansInPlay`, `LastZombieStays`,
`EveryPickIsNew`.  Refinement: `ImplementsRoundCycle`.  Liveness: `RoundEnds`,
`GameOverRestarts`, `WarmupEnds`.

Database pool: `SlotsNotShared` (the backup worker's plain pointer never outlives
the query), `StopsLast`, `RankKept` (at every moment, hence also when the server
is killed then), `AnswerIsTrue`, `ImplementsJobQueue`, and under fairness
`QueriesAnswered` and `ShutdownEnds`.  `RankKept` and `AnswerIsTrue` except the ranks in
`silent`: `SaveScore` removes the backup row even if copying it failed.

Connection: `NothingForgotten` (what the other side has not been handed is still
in the buffer: no acknowledgement frees more), `NotLockedOut` (the
acknowledgement the other side sends now is never refused, however the numbers
wrapped), `GapsNoticed` (no chunk that was not handed out is skipped as an old one),
`ImplementsVitalChannel` (delivered once and in order), and under
fairness `AllDelivered`.

Votes: `LastCountStands` (`m_VoteWillPass`, which decides at the end of the time,
is what the ballots of those present say, unless somebody moved, aged or went
away unnoticed), `PassesByMajority` (a vote passes by the votes as they are in that
tick: not by those of an earlier count, and early only with enough of all who count
and without a veto), `KickHitsNamed` (a slot may have a new owner when the vote
passes), `VoteEnds`.

`SelectionHasCandidate` and `WinnerMatchesTeams` are checked by `PanicRoundConsole`,
whose commands disturb more.

Doors: `ImplementsPassage` (each way goes through its stages in order; a zombie door
never shuts on a way nobody has begun to open, and with times like the default ones
zombies are let in again only when the way is open), and under fairness `DoorOpens`
and `ZombieDoorReopens`, neither of which survives a countdown that starts anew or
is lost.  `ZombieDoorNeedsDoor` and `ZombiesReleasedLast` follow from
`ImplementsPassage` and are theorems.

The four commands of `PanicRoundConsole` break what the other runs check, each
in its own way, which is why the commands are divided between the two runs:

| command | what does not hold any more |
|---|---|
| `restart n` | `GameOverStopsWorld`, `ImplementsRoundCycle`; with n = 0 `PlayFollowsSelection` and `NoZombieBeforeSelection` too |
| `pause_game` | `GameOverStopsWorld` |
| `swap_teams`, `shuffle_teams` | `NoZombieBeforeSelection`, `NoNewHumansInPlay`, `LastZombieStays` |

`restart n` ends or prolongs a warm-up without its flags, `pause_game` toggles the
flag that the end of a round uses, the other two make zombies and humans.  Without a
warm-up (`sv_warmup 0`) no zombie is ever chosen, and of the properties in this table
only `GameOverStopsWorld` is left.  Each theorem assumes only what its property needs.

What the violated runs show:

* `PanicRoundAwake`: a chosen zombie that has no living character in the one
  tick of the wake-up stays asleep through the round.  The same line leaves all
  initial zombies asleep but the one chosen last.
* `PanicRoundCrash`: a player leaves directly after the selection, the
  remaining one resets `m_LastZombie` to -1 (while `m_ZombiesSelected` stays
  true, since the warm-up has not counted down yet), another joins, and the
  warm-up runs out: `m_apPlayers[-1]`.
* `VoteVeto`: the caller votes yes and a long-standing player has not voted.  The
  count finds no majority of all who count, and the veto open, so the vote does not
  pass early.  When the time is over,
  `Veto` is false, because it is a local variable that only a count sets, and
  the vote passes.
* `DbPoolSettled`: `SaveTeamScore` deletes the rows whose `GameId` is the id of the
  team rank, but they were stored with the id of the game there.  Every team
  rank stays in the backup table, and none is ever moved to the final one.

Seen in the code and not spent a run on:

* `restart 0`, whose help says "0 = abort" (`ctx` 3235), ends a warm-up at once and
  starts play without zombies, against the comment at `gc` 568;
* the comment at `gc` 1180 wants to "restore the rotation using the name of the
  previous map", which is forgotten with the controller (`gc` 47), so after a map
  from outside the rotation begins at its first map;
* a vote to spectate has a command that begins with `uninvite`, so
  `AbortVoteKickOnDisconnect`, which looks for `set_team`, never aborts it, and a
  newcomer in the slot is moved; a ban, the default for kick votes, names an address
  and is not aborted either;
* an administrator's decision is overwritten by a count that is due in the same
  tick, or by the end of the time;
* with a moderator in the game a passed kick vote waits in `m_VoteEnforce` while
  ballots change, and is executed when the moderator leaves;
* a no of a long-standing player stops a vote only in a tick with a count, like
  the veto;
* a kick by vote sets `m_VoteEnforce` to the abort, so 0.7 clients are told that
  the vote was aborted;
* `SetTimedOut` (`network_conn.cpp` 503) takes over the numbers of the old
  connection but not `m_PeerAck` and the packet being filled.

Also: `set_team` cannot wake a sleeping
zombie, since it kills the character first; `add_sqlserver` registers a read
database for `w` and a write database for `r` (`engine/server/server.cpp` 3396);
`sqlite3_busy_timeout(-1)` (`sqlite.cpp` 141) turns waiting off where the comment
wants to wait for ever.  The rotation also has quirks that contradict no comment: a
map listed twice repeats the end of the list, a map that cannot be loaded is
tried again after every round, and a map queued while another is about to be
loaded is forgotten.

### Bounds

Three slots are enough for a zombie, a human and one who comes, goes or
watches, and for both exclusions of `RandomZombie`; the fourth slot is needed
for two initial zombies.  Times only need to be distinct where the code compares
them: the warm-up has a tick for the selection, one between and the last one;
the limit of `EndRound` is smaller than that of `DoWinCheck`, as in the code
(seconds against minutes).  Counters are capped where their value does not
matter any more: `elapsed` at `WinCheckLimit`, `roundCount` at `RoundsPerMap`;
`gameOver` ends with the pause.  Symmetry of the slots is used in the safety
runs; the code orders slots only through a random choice.  The door times keep
the order of the defaults (10, 3 and 10 seconds).  Deadlock checking is off in
the runs of `PanicRound` because a crashed server stops, and in those of `DbPool`
because the pool does, and in `NetConnection`, where both sides may be gone; it
is on elsewhere.

The numbers of `NetConnection` keep the relation of the real ones: twice the
buffer is less than the modulus.  The sender starts at number 4 of 6, so that
both its chunks wrap round; with `InFlight` 1 a packet is overtaken by a later
one, arrives twice, and old acknowledgements come after new ones.  Larger
instances (three chunks, two in flight, both sides sending) exceed the time of a
run; the theorems hold for all of them.

`Vote` has two slots, enough for a caller and a target and for a slot that is
given away, with addresses that may be equal.  `MaxVotes` bounds the ballots of a
behaviour (the caller's is the first), `MaxChanges` all other acts of players, calls
included, so that a target can leave and another player come and enter.  The
behaviours begin with two settled players, one of whom may be of long standing, and
with a stale `m_VoteWillPass`; slots become empty and are taken again as they go on.  `sv_vote_majority` does not change within a behaviour.  The
theorems hold for every number of slots, votes and changes.

Three slots with two outstanding queries keep the ratio of the real pool (the
backlog is smaller than the ring by one), and a fourth query uses a slot again.
Four queries are enough to register a database and a backup, and to follow a
failed write by one in fail mode.  The theorems hold for every size.

### Fairness

`PanicRound` and `PanicDoor` assume weak fairness of the tick only: the server
loop (`CServer::Run`) never stops ticking.  Nothing is assumed of clients,
deaths or spawns, so rounds end even if nobody ever spawns.  `WarmupEnds` has its
own premise (at least two players from some time on), because the code restarts
the warm-up whenever there are fewer.  `MapRotation` assumes that rounds end and
that the loop loads the map; `EveryMapPlayed` is about the time after the last
command, with the rotation in order, since fairness says nothing of random
choices.

`DbPool` assumes weak fairness of the two workers and of the end of the
shutdown's loop: threads are scheduled and calls of a database return.  Nothing
forces a query or a shutdown, and no call needs to succeed.

`NetConnection` assumes that the loops of both sides call `Update` and fetch what
arrived, and of the network that what is sent again and again arrives: a packet
with the latest acknowledgement at the sender, and one that also has the next
chunk at the receiver.  The last two are stated as implications between "infinitely
often" formulas (`LiveSpec`), as nothing schedules a network.  No fairness makes
anybody resend on request: the timer is enough.

`Vote` assumes that time passes and that the server ticks when the time is over.
Nobody needs to vote or to leave.

## 4. Proofs

All statements hold for every value of the constants that satisfies the named
assumption of the module (`ConstantsAssumption`, `TimesAssumption`,
`MapsAssumption`, `PoolAssumption`, `NetAssumption`, `VoteAssumption`).

**PanicRoundProofs.**  The invariants are built in layers.

* `TypeInv`: the types, and picks are left while zombies are selected.  Gives
  `TypeCorrect`.
* `SelectionInv`: while zombies are selected there are at least two players,
  because no message arrives inside a tick.  With two players only the last
  zombie is excluded, with three or more two are, so somebody is left
  (`SelectionSafe`).  No assumption on settings or commands.
* `PickInv`: with few players (less than four per initial zombie) a selection is of
  three zombies at the most, and those made so far are exactly `m_LastZombie` and
  `m_LastZombie2`, the two that `RandomZombie` leaves out; a third pick has more than
  two players to choose from.  `EveryPickIsNew` is not inductive alone, as it says
  nothing of who was picked before.  Gives `PicksAreNew`, also without any assumption.
* `WarmupInv`: a round whose zombies are not chosen is still warming up, and the
  selection is inside the warm-up.  `PlayFollowsSelection` is not inductive alone: the
  selection, the restart after a game-over and `TooFewPlayers` all rewrite its two
  variables.  `NoZombieBeforeSelection` is inductive with it.
* `OverIsIdle`: there is no warm-up while a finished round is shown.

What rests on these assumes the settings and commands it needs, each named:

| theorem | assumes |
|---|---|
| `SelectionBeforePlay` | `WarmupOn`, `NoRestartNow` |
| `NoEarlyZombie` | `WarmupOn`, `NoRestartNow`, `TeamsKept` |
| `NoCure`, `LastZombieKept` | `WarmupOn`, `TeamsKept` |
| `GameOverPausesWorld` | `NoPause`, `NoRestartIn` |
| `RoundImplementsCycle` | `WarmupOn`, `NoRestartIn` |

`WarmupOn` is `sv_warmup` > 0; `NoRestartNow` excludes `restart 0` and `NoRestartIn`
every `restart n`; `NoPause` and `TeamsKept` exclude `pause_game` and the two commands
about teams.  Section 3 says what happens without them.

* `NoEarlyWinners`: nobody has won before the game-over tick is set.  Gives
  `WinnersAgree` for all settings and commands.

`RoundImplementsCycle` maps `gameOver`, `selected` and `warmup` to a stage and
shows of each action that it is a step of the cycle or a stutter.

**PanicDoorProofs.**  `DoorInv` compares the two countdowns of a number: the
door's is started no later than the zombie door's, so it is ahead by at least
the difference of their times (`Ahead`).  Gives `DoorsTyped`, `ZombieDoorHasDoor` and
`HumansGoFirst` (for all times with the order of the defaults).
`DoorsImplementPassage` shows of each action what it does to one way (`StageStep`:
lemmas `HoldPointStage` and `DoorsTickStage`) and puts the ways together.

**MapRotationProofs.**  `MapInv` is `TypeOK` and `SvMapIsPlayed`, which is
inductive; the lemmas say that the place of a map is a place of the rotation
(`MaxExists`, by well-founded induction on the distance from the end) and that
whatever is drawn is one.  Gives `MapsTyped`, `NameIsPlayed` and `MovesOn`.  With
`PlaceIsPlayed` (the last map of the rotation that was loaded is the one played, as long
as one of the rotation is) it gives `InOrder`: a rotation in order goes to the map
listed next, which is one step of `EveryMapPlayed`.

**DbPoolProofs.**  `PoolInv` is the inductive invariant, in parts: `Counted` (each
semaphore counts the queries, and the null query, between two threads), `Ordered`
(worker, backup worker and main thread follow each other within the backlog),
`Ring` (the slots hold exactly the queries not yet taken, each in its own), `Held`,
`Stopping` and `Answered`.  The arithmetic it needs is one lemma: numbers less than
`Size` apart have different slots.  None of the properties is inductive alone; that
the backup worker exits only at the end needs `Ring`, which needs `Counted` and
`Ordered`.  Gives `PoolTyped`, `SlotsExclusive`, `WorkersStopLast`, and, by one step
of `JobQueue` or a stutter per action, `PoolImplementsQueue`.  `RankInv` adds that a
rank with a copy stays in the backup table until the worker settles it; together
with `PoolInv` it gives `RanksNotLost` and `AnswersTrue`.  The safety half of
`QueriesAnswered` and `ShutdownEnds` follows from `PoolInv` too: `PoolNeverStuck` (while a
query has no answer or `OnShutdown` waits, a thread can take a step) and
`PoolRunsDown` (each of these steps lowers `StepsLeft`, which only a new query
raises).  What is left to TLC is that fairness makes them happen.

**NetConnectionProofs.**  The code compares numbers modulo `MaxSequence`; the
lemmas about `Modulus` say what the comparisons mean for the numbers without it, as
long as they are close (`Distance`, `Backroom` and `AckWindow` among them).  `ConnInv` then speaks of
numbers only: the buffer holds consecutive chunks up to the last one queued,
`m_PeerAck` is the number of the chunk before the first of them, which was
delivered, every chunk around is one that was queued and less than a round old,
and no acknowledgement on its way is newer than what was delivered.  None of
the properties is inductive without the others: that an old acknowledgement frees
nothing needs the window, the window needs the bound on the buffer, and that
bound needs that only what was delivered is freed.  Gives `ConnectionTyped`,
`ChunksKept`, `LatestAccepted`, `GapsSeen` and, step by step, `ConnectionImplements`.  That
the backroom of FetchChunk holds old chunks only is the same fact about half of the
numbers that AckChunks needs; the converse is false, since a chunk that is very
late lies outside of it and is asked for again.

**VoteProofs.**  `CountIsCurrent` needs more than that every change sets
`m_VoteUpdate`, because connecting does not: a client that has not entered does not
count, but it may share an address with one who does, and then its ballot could be the
address's.  `Positions` excludes this: ballots have different positions, none is
after `m_VotePos`, and who has not voted is at 0.  So the last ballot of an address
(`LastVote`, by well-founded induction) stays the last, and the count does not change
(`NewcomerDoesNotCount`).  `KicksNamed` needs `NamedOrAborted`: once the target has
left, the vote is marked as aborted unless an administrator overwrites the mark.  `VoteTyped`
is the type invariant both rest on.  `MajorityDecides` needs `LastCountStands` at the end
of the time and, before it, that `Decision` is taken from the count of the same tick; its
arithmetic is `CountsAddUp` (pros, cons and the silent are all who count) and
`EnoughIsMore`.  `LastBallotDecides` is about a ballot that arrives: the address it comes
from counts with it from then on (`BallotReplaces`, which needs `Positions` before and
after the step), nobody else's vote changes, and because only one player stands for an
address (`AddressCountsOnce`) the sums of yes and no move by one at most, in the direction of
the ballot, however many players share the address.  No run checks it; `TimeEnds` is the
safety half of `VoteEnds`.

## 5. Only model-checked

All liveness properties (TLAPS 1.4.5 does not prove fairness arguments with
ENABLED), and the violated properties.  Of the liveness properties the steps that do
not need fairness are theorems where that says something: `PoolNeverStuck`,
`PoolRunsDown`, `TimeEnds` and `InOrder`.

## 6. How to run

    tlc -config PanicRoundSafety.cfg MCPanicRound.tla
    tlapm PanicRoundProofs.tla

## 7. Extending it

The order in which the parts were modelled is that of their weight in the game:
the round with its players and commands, the doors, the rotation, then what the
game stands on: database pool, connection, votes.  What would add most now:
the handshake in front of `NetConnection`, the options and waiting times of votes,
`CSnapIDPool` and the job pool.

## 8. Not modelled

* Physics, weapons and damage numbers: real-valued geometry, out of TLC's reach.
  Deaths are a free choice instead.
* `sv_spectable 1` (players may use /spec and /pause), `sv_self_kill 1` and the
  activity check: off by default; each adds ways to be asleep or dead.
* DDRace teams and races: inherited and hardly used here.  Of scores and ranks
  only what the pool does with the rows: not the points, not collisions with a
  primary key, not a team of which some members' rows were stored and others
  not, not `SaveTeam` and `LoadTeam`, whose commands are commented out.
* The handshake of a connection, its tokens, `SetTimedOut`: the properties are about
  an open connection.  Of votes: the list of options, waiting times and rate limits, vote
  mutes, the DNS blacklist, `sv_vote_max_total`, DDRace teams, and the living
  character a target must have.
* The entity of a door: it reads the controller's state in every tick of the
  world and keeps no state of its own beyond that tick.
* Turrets and the flag in their owner's character: their life depends on geometry
  and damage.
* Snapshot ids, job pool, bans, external console, registration: small
  sequential structures, or services no round, vote or rank waits for.
* Recording, snapshots, compression, packing, configuration parsing: data
  formats and output, covered by the repository's unit tests.
* Client, editor, rendering, master server, external libraries, platform code.
