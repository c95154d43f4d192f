# Verification of the BnBServer game server

TLA+ models of `src/TeamOFYServer`, the C++ server of the game Slap Squad,
the TLC runs that check them, and proofs checked by TLAPS.
Paths below are relative to `src/TeamOFYServer` unless they begin with `src/`.

## 1. The system

One process. `Server::AcceptClients` accepts TCP connections and starts one
detached receive thread per connection. The thread runs
`ClientHandler::HandleClient`: it cuts the byte stream into lines and hands each
line to `ProcessMessages`, a chain of some fifty handlers. Handlers of different
connections run concurrently over shared state guarded by these locks:

| lock | guards |
| --- | --- |
| `UserManager::usersMutex_` (recursive) | accounts, profiles, statistics, inventories and the CSV files behind them |
| `RoomManager::roomsMutex` | rooms, dead, ready and resolved sets, the match counter |
| `Server::clientsMutex` | the list of connections, the login sessions, `ClientInfo::id` |
| the registry mutex of `SocketOutput.cpp` | the map from socket handle to output queue |
| `SocketOutput::mutex_` | one connection's output queue |

A sixth mutex guards the table of player positions; it is taken alone.

### Components

| component | state | operations | hard part | what makes it correct |
| --- | --- | --- | --- | --- |
| Rooms and matches (`RoomManager`, handlers of `ClientHandler`) | `rooms`, `deadUsersByRoom`, `readyUsersByRoom`, `resolvedRooms_`, `nextMatchId_` | create, enter, exit, change team, start, death, reward, retry, ready | a deciding death releases the room lock before it pays; rooms end and reappear under the same name meanwhile | a match is claimed and paid once, a claim is never lost, nothing leaks into the next match |
| Login sessions (`ClientHandler`, `UserManager`) | `clientsMap`, `ClientInfo::id` | LOGIN, LOGOUT, disconnect | logout takes three locks in turn | one session per account, no member without a session |
| User store (`UserManager`, `UserManager::Transaction`) | vectors of accounts, profiles, statistics, inventories | register, purchase, equip, reward | memory is changed before the files are | memory and files agree outside a transaction; a failed one leaves no trace |
| CSV journal (`CsvStore`) | CSV files, the journal `users.redo`, the lease | `Commit`, `Recover`, `Replace` | process death between two replacements | a transaction is on disk wholly or not at all |
| Output queue (`SocketOutput`, `OutputDispatcher`) | queue, byte and frame counters, the operation in flight | enqueue, submit, complete, stop | completions race with senders and with shutdown | order, limits, no lost wakeup, a slow reader hurts nobody else |
| Connection registry (`SocketOutput.cpp`, `Server`) | socket handle to queue | create, look up, destroy | the system reuses handles | nobody writes to the successor of a handle |
| Framing (`HandleClient`) | the pending bytes | append, cut, reject | a message split or coalesced at any byte | the same lines whatever the packet boundaries |
| Locks | who holds and awaits which | every handler | nested, by many paths, across all components | no circle of waiting threads; the battle relay never waits for a file |
| Broadcasts and refresh lists | copies of members and names | the messages of a match, the lists of a room | lists read under one lock and sent after another | each player is told once, in the match it is about, and nobody is left out |
| Combat, balloons and movement | none of their own | HIT, water spread, MOVE | none: a message is computed and relayed | they do not wait for the user store |
| Shop tables, maps, character table (`StoreData`, `MapManager`, `CharacterStatsManager`) | read once at start | look up | none | read only |

### Interaction

`ClientHandler` calls `RoomManager` and `UserManager`; `RoomManager` calls back
`ClientHandler::GetNicknameById` and `Server` for the connections while it holds
`roomsMutex`; every component ends in `QueueSend`, which finds a `SocketOutput`
by handle. One thread, the output dispatcher, takes messages off all the queues
and gives them to the system. Locks nest in the order of the table above
(`HandlerLocks`).

A packet names its user by nickname (DEAD, EXIT_ROOM, TEAMCHANGE, READY_TO_EXIT)
and the handler resolves the nickname to an account id through the sessions. The
models therefore give every request two parameters, the acting connection and
the named user.

## 2. What is modelled

### RoomManager.tla

One process per connection; `task[c]` is what its receive thread has in hand. A
handler that works under one acquisition of `roomsMutex` is one action. Three
handlers release the lock and go on, and are split there:

| code | actions |
| --- | --- |
| LOGIN | `Login` |
| LOGOUT, and the cleanup after the receive loop | `ForceExit`, `ClearId`, `EraseSession` |
| CREATE_ROOM, ENTER_ROOM, EXIT_ROOM, TEAMCHANGE | `CreateRoom`, `EnterRoom`, `ExitRoom`, `ChangeTeam` |
| START_GAME | `LookUpRoom`, then `TryStartGame` (which is `TryStartGame` or `TryStartCoopGame` of the code) |
| DEAD | `RecordDeath`; when it decides the match, `NameWinner`, `PayRewards` and on a failed commit `RetryDeath` |
| READY_TO_EXIT | `HandleReadyToExit` |

State correspondence: `rooms[r]` is the `Room` of that name (no member means no
such room: the code erases a room with its last member under one lock), `dead`,
`ready`, `resolved`, `nextMatchId` are the four match structures, `clientsMap`
and `clientId` the two halves of a session. `ledger` is a history variable: how
often the reward transaction of a match was committed and whom it paid as
winners.

Abstractions. Passwords, map names, characters and the order of the members do
not influence any guard modelled here and are left out (join order only lays out
lists; the team given on entry depends on the number of members). A nickname is
a pair that says whether `GetNicknameById` found a session or fell back to the
id. A reward transaction is one action that commits or fails, because it holds
the user-state lock throughout; what a transaction does is the subject of the
store modules below. A handler that resolves a nickname first and takes
`roomsMutex` later is collapsed to the latter: its change requires the user to
be a member of the room at that moment, and then, by `MembersHaveSessions`, the
earlier lookup could have found him. A disconnected connection may serve again
as a fresh one.

### MatchReward.tla

The promise the rooms implement: each match is unplayed, open, claimed or paid,
and moves only from open to claimed and from claimed back to open or on to paid.
`RoomManager` maps its state to a phase per match (`MatchPhase`), with a phase
`overpaid` the promise does not have.

### CsvStore.tla

`UserManager::Transaction` over the redo journal of `CsvStore.h`. A transaction
holds `usersMutex_` from its constructor to its destructor, so one is in
progress at a time: `holder` is its connection and `stage` says where the
process is.

| code | actions | stage |
| --- | --- | --- |
| `Transaction` constructor: lock, copies of the vectors, `pending_` cleared | `Begin` | up to work |
| the handler's body: rows changed in memory, images collected in `pending_` | `Change` | work to saved |
| `CsvStore::Commit`: nothing to write; the journal written and renamed | `CommitNothing`; `Publish` | saved to done; saved to applying |
| `Recover`: each image put in place; the journal deleted | `Apply`; `Retire` | applying to done, or within starting |
| the answer and the destructor after a commit that returned true | `Succeed` | done to up |
| every other way out: a failed check, an exception, a journal that cannot be written | `Refuse` | work or saved to up |
| process death, `std::terminate` in a commit, the early return of `Run` | `Die`; `Reject` when it is `Decode` that throws | to down |
| the supervisor starts the server; `Run` recovers and then loads | `Restart`, `Apply`, `Retire`, `Load` | down to starting to up |

State correspondence: `mem` is the vectors of `UserManager` by the file they
are kept in, `disk` the files, `journal` is `users.redo`, `snapshot` the copies
of the transaction, `pending` is `pending_`. `reply` is a history variable, what
each client was told last.

Abstractions. `Replace` writes a temporary file, flushes it and renames it, so
a file holds its old content or the new one; that the rename is atomic is
assumed of the file system, which is external. A stray temporary file is read
by nobody. `Recover` goes through the images in the order of their names and
the model in any order. An I/O error past the commit point ends the process
like a death does. Memory and disk are compared as images, so a vector and its
file are equal when saving the one would write the other. Of `Decode`'s checks
only the limit on the length is modelled: the others reject files `Encode` does
not write, and an empty image after another one, which no handler writes
because every file has its header line.

### AtomicStore.tla

What a transaction promises: a request sees everything that took effect before
it, its update takes effect on what it saw, at one moment or not at all, "ok"
and "error" mean what they say, and what took effect survives a death. In
`CsvStore` the data of this store is `Durable`, the files with the journal
replayed over them: what a restart would serve.

### UserStore.tla

The handlers that run transactions, on top of `CsvStore`, whose `Change` they
refine: `Register`, `Buy` (the four BUY handlers), `ChangeEmote`,
`ChangeBalloon`, `ChangeIcon` and `Reward`. A handler changes rows in memory and
then calls the `Save...` functions one after another; each reads the image of
its file (`ReadCsv`, which prefers the image of this transaction), replaces one
row and writes the image back (`Save`). Both halves are computed separately
(`Rewrite`; `SaveFiles` for the files of one user, `SaveAll` for one user after
another): a handler that forgets to save a row, or that starts
from a stale image, serves one thing now and another after a restart, and
`CsvStoreSpec`, the statement that the handlers are transactions of `CsvStore`,
fails.

`UserStoreAssumption` says what the proofs need of an instance: the seven files,
rows that are not `NoRow`, the accounts the server is installed with (their
nicknames differ), prices that are not negative, matches of finitely many users.
The properties are defined of any rows `T` (`Complete(T)`, `Balanced(T)`, ...) and
checked of `Durable`, what a restart would serve.

Abstractions. A table gives every user his row or `NoRow`. Points, a float in
`UserAccount.h`, are numbers: they stay far below the first integer a float
cannot hold. The characters of a
match (and the totals kept for each), passwords and the lobby list are left out.
The branches of `Get...ById` that append a missing row to a vector are not
modelled: the data the server is installed with has a row for each of its
accounts in each file, and `AccountsComplete` shows that registration keeps it
so. A transaction reads and writes under one lock, so the handlers need one
connection in a TLC instance; `store` runs two.

### SocketOutput.tla

The output queues and the dispatcher that serves them all. `stopping_` and
`stopReason_` are atomics that `Stop` writes without the queue's mutex, so every
reading of them is a step: `Enqueue`, `Begin` and `Complete` of the code are
split where they look again.

| code | actions |
| --- | --- |
| `Enqueue` | `Enqueue` (`Accept`, which starts an operation on an idle queue, or `Overflow`) |
| `Stop` | `Disconnect` begins it; `StopReason`, `StopFlag`, `StopShut`, `StopReturn` |
| `OutputDispatcher::Run` | `Take` |
| `Begin` | `Begin`, `Begun` |
| `Submit` | `Submit`, `Send` |
| `Complete` | `Complete`, `Settle`, `NextBatch`, `Post` |
| the system: a request sent in whole, in part, or failed | `Finish` |

State correspondence: `queue`, `pendingBytes`, `pendingFrames`, `active`,
`completed`, `mutex`, `stopping` and `stopReason` are the members of those names;
`port` is the completion port, `kernel[c]` the requests handed to `WSASend`,
`worker` the dispatcher with the operation it handles. `accepted` and `wire` are
histories: the frames accepted and the bytes sent. A byte is named by its frame
and its place in it.

Abstractions. The port is a queue, and it may refuse a packet. The system may
send any part of a batch, fail after any part, and keep a request for as long as
the peer does not read. A bad_alloc, the orderly shutdown of the dispatcher at
the end of the process and the test seam `sender_` are left out. A message
accepted between the clearing of a stopped queue and the next look at it stays
there, unsent, until the queue is destroyed.

### OutputChannel.tla

What a queue promises: a bounded byte stream per connection. Messages are
accepted whole or refused, and the peer receives the accepted bytes in order,
each once, until the connection is cut.

### ConnectionRegistry.tla

The life of a connection: `AcceptSocket`, `Create` (which enters it in the
registry), `Serve` (the list of clients and the thread), `Stop`, `RemoveClient`,
`EndThread`, `Release` (the last completion), and the destructor, `EraseEntry`
then `CloseSocket`, after which the system may give out the handle again.
`Referred` spells out every owner of a `shared_ptr`; the registry's weak
reference is expired when none is left. A broadcast retains its recipients
(`Gather`), and serves each through `LookUp` and `Enqueue`, in which `QueueSend`
knows its handle only. Either the check for an expired entry in the destructor or
the order of its two steps would keep a successor's entry; the mutant has
neither.

### ServerLocks.tla, LockDiscipline.tla, HandlerLocks.tla

`ServerLocks` holds the locks, their owners and what each thread waits for.
`LockDiscipline` is the abstract rule: a thread asks only for a lock of a higher
rank than all it holds. `HandlerLocks` writes each handler of the server as the
sequence of locks it takes and leaves, read off the code with the functions it
calls; a handler may return at every point where it leaves a lock, and then its
destructors leave the others, the highest first (`Unwind`). It is shown to be a
`LockDiscipline`.

Taking, waiting for and leaving a lock (`Take`, `Leave`, `Unwind`, and `Op`, `With`,
`Touch`, which the sequences are written with) are what `std::mutex` and
`std::lock_guard` of the C++ library do; the sequences themselves are the server's.

Abstractions. A handler stands for all its lines, and of these the sequence has the
locks and the calls that take some. A loop over members takes one turn. The queues'
mutexes are one lock. `usersMutex_` is recursive and taken by one thread again
without effect. The mutex of the file of transport statistics, which a destructor
writes when an environment variable asks for it, is left out: nothing is taken under
it.

### Framing.tla

`HandleClient`'s loop: `Top`, `Receive`, `ReceiveNothing`, `HandleLine`,
`RejectLine`, `AfterLine`, `KeepRest`, with `StopByOthers` at any moment. A byte
is its position in the stream and whether it is a newline; `recv` returns any
number of bytes. What `ProcessMessages` does is one choice: the connection goes
on or is closing.

### MatchMessages.tla

`RoomManager` composed with the messages of a match. `seats` is `Room::users` in
its order (`TakeSeat` for `push_back`, `LeaveSeat` for `erase`), `outbox[c]` what
the thread of `c` has still to send, `inbox[c]` what has been put on its queue.
`MessagesSpec` begins with any users logged in and sitting in any rooms, before the
first match; nobody logs in later. A change of the room and the sending that follows it
are separate steps, and `BroadcastToUserRoom` is two: the recipients are read
under the locks (`ReadRecipients`) and served after (`ServeRetained`).

Here the clients keep the rules of the game: a connection names its own user, the
host starts the match, a client that is told GAME_START asks for the map even if
it has just left the room, a player reports his own death and is ready when he has
seen his reward. The packets of one client are handled in order. Rooms are
free-for-all. Answers that no property tells apart are not kept. `TellAll`
delivers one message to several members in one step, which no property about one
client's messages can tell from the code's loop under `clientsMutex`. GET_MAP is
one step. The last part of the module is the strengthening the proofs need.

### RoomLists.tla

The lists of members that clients are shown: made and sent at one moment under
`roomsMutex`, or made under one lock and sent under a later one, in the four
places where the code does so. One room; teams are left out; at most `MaxBusy`
threads handle a request at a time; a list that overtakes the answer to
ENTER_ROOM is shown.

### RoomManagerMC, RoomPlayersMC, UserStoreMC, SocketOutputMC, HandlerLocksMC, MatchMessagesMC, RoomListsMC

The TLC instances: symmetry, seated rooms to start from, price lists and accounts.
Some hold a variable `scene` (or `cast`) that never changes and chooses, in the
initial state, between instances of different shape, so that one run covers them
all.

### RoomManagerProofs, MatchMessagesProofs, UserStoreProofs, SocketOutputProofs, FramingProofs, SequenceLemmas, ConnectionRegistryProofs, HandlerLocksProofs

The theorems (section 5).

## 3. The runs

| run | instance | checks | shows |
| --- | --- | --- | --- |
| `rooms_two` | 2 users, 2 connections, 2 rooms, teams of 1, 2 matches, fairness | `Membership`, `NoLeftovers`, `OneRewardPerMatch`, `RewardInv`, `ClaimIsBacked`, `OnlyOwnClaimReleased`, `ClaimSettles`, `RewardFairSpec` | a late retry of match 1 meets match 2 of the same room, rooms are emptied and recreated, users log in twice; claims are settled; refinement of `MatchReward` |
| `rooms_three` | 3 users on 3 connections, who come and go; or 4 seated users, 2 acting threads; teams of 2, 1 room, 1 match | `MembersHaveSessions`, `ClaimCoversMembers`, `RosterOnlyShrinks`, `OnlyFallenLose` | leavers, ready members and late entrants around a match of three; the full cooperative match, in every order of deaths, exits and acknowledgements |
| `store` | 2 connections, 3 files, 2 contents, one too long, fairness | `StoreInv`, `AtomicSpec`, `RecoveryCompletes` | rollback, death at every point of a commit and of a recovery; refinement of `AtomicStore`; a journal that can be read is recovered and retired |
| `users` | 1 user who shops; or 2 players with 2 matches each and a user who registers | `AccountsComplete`, `BooksBalance`, `ExperienceAddsUp`, `EquippedAreOwned`, `PaidTogether`, `CsvStoreSpec` | purchases, equipment, rewards and registration over seven files, with deaths in between; refinement of `CsvStore` |
| `output` | 1 connection with 2 callers and messages of 1 and 3 bytes; or 2 connections, one not read; fairness | `OneOperation`, `OutputInv`, `ChannelSpec`, `AcceptedIsSent`, `StoppedRetires` | no lost or double wakeup, exact accounting, no false failure; a slow reader holds nobody up; refinement of `OutputChannel` |
| `registry` | 3 connections over 2 handles, 2 senders, fairness | `RegistryInv`, `RightRecipient`, `StoppedIsClosed` | a handle reused while its predecessor is destroyed or retained |
| `handler_locks` | 2 threads, every handler | `NeverDeadlocked`, `RelayNeverWaitsForStore`, `DisciplineSpec` | the lock order of the whole server |
| `framing` | every stream of 10 bytes, lines of 3, reads of 3, fairness | `LinesOfTheStream`, `FramingInv`, `GivesUpOnlyLongLines`, `NothingAfterQuit`, `LinesAreHandled` | the lines are those of the stream wherever it is cut, at the limit too |
| `messages` | 2 players, 2 rooms, 2 matches; or 3 players, 1 room, 1 match | `ToldOnce`, `OldMatchIsSilent`, `PaidPlayersAreTold` | what is sent after the locks are released |
| `barrier_never_stuck` | 2 users, 1 room | `BarrierNeverStuck` (violated) | finding 1 |
| `server_stays_up` | 2 players of the `messages` instance | `ServerStaysUp` (violated) | finding 2 |
| `members_see_the_room` | 3 users, 2 threads busy at a time | `MembersSeeTheRoom` (violated) | finding 3 |

`OutputInv`, `RegistryInv`, `FramingInv` and `StoreInv` are conjunctions of a type
invariant and of named parts, each explained where it is defined.

Bounds. `MaxMatches` bounds `++nextMatchId_`; two matches are what a stale claim
needs to meet a newer match. `TeamSize` is 2 in the code; 1 makes a full
cooperative room of two players. Two rooms are what "one room per user" needs,
three users what a ready barrier with a leaver and a claim with two members left
need. Symmetry over users, connections and room names is used only in runs without
liveness properties. No state of the rooms is a deadlock.

For the journal, two contents tell old from new and three files a pass that has
done some and not all; the size of a file appears only as membership in
`Oversized`. The shopper of `users` starts with money for some of the items and
not for all, so that purchases succeed and fail, and with the code's four emote
slots, three of which a sequence of changes can permute around the fifth emote.
`MaxMatches` is 2 there: two victories bring 100 points, the exact amount of the
first level, and the wages pay for the item on sale. Files, rewards and levels
have the code's names and numbers; only the price list is made up.

`output` accepts three messages on a connection (`MaxAccepted`), over limits of
four bytes and two frames and batches of two bytes: a message longer than a batch,
batches of one and of two messages, both limits reached, and a third message that
arrives while the first batch completes. Two callers are what a race between two
senders, or a sender and a `Stop`, needs. `registry` accepts each connection once;
three over two handles let a handle be used again while the others are in any
phase. In `framing` ten bytes hold a line at the limit, one above it and a short
one, or up to ten empty ones. `handler_locks` needs two threads, because
`DisciplineSpec` speaks of each thread by itself and the theorems of
`HandlerLocksProofs` cover any number of them. In `messages`, `MaxDeaths` (2) bounds
repeated death reports.
`members_see_the_room` allows two busy threads at a time, enough for the
counterexample.

`registry`, `framing` and `messages` are checked without deadlock checking: their
systems may really stop, when every connection has come and gone, the client has
sent all, or all have left.

Fairness. `FairSpec` of the rooms asks weak fairness of `Continue(c)`, the steps of
a handler that has begun, for every connection: such a step waits for locks only,
never for a client, and the locks are held for bounded work. Nothing is assumed of
clients: they may send nothing more, and a commit may fail every time, in which
case the claim is given back every time. `FairSpec` of `CsvStore` asks that the
process dies finitely often (the code cannot promise a recovery that is killed
every time), that the supervisor the comment in `CsvStore.h:101` counts on starts
it again, and weak fairness of a recovery and of a transaction that has begun:
they wait for nothing but the disk. A journal `Decode` rejects may end the
process any number of times. In `SocketOutput` the dispatcher and a `Stop` in
progress run, and the system completes a request that was cancelled or whose peer
reads; a peer that does not read may hold his for ever. In `ConnectionRegistry` a
stopped connection's thread ends, its operation is released and a broadcast that
has begun goes on; nothing makes a peer leave. In `Framing` the loop runs between
two calls of `recv`, which may never return.

Five more configurations are kept beside the runs, each a counterexample TLC
finds to a sentence of the repository (findings 4 to 8).

## 4. Findings

Found by a run:

1. *The barrier.* `src/docs/engineering/diagrams/room-state-en.puml:19` lets a
   room return to waiting when all current members are ready.
   `HandleReadyToExit` looks at the barrier only when a member becomes ready;
   the departure of the last unready member does not.
2. *The map of a room that has gone.* GET_MAP uses the copy of its room without
   asking whether there is one (`ClientHandler.cpp:1177`). A player who is told
   of the start after he and the host have left asks for the map of an erased
   room, and the process ends; `src/tools/benchmark/room_state.py:38` expects
   the server to survive members who come and go.
3. *Lists out of order.* The list in CREATE_ROOM_SUCCESS is made under
   `roomsMutex` and queued after it is released (`RoomManager.cpp:124`), so that a
   newcomer's refresh (`RoomManager.cpp:222`: "send the refresh message to the other
   clients") may be queued before it and be overwritten; the answer to
   ENTER_ROOM, the refresh after a forced exit and the one after TEAMCHANGE are
   late in the same way. Nothing sends a further list.

Reproduced by a configuration kept beside the runs:

4. *The winner* (`EveryPaidMatchHasWinner.cfg` on `RoomManagerMC`). The
   free-for-all reward reads the survivor's nickname twice
   (`ClientHandler.cpp:1687` and `:1709`). If his session ends in between, the
   match is paid without a winner. `OnlyFallenLose` speaks of survivors who are still
   in the match, and holds.
5. *The mode* (`CoopStartsWithFullTeams.cfg` on `RoomManagerMC`). START_GAME
   chooses between the two start functions on a copy of the room. A cooperative
   room can be started as a free-for-all one, against
   `src/docs/engineering/README.md:75`.
6. *The journal's limit* (`JournalLimit.cfg` on `CsvStore`). `CsvStore.h:96` says
   of the journal "After it exists, recovery must finish". `Commit` publishes an
   image of any size and `Decode` rejects one above 64 MiB (`CsvStore.h:75`): the
   process ends in the commit and at each later start. `RecoveryCompletes` is
   the promise for journals that can be read, and holds.
7. *Queues under the locks* (`QueueOutsideSharedLocks.cfg` on `HandlerLocksMC`).
   `src/docs/engineering/STATE_SAFETY.md:15` says that broadcasts are queued after the room and client
   locks are released. Chat, the refreshes of a room and UPDATE_CHARACTER are
   queued under both.
8. *The end of another match* (`ThrownOut.cfg` on `MatchMessagesMC`: 3 players, 2
   rooms, 2 matches). `src/docs/engineering/diagrams/room-state-en.puml:19` sends
   GAME_END to the current members of the room. `HandleReadyToExit` copies the
   members under `roomsMutex` and queues GAME_END after it has released it
   (`RoomManager.cpp:691-721`), and the message names no room. A player who has
   left meanwhile and has been told of the start of a match in another room is sent
   back to the room screen in the middle of it. If he is the host there, nothing keeps
   him from asking for the next match, which may then begin between the end of the
   present one and the sending of its GAME_END. `OldMatchIsSilent` therefore has an
   exception: only the GAME_END of a match a player was thrown out of (`ThrownOut`)
   may be late.

## 5. The proofs

`RoomManagerProofs.tla` proves for every value of the constants that satisfies
`RoomManagerAssumption`:

* `TypeCorrect`: `Spec => []TypeOK`.
* `RewardInvariant`: `Spec => []RewardInv`.
* `RewardedOnce`: `Spec => []OneRewardPerMatch`.

`OneRewardPerMatch` is not inductive: nothing in it says why a room whose match
was paid cannot be claimed again. `RewardInv` adds three facts. Ids in play have
been issued and are not shared (`MatchIdsIssued`). A room that still plays a
claimed match is the room of the claim and is in `resolvedRooms_`
(`ClaimsAreResolved`). A room that still plays a paid match is in
`resolvedRooms_` (`PaidAreResolved`). The proof sorts the steps: most are quiet
(they claim, pay and start nothing and keep `resolved` where a match goes on,
`QuietStep`); the four others are a start with a fresh id (`StartStep`), a claim
(`ClaimStep`), a payment (`PayStep`) and a release, whose generation check is
what makes it safe (`ReleaseStep`). TLC checks `RewardInv` in `rooms_two`.

Of who is where, and of the claims, the same module proves:

* `SessionsAlwaysAgree`: `Spec => []SessionsAgree`. The two halves of a session
  point at each other, also in the middle of a logout.
* `SeatedOnce`: `Spec => []Membership`, and `MembersKeepSessions`:
  `Spec => []MembersHaveSessions`.
* `NothingLeftOver`: `Spec => []NoLeftovers`.
* `ClaimsAreBacked`: `Spec => []ClaimIsBacked`, and `ClaimsCoverMembers`:
  `Spec => []ClaimCoversMembers`.
* `PlayersOnlyLeave`, `ClaimsReleasedByOwner`, `SurvivorsNeverLose`: the action
  properties `RosterOnlyShrinks`, `OnlyOwnClaimReleased` and `OnlyFallenLose`.
* `RoomsImplementReward`: `Spec => RewardSpec`, the safety part of
  `RewardFairSpec`.

A newcomer sits down on the connection of his own session, and a logout has to empty
one room only because no user is in two: `Membership` and `MembersHaveSessions` are
inductive together only, with rooms that are finite (`Roster`), and both rest on
`SessionsAgree`. `NoLeftovers` needs that a name
without members is not in a match (`Clean`). For the claims it must be known what
a thread that has released `roomsMutex` still knows: the copy it holds was decided
when it was taken (`CopyIsDecided`), and once it has named a winner everybody who
is still in the match and not among the dead it has recorded answers to that name
(`WinnerStands`). With them the claims are inductive (`ClaimCore`), a payment makes no
survivor a loser, and each step of the rooms is a step of `MatchReward` for one
match and a stutter for the others.

`MatchMessagesProofs.tla` proves, under `RoomManagerAssumption`, for any users,
connections and rooms and any number of matches and deaths:

* `MessagesInvariant`: `MessagesSpec => [](CoreInv /\ OnceInv)`, and from it
  `PlayersAreToldOnce`: `MessagesSpec => []ToldOnce`.
* `RewardsAreOnTheirWay`: `MessagesSpec => []RewardIsOnItsWay`, and from it
  `RewardsAreTold`: `MessagesSpec => []PaidPlayersAreTold`.
* `MatchesAreInOrder`: `MessagesSpec => []OrderInv`, and with it
  `OldMatchesAreSilent`: `MessagesSpec => []OldMatchIsSilent`.

The proofs use the lemmas about the steps of the rooms in `RoomManagerProofs`
(`RoomsInv` is what they need), and sort the steps of `MatchMessages` into those that
change rooms, those that put entries into an outbox and those that deliver one.

`CoreInv` says where every entry comes from: what a thread has in hand or has to send
is about the match its own user is in (`WorksOnOwnMatch`, `SpeaksOfOwnMatch`), so
that nobody is ready, and no match ends, while one of its players still sends; and
what was said has happened (`SaidIsTrue`), so that a result not yet paid has not
been announced. `OnceInv` adds that what is told once is said by one thread
(`SaidByOne`), in entries that reach different connections (`EntriesApart`, because
the seats hold each member once), and has not been received where one of them still
reaches (`NotSaidAgain`).

`RewardIsOnItsWay` stays true when players leave because an announcement is a
broadcast by a member or has been copied to the connections of all who were there,
and nobody enters a room in a match.

That matches are told in order rests on the host. The first member starts a match,
from the room screen, and tells the others (`HostStarts`, `HostTellsStart`). Whoever
sits before the thread that still has an end to tell has left neither the match nor
its screen (`EndComesBeforeStart`), so he cannot start the next one before he is
told. Before a match ends, its members have been told of its start and show it, or
will be (`PlayersAreStarted`); only the GAME_END of an older match (`LateEndIsOld`)
can take one of them back to the room screen, which is what `ThrownOut` records and
why these invariants have it as an alternative. `NewestIsPlayed` turns the order of events into one of match ids.

`UserStoreProofs.tla` proves of `CsvStore`, for every set of connections, files and
contents that satisfies `CsvStoreAssumption`:

* `StoreInvariant`: `Spec => []StoreInv`.
* `MemoryIsDurable`: `Spec => []MemoryMatchesDisk`, what a client may rely on:
  the server answers from what is on disk.
* `StoreIsAtomic`: `Spec => AtomicSpec`, the refinement of `AtomicStore`.

`MemoryMatchesDisk` speaks of the times outside a transaction. That it comes back
after one needs to know what a transaction keeps meanwhile: before the journal is
out, the copies equal the files, so the destructor restores the right thing;
afterwards memory equals the files with the journal replayed, so finishing the
replay is enough (`BothWaysOpen`). `PassInPlace` says that the files a recovery
counts as replaced hold their image, so that the journal is retired only when it
is superfluous. In the refinement `Publish` is the moment an update takes effect.
`Apply` and `Retire` do not change `Durable`, and neither does starting a recovery
over: replaying images absorbs those already in place (`OverAgain`).

Of `UserStore` it proves, for any users, prices, matches and number of matches
that satisfy `UserStoreAssumption`, and for files that may hold any table of rows
(`Table \subseteq Image`, the one hypothesis of its theorems; the configuration
has equality):

* `HandlersAreTransactions`: `UserSpec => CsvStoreSpec`. What a handler does is a
  `Change` of `CsvStore`.
* `AccountsAreComplete`, `BooksAlwaysBalance`, `ExperienceAlwaysAddsUp`,
  `EquipmentIsOwned`, `MembersArePaidTogether`: the five invariants of the run
  `users`, from `UserInvariant`: `UserSpec => []UserInv`.

A purchase keeps the books balanced only if what is owned has a price and came from
the shop (`Stocked`); a reward keeps the levels right only if the points are short of
the next level; users who only play together have played equally often only if
somebody without an account is in no match that was paid (`Matched`); a new account
starts without money only because those the server is installed with are never
removed (`Installed`). `Sound` is all of this of one set of rows. `UserInv` has it of
`Durable`, and of memory while a transaction has been saved and not yet published,
with `StoreInv`, which says that the two become one at `Publish`. The step from what
the handler does to `Change` is `SavedIsChanged`: saving rows file after file, user
after user, gives images that replay to the rows in memory, if the handler changed
no row it does not save. The folds this is written with and the sums of the books
are computed by the library's recursion in an order nobody knows; the lemmas get at
them by induction over the subsets of a finite set (`SubsetInduction`,
`FoldExists`), and a sum does not depend on that order (`SumAnyOrder`). `Climb`
satisfies its equation (`ClimbEquation`), because the loop ends from everywhere.

`SocketOutputProofs.tla` proves for any number of connections and callers, any
messages and any limits that satisfy the assumptions of `SocketOutput`:

* `OneOperationAtATime`: `Spec => []OneOperation`.
* `OutputCorrect`: `Spec => []OutputInv`.
* `OutputImplementsChannel`: `Spec => ChannelSpec`.

`OneOperation` counts an operation in five places, and is not inductive: nothing in
it says what each place may expect of the others. The strengthening `OutputCore`
follows the operation of a connection from the port to the dispatcher to the system
and back. `OnePlace` says that it is in one of them when `active_` is set and in
none otherwise; `JobInv` what is then known: which bytes are on the wire, which are
left of the batch, what the counters hold, and that a new batch starts where the
last one ended. `StopInv` orders the three writes of `Stop` against the atomics the
dispatcher reads without the lock. In the refinement the accepted frames are the
abstract stream, and what has been sent is a prefix of it.

`FramingProofs.tla` proves for every limit on lines, every size of a recv and every
bound on the stream:

* `LinesInvariant`: `Spec => []LinesOfTheStream`.
* `FramingInvariant`: `Spec => []FramingInv`.
* `LimitRespected`: `Spec => GivesUpOnlyLongLines`, and `QuitIsLast`:
  `Spec => NothingAfterQuit`.

That the lines handled are a prefix of the stream is not inductive: it has to be
known where that prefix ends. `FramingCore` says that `pending` is the end of what
has been received (`InStream`) and that the bytes handled end at `consumed`, or,
while a line is in hand, at its newline (`InPlace`), and that nothing pending before
a recv is a newline. A step then needs only what `find` finds (`FindsNewline`), and
the length the code compares with the limit is that of the next line of the stream
(`LengthAtHand`). `OnTheWayOut` is why a QUIT is the last line.

`SequenceLemmas.tla` has what these two need of `FlattenSeq`, whose definition
is a recursive function: the concatenation of a longer sequence, of two sequences, of
nonempty ones.

`ConnectionRegistryProofs.tla` proves for any number of connections, handles and
senders:

* `RegistryCorrect`: `Spec => []RegistryInv`.
* `NoStrangerGetsIt`: `Spec => []RightRecipient`.

`RegistryCore` adds `Links`: what refers to a connection (a thread, an operation, a
broadcast) keeps it alive, and a sender that looks a handle up finds the very
connection it retains. That a handle has one live connection and the registry entry
is that one's is in `RegistryInv`.

`HandlerLocksProofs.tla` proves for any number of threads:

* `DisciplineKept` and `DeadlockFree`, of `LockDiscipline`: threads that keep the
  discipline ask upwards (`LockInv`), and `Discipline!Spec => []NeverDeadlocked`. In a
  set of threads that wait for one another, the holder of the highest lock waited for
  would have to wait for a higher one.
* `HandlersKeepDiscipline`: `Spec => DisciplineSpec`, and with it
  `ServerNeverDeadlocks`: `Spec => []NeverDeadlocked`.
* `RelayIsIndependent`: `Spec => []RelayNeverWaitsForStore`.

The first two rest on `LockAssumption` only, that is on four ranks; the others on the
locks and ranks of the code, too. What a thread has still to do must lead from the
locks it holds to none, always upwards (`Leads`, the invariant `HandlersInv`). That every
handler does is proved from its parts: `Under(s, r)` says that `s` may be called with
locks of at most the rank `r` held and leaves what it takes. It holds of a sequence if
it holds of its parts (`UnderOn`), and of a body under a lock if it holds of the body
one rank higher (`UnderWith`); `HandlersUnder` puts the handlers together.

Before a strengthening was proved TLC checked it as an invariant on the instances
of the runs: `SessionsAgree`, `Roster`, `Clean` and `ClaimCore` on 73,525 states of
`rooms_two` and 322,562 of `rooms_three`, `RegistryCore` on 709,835, `OutputCore` on
611,551, `FramingCore` on 44,453, `UserInv` on
181,208, `HandlersInv` on 61,647, and `CoreInv`, `OnceInv`, `RewardIsOnItsWay` and
`OrderInv` on 860,403 of `messages`.

Induction. The library's induction theorems take an operator as a parameter, which
no installed prover can instantiate. The proofs use sets instead: a set of numbers
that has 0 and is closed under successor leaves no number out, because it would have
a least one (`InductionOnNat`, from the well-foundedness of `<`), and likewise for
the subsets of a finite set. This reaches recursive functions and the folds of the
community modules.

Only model-checked: the liveness properties (`ClaimSettles`, `RecoveryCompletes`,
`AcceptedIsSent`, `StoppedRetires`, `StoppedIsClosed`, `LinesAreHandled`) and the
fairness part of `RewardFairSpec`, which are out of the prover's reach. `RoomLists`
has no property that holds.

## 6. Plan

Done: the rooms and their promise (`RoomManager`, `MatchReward`), the store
(`CsvStore`, `AtomicStore`, `UserStore`), the output queues (`SocketOutput`,
`OutputChannel`), the registry, the locks, framing, and the messages of matches and
rooms. Every safety property that a passing run checks is proved for all values of
the constants, and so is the safety part of each refinement.

Left, in the order of their worth: a promise `RoomLists` would keep if the lists were
numbered under `roomsMutex`; the characters of a match and the totals kept for each;
the disconnection of a client in `SocketOutput` joined to the sessions of
`RoomManager`. Liveness stays with TLC.

## 7. Not modelled

* Combat, balloons and movement: the handlers keep no state. They parse a packet,
  compute a message (the damage of a weapon, the cells water spreads to, a rounded
  position) and broadcast it to a room. Their locks are in `HandlerLocks` and what
  becomes of a broadcast in `ConnectionRegistry` and `MatchMessages`.
* The payload of messages and the layout of lists, but for the members and
  characters of `RoomLists`: no guard depends on it.
* Chat, the lobby list, the list of rooms and the reading handlers of shops and
  maps: they change nothing the properties speak of.
* The character of a player in a match, whose index the server stores unchecked
  (`RoomManager.cpp:456`), and the totals kept for each character.
* Memory that runs out, and the orderly end of the process: it has none but its
  death.
* The Windows socket interface, the file system, the completion port and the
  mutexes of the C++ library are external: modelled, where they appear, from how the code uses them.
* `src/docs` measurements and `src/tools/benchmark`: read as documentation.
