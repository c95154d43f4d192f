---------------------------- MODULE MatchMessages ----------------------------
(***************************************************************************)
(* What the players of a match are told, and when.  The module composes    *)
(* the rooms of RoomManager with the messages their handlers send:         *)
(* GAME_START, PLAYER_DEAD, WIN (or TEAM_WIN), REWARD_RESULT and GAME_END. *)
(* A handler changes the room under roomsMutex and sends after it has      *)
(* released it, so outbox[c] is what the thread of c has still to send and *)
(* other threads take steps before each of its entries.                    *)
(*                                                                         *)
(* Here the clients keep the rules of the game: a connection names its own *)
(* user only, the host starts a match ("host-controlled starts",           *)
(* README.md:107), a client that is told GAME_START asks for the map, a    *)
(* player reports his own death and leaves the results once he has seen    *)
(* his reward.  Any of them may leave the room or disconnect at any time.  *)
(*                                                                         *)
(* Answers no property tells apart (START_GAME_SUCCESS, MAP_DATA,          *)
(* CHAR_INFO, READY_TO_EXIT) are not kept.                                 *)
(***************************************************************************)
EXTENDS RoomManager, SequencesExt

CONSTANT MaxDeaths  \* bound: deaths a client may be told of and still report one

ASSUME MatchMessagesAssumption == MaxDeaths \in Nat

VARIABLES
  seats,    \* Room::users in its order; the first is the host
  outbox,   \* what the thread of a connection has still to send
  inbox,    \* history: the messages put on the queue of a connection
  screen,   \* what the client of a connection shows
  up        \* the server process runs

messageVars == <<seats, outbox, inbox, screen, up>>

Message(is, r, m) == [is |-> is, room |-> r, match |-> m]

\* Entries of an outbox: a broadcast to the room of a user whose recipients
\* are still to be read, a message to a retained recipient, one to the session
\* of a user, and one to the sessions of several users at once.
Broadcast(u, msg)  == [does |-> "broadcast", from |-> u, msg |-> msg]
Retained(c, msg)   == [does |-> "retained", to |-> c, msg |-> msg]
Tell(u, msg)       == [does |-> "tell", users |-> {u}, msg |-> msg]
TellAll(us, msg)   == [does |-> "tell", users |-> us, msg |-> msg]

\* Whoever plays has logged in before and sits in a room or not, the members of
\* each in some order; no match has been played.
MessagesInit ==
  /\ clientId \in [Conns -> Users \union {NoUser}]
  /\ clientsMap \in [Users -> Conns \union {NoConn}]
  /\ \A c \in Conns, u \in Users : clientId[c] = u <=> clientsMap[u] = c
  /\ rooms \in [RoomNames -> {[NoRoom EXCEPT !.users = us] : us \in SUBSET Users}]
  /\ task = [c \in Conns |-> Idle]
  /\ Membership /\ MembersHaveSessions
  /\ \A r \in RoomNames : IsFiniteSet(Members(r))
  /\ dead = [r \in RoomNames |-> {}]
  /\ ready = [r \in RoomNames |-> {}]
  /\ resolved = {}
  /\ nextMatchId = 0
  /\ ledger = [m \in Matches |-> [times |-> 0, winners |-> {}]]
  /\ seats \in [RoomNames -> Seq(Users)]
  /\ \A r \in RoomNames : ToSet(seats[r]) = Members(r) /\ IsInjective(seats[r])
  /\ outbox = [c \in Conns |-> <<>>]
  /\ inbox = [c \in Conns |-> <<>>]
  /\ screen = [c \in Conns |-> "room"]
  /\ up = TRUE

-----------------------------------------------------------------------------
(* Requests *)

Self(c) == clientId[c]

Sends(c, plan) == outbox' = [outbox EXCEPT ![c] = plan]

\* push_back and erase keep the order of joining.
TakeSeat(u, r) == seats' = [seats EXCEPT ![r] = Append(@, u)]

Vacate(q, u) == RemoveAt(q, CHOOSE k \in 1..Len(q) : q[k] = u)

LeaveSeat(u) ==
  seats' = [r \in RoomNames |-> IF u \in Members(r) THEN Vacate(seats[r], u) ELSE seats[r]]

Enter(c, r) ==
  /\ screen[c] = "room"
  /\ EnterRoom(c, r) \/ CreateRoom(c, r, FALSE)
  /\ TakeSeat(Self(c), r)
  /\ UNCHANGED <<outbox, screen>>

\* EXIT_ROOM, or the connection is lost.
Quit(c) ==
  /\ \/ \E r \in RoomNames : ExitRoom(c, r, Self(c))
     \/ ForceExit(c)
  /\ LeaveSeat(Self(c))
  /\ screen' = [screen EXCEPT ![c] = "room"]
  /\ UNCHANGED outbox

StartGame(c, r) ==
  /\ seats[r] # <<>> /\ Head(seats[r]) = Self(c)
  /\ screen[c] = "room"
  /\ LookUpRoom(c, r)
  /\ UNCHANGED <<seats, outbox, screen>>

\* The players are told one after the other, by the list made at the start.
Started(c) ==
  /\ TryStartGame(c)
  /\ Sends(c, LET r == task[c].name IN
              IF nextMatchId' = nextMatchId THEN <<>>
              ELSE [k \in 1..Len(seats[r]) |->
                      Tell(seats[r][k], Message("GAME_START", r, nextMatchId'))])
  /\ UNCHANGED <<seats, screen>>

\* GET_MAP for the room of the last GAME_START.  The handler uses the copy of
\* the room without asking whether there is one.
LastStart(c) == inbox[c][SelectLastInSeq(inbox[c], LAMBDA msg : msg.is = "GAME_START")]

GetMap(c) ==
  /\ task[c] = Idle
  /\ Self(c) # NoUser
  /\ screen[c] = "loading"
  /\ screen' = [screen EXCEPT ![c] = "match"]
  /\ up' = Exists(LastStart(c).room)
  /\ UNCHANGED <<vars, seats, outbox, inbox>>

DeathsSeen(c) == Cardinality({k \in 1..Len(inbox[c]) : inbox[c][k].is = "PLAYER_DEAD"})

Dead(c, r) ==
  /\ screen[c] # "room"
  /\ DeathsSeen(c) < MaxDeaths
  /\ RecordDeath(c, r, Self(c))
  /\ Sends(c, <<Broadcast(Self(c), Message("PLAYER_DEAD", r, rooms[r].matchId))>>)
  /\ UNCHANGED <<seats, screen>>

\* Mutant: the result is announced in the room of the survivor.
SurvivorsRoom(t) == CHOOSE u \in t.room.users : u \notin t.dead

\* The result is announced in the room of the player who died last.
ResultRoom(t) == t.died

Announce(c) ==
  /\ PayRewards(c)
  /\ LET t == task[c]
         result(is) == Broadcast(ResultRoom(t), Message(is, t.name, t.room.matchId))
     IN  Sends(c, IF ledger' = ledger THEN <<>>
                  ELSE <<result("WIN"), result("REWARD_RESULT")>>)
  /\ UNCHANGED <<seats, screen>>

Heard(c, is, m) == \E k \in 1..Len(inbox[c]) : inbox[c][k].is = is /\ inbox[c][k].match = m

\* Mutant: the members are told of the end one after the other.
EndOneByOne(r, msg) == [k \in 1..Len(seats[r]) |-> Tell(seats[r][k], msg)]

\* GAME_END is queued for all members under one acquisition of clientsMutex.
End(r, msg) == <<TellAll(Members(r), msg)>>

ReadyToExit(c, r) ==
  /\ Heard(c, "REWARD_RESULT", rooms[r].matchId)
  /\ HandleReadyToExit(c, r, Self(c))
  /\ Sends(c, IF rooms[r].inGame' THEN <<>>
              ELSE End(r, Message("GAME_END", r, rooms[r].matchId)))
  /\ UNCHANGED <<seats, screen>>

-----------------------------------------------------------------------------
(* Sending *)

\* Every recipient's queue gets the message, and its client turns to it.
Deliver(to, msg) ==
  /\ inbox' = [c \in Conns |-> IF c \in to THEN Append(inbox[c], msg) ELSE inbox[c]]
  /\ screen' = [c \in Conns |-> IF c \notin to THEN screen[c]
                                ELSE CASE msg.is = "GAME_START" -> "loading"
                                       [] msg.is = "GAME_END"   -> "room"
                                       [] OTHER                 -> screen[c]]

Sessions(us) == {clientsMap[u] : u \in us} \ {NoConn}

\* BroadcastToUserRoom reads its recipients under both locks, a member without a
\* session has no connection to serve ...
ReadRecipients(c) ==
  LET entry == Head(outbox[c])
      serve(r) == [k \in 1..Len(seats[r]) |-> Retained(clientsMap[seats[r][k]], entry.msg)]
  IN
  /\ entry.does = "broadcast"
  /\ \/ \E r \in RoomNames : /\ entry.from \in Members(r)
                             /\ Sends(c, serve(r) \o Tail(outbox[c]))
     \/ ~InRoom(entry.from) /\ Sends(c, Tail(outbox[c]))
  /\ UNCHANGED <<inbox, screen>>

\* ... and serves them after it has released them.
ServeRetained(c) ==
  LET entry == Head(outbox[c]) IN
  /\ entry.does = "retained"
  /\ Deliver({entry.to}, entry.msg)
  /\ Sends(c, Tail(outbox[c]))

\* A message to users goes to the sessions they have under clientsMutex.
TellUsers(c) ==
  LET entry == Head(outbox[c]) IN
  /\ entry.does = "tell"
  /\ Deliver(Sessions(entry.users), entry.msg)
  /\ Sends(c, Tail(outbox[c]))

-----------------------------------------------------------------------------
Request(c) ==
  \/ \E r \in RoomNames : \/ Enter(c, r) \/ StartGame(c, r)
                          \/ Dead(c, r) \/ ReadyToExit(c, r)
  \/ Quit(c)

Rest(c) ==
  \/ Started(c)
  \/ Announce(c)
  \/ /\ NameWinner(c) \/ RetryDeath(c) \/ ClearId(c) \/ EraseSession(c)
     /\ UNCHANGED <<seats, outbox, screen>>

\* A thread sends what it has to send before it goes on.
Act(c) ==
  \/ /\ outbox[c] = <<>>
     /\ Request(c) \/ Rest(c)
     /\ UNCHANGED <<inbox, up>>
  \/ outbox[c] = <<>> /\ GetMap(c)
  \/ /\ outbox[c] # <<>>
     /\ ReadRecipients(c) \/ ServeRetained(c) \/ TellUsers(c)
     /\ UNCHANGED <<vars, seats, up>>

MessagesNext == up /\ \E c \in Conns : Act(c)

MessagesSpec == MessagesInit /\ [][MessagesNext]_<<vars, messageVars>>

-----------------------------------------------------------------------------
(* Properties *)

\* Message j reaches connection c after message i.
After(c, i, j) == i \in 1..Len(inbox[c]) /\ j \in i + 1 .. Len(inbox[c])

\* A player is told of the start, the result, the reward and the end of a
\* match at most once each (tools/benchmark/room_state.py:25-26), however
\* repeated and simultaneous DEAD and READY_TO_EXIT packets are handled.
ToldOnce ==
  \A c \in Conns : \A i, j \in 1..Len(inbox[c]) :
    After(c, i, j) /\ inbox[c][i].is # "PLAYER_DEAD" => inbox[c][i] # inbox[c][j]

\* A player of match m was told of its start and then, before match m is over
\* for him, that an older match has ended: GAME_END names no room and goes to
\* those who were members when the match ended, wherever they are by now.
ThrownOut(m) ==
  \E c \in Conns : \E i, j \in 1..Len(inbox[c]) :
    /\ After(c, i, j)
    /\ inbox[c][i].is = "GAME_START" /\ inbox[c][i].match = m
    /\ inbox[c][j].is = "GAME_END" /\ inbox[c][j].match < m

\* Nothing of a match reaches a player after he has been told that it is over,
\* or after he has been told that the next one in this room has begun: a
\* thread that still sends keeps its own player from being ready.  The one
\* exception is the GAME_END of a match whose players were thrown out of it.
OldMatchIsSilent ==
  \A c \in Conns : \A i, j \in 1..Len(inbox[c]) :
    After(c, i, j) /\ inbox[c][i].room = inbox[c][j].room
      => \/ inbox[c][j].match > inbox[c][i].match
         \/ /\ inbox[c][j].match = inbox[c][i].match
            /\ inbox[c][i].is # "GAME_END"
         \/ /\ inbox[c][j].match < inbox[c][i].match
            /\ inbox[c][j].is = "GAME_END" /\ ThrownOut(inbox[c][j].match)

\* The threads that have still something to say or to pay about match m.
Busy(c, m) ==
  \/ Claims(c, m)
  \/ \E k \in 1..Len(outbox[c]) : outbox[c][k].msg.match = m

\* Everybody who is still in a match when it has been paid has been told his
\* reward: the announcement, made by the room of the player who died last, is
\* not lost to players who leave meanwhile.
PaidPlayersAreTold ==
  \A r \in RoomNames, m \in Matches :
    /\ Playing(r, m)
    /\ ledger[m].times > 0
    /\ ~\E c \in Conns : Busy(c, m)
    => \A u \in Members(r) : Heard(clientsMap[u], "REWARD_RESULT", m)

\* A request about a room that has gone meanwhile leaves the server running
\* (tools/benchmark/room_state.py:38 "room_churn_keeps_server_alive").
ServerStaysUp == up

\* The clients of a match hear of the end of their own match only
\* (docs/engineering/diagrams/room-state-en.puml:19).
NobodyIsThrownOut == \A m \in Matches : ~ThrownOut(m)

-----------------------------------------------------------------------------
(* The strengthening that makes these inductive *)

Received(c) == {inbox[c][k] : k \in 1..Len(inbox[c])}
Pending(c)  == {outbox[c][k] : k \in 1..Len(outbox[c])}

\* A message that has been sent to c or that the thread of c has still to send.
Said(c, msg) == msg \in Received(c) \/ \E e \in Pending(c) : e.msg = msg

Kinds    == {"GAME_START", "PLAYER_DEAD", "WIN", "REWARD_RESULT", "GAME_END"}
Messages == [is : Kinds, room : RoomNames, match : Matches]
Entries  ==
       [does : {"broadcast"}, from : Users, msg : Messages]
  \union [does : {"retained"}, to : Conns \union {NoConn}, msg : Messages]
  \union [does : {"tell"}, users : SUBSET Users, msg : Messages]

MessagesTypeOK ==
  /\ seats \in [RoomNames -> Seq(Users)]
  /\ outbox \in [Conns -> Seq(Entries)]
  /\ inbox \in [Conns -> Seq(Messages)]
  /\ screen \in [Conns -> {"room", "loading", "match"}]

\* The seats list the members, and no two users share a connection.
SeatsAreMembers ==
  \A r \in RoomNames : ToSet(seats[r]) = Members(r) /\ IsInjective(seats[r])

SessionsApart ==
  \A u, v \in Users : clientsMap[u] = clientsMap[v] /\ clientsMap[u] # NoConn => u = v

\* The user of c is in match m of room r and has not left its results.
Plays(c, r, m) == Playing(r, m) /\ clientId[c] \in Members(r) \ ready[r]

\* What a thread has to send is about the match its user is in, or about the
\* end of the match of the room its user is in.
SpeaksOfOwnMatch ==
  \A c \in Conns : \A e \in Pending(c) :
    /\ e.msg.is # "GAME_END" => Plays(c, e.msg.room, e.msg.match)
    /\ e.msg.is = "GAME_END" => clientId[c] \in Members(e.msg.room) /\ Len(outbox[c]) = 1
    /\ e.does = "broadcast" => e.from = clientId[c]
    /\ e.does = "tell" <=> e.msg.is \in {"GAME_START", "GAME_END"}

\* So is what it has in hand.
WorksOnOwnMatch ==
  \A c \in Conns :
    /\ task[c].op \in Paying => /\ task[c].died = clientId[c]
                               /\ Plays(c, task[c].name, task[c].room.matchId)
    /\ task[c].op = "start" => clientId[c] \in Members(task[c].name)

\* Nobody leaves the results of a match that has not been paid.
ReadyArePaid ==
  \A r \in RoomNames :
    rooms[r].inGame /\ ready[r] # {} => ledger[rooms[r].matchId].times > 0

\* What is said of a match has happened.
SaidIsTrue ==
  \A c \in Conns : \A msg \in Messages : Said(c, msg) =>
    /\ msg.match <= nextMatchId
    /\ msg.is \in {"WIN", "REWARD_RESULT"} => ledger[msg.match].times > 0
    /\ msg.is = "GAME_END" => \A r \in RoomNames : ~Playing(r, msg.match)

\* An entry may still reach a connection.
Reaches(e, c) ==
  \/ e.does = "broadcast"
  \/ e.does = "retained" /\ e.to = c
  \/ e.does = "tell" /\ \E u \in e.users : clientsMap[u] = c

\* What is told once is said by one thread, in entries that reach different
\* connections, and has not been received where an entry still reaches.
SaidByOne ==
  \A c, d \in Conns : \A e \in Pending(c), f \in Pending(d) :
    e.msg = f.msg /\ e.msg.is # "PLAYER_DEAD" => c = d

EntriesApart ==
  \A c, d \in Conns : \A k, l \in 1..Len(outbox[c]) :
    /\ k # l /\ outbox[c][k].msg = outbox[c][l].msg
    /\ outbox[c][k].msg.is # "PLAYER_DEAD"
    => ~(Reaches(outbox[c][k], d) /\ Reaches(outbox[c][l], d))

NotSaidAgain ==
  \A c, d \in Conns : \A e \in Pending(c) :
    e.msg \in Received(d) /\ e.msg.is # "PLAYER_DEAD" => ~Reaches(e, d)

\* Everybody who is in a paid match has been told his reward, or will be.
RewardIsOnItsWay ==
  \A r \in RoomNames, m \in Matches :
    Playing(r, m) /\ ledger[m].times > 0 =>
      \A u \in Members(r) :
        \/ Heard(clientsMap[u], "REWARD_RESULT", m)
        \/ \E c \in Conns : \E e \in Pending(c) :
             /\ e.msg.is = "REWARD_RESULT" /\ e.msg.match = m
             /\ Reaches(e, clientsMap[u])

\* No message of a room is about a later match than the one it plays.
NewestIsPlayed ==
  \A r \in RoomNames : rooms[r].inGame =>
    \A c \in Conns : \A msg \in Messages :
      Said(c, msg) /\ msg.room = r => msg.match <= rooms[r].matchId

\* v joined room r before w, or is w.
Before(q, v, w) == \E i, j \in 1..Len(q) : i <= j /\ q[i] = v /\ q[j] = w
First(q, w) == Before(q, w, w) /\ \A v \in Users : Before(q, v, w) => v = w

Start(r, m) == Message("GAME_START", r, m)

\* Until the end of a match has been told, nobody who can start the next one
\* has left the results.
Waits(v, msg) ==
  /\ Start(msg.room, msg.match) \in Received(clientsMap[v])
  /\ screen[clientsMap[v]] # "room"
  /\ \A d \in Conns : \A f \in Pending(d) :
       f.msg.is = "GAME_END" /\ v \in f.users => f.msg = msg \/ f.msg.match < msg.match

EndComesBeforeStart ==
  \A c \in Conns : \A e \in Pending(c) : e.msg.is = "GAME_END" =>
    \/ ThrownOut(e.msg.match)
    \/ /\ ~rooms[e.msg.room].inGame
       /\ \A d \in Conns : \A msg \in Messages :
            Said(d, msg) /\ msg.room = e.msg.room => msg.match <= e.msg.match
       /\ \A v \in Users : Before(seats[e.msg.room], v, clientId[c]) => Waits(v, e.msg)

\* The host starts a match, and only after he has been told of the last end.
HostStarts ==
  \A c \in Conns : task[c].op = "start" =>
    LET r == task[c].name IN
    /\ First(seats[r], clientId[c])
    /\ rooms[r].inGame => ThrownOut(rooms[r].matchId)
    /\ \A d \in Conns : \A e \in Pending(d) :
         e.msg.is = "GAME_END" /\ e.msg.room = r => ThrownOut(e.msg.match)

HostTellsStart ==
  \A c \in Conns : \A e \in Pending(c) :
    e.msg.is = "GAME_START" => First(seats[e.msg.room], clientId[c])

\* Whoever is in a match has been told of its start and shows it, or will be.
PlayersAreStarted ==
  \A r \in RoomNames, m \in Matches : Playing(r, m) =>
    \A u \in Members(r) :
      \/ ThrownOut(m)
      \/ \E c \in Conns : Tell(u, Start(r, m)) \in Pending(c)
      \/ /\ Start(r, m) \in Received(clientsMap[u])
         /\ screen[clientsMap[u]] # "room"

\* An end that still reaches a player in a match is the end of an older match.
LateEndIsOld ==
  \A c \in Conns : \A e \in Pending(c) : e.msg.is = "GAME_END" =>
    \A u \in e.users, r \in RoomNames :
      u \in Members(r) /\ rooms[r].inGame => e.msg.match < rooms[r].matchId
=============================================================================
