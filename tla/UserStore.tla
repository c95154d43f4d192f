----------------------------- MODULE UserStore -----------------------------
(***************************************************************************)
(* The handlers that run user transactions: registration, purchases,       *)
(* changes of equipment and match rewards, on top of CsvStore.  A handler  *)
(* changes rows of the vectors in memory and then rewrites, file by file,  *)
(* the rows it remembers to save; both are computed here separately, so    *)
(* that what a restart would serve can be compared with what the handler   *)
(* did.                                                                    *)
(*                                                                         *)
(* A table gives every user a row, or NoRow.  Nicknames are resolved       *)
(* through the login sessions, whose users have accounts; a name that      *)
(* resolves to nobody, and every check that fails, is a Refuse.            *)
(***************************************************************************)
EXTENDS CsvStore, Integers, FiniteSetsExt, Functions

CONSTANTS
  Users,       \* account ids
  Nicknames,
  Accounts,    \* nicknames of the accounts there are at the start
  StartMoney,  \* their money, by currency
  PriceList,   \* for each kind of goods, what an item costs in what currency
  Matches,     \* the sets of users who may play a match
  MaxMatches,  \* bound on the matches a user plays
  NoRow        \* a user without a row

Currencies == {"COIN", "CASH"}
Kinds      == {"char", "balloon", "emote", "icon"}
Slots      == 0 .. 3

\* The file the goods of a kind are recorded in.
GoodsFile == [char  |-> "UserCharacters", balloon |-> "UserBalloon",
              emote |-> "UserEmotes",     icon    |-> "UserIcon"]

CsvFiles == {"UsersAccount", "UserProfile", "UserWinLossStats"}
              \union {GoodsFile[kind] : kind \in Kinds}

\* Rows, by the vector they are kept in, and what a file may hold.
AccountRow == [nickname : Nicknames]
ProfileRow == [level : Nat, exp : Nat, money : [Currencies -> Int],
               emo : [Slots -> Nat], balloon : Nat, icon : Nat]
StatsRow   == [win : Nat, lose : Nat]
GoodsRow   == [items : SUBSET Nat]

Table == [Users -> AccountRow \union ProfileRow \union StatsRow \union GoodsRow
                     \union {NoRow}]

ASSUME UserStoreAssumption ==
  /\ Files = CsvFiles
  /\ NoRow \notin AccountRow \union ProfileRow \union StatsRow \union GoodsRow
  /\ DOMAIN Accounts \subseteq Users
  /\ Accounts \in [DOMAIN Accounts -> Nicknames]
  /\ IsInjective(Accounts)
  /\ StartMoney \in [Currencies -> Nat]
  /\ \A kind \in Kinds :
       /\ DOMAIN PriceList[kind] \subseteq Nat
       /\ \A item \in DOMAIN PriceList[kind] :
            /\ PriceList[kind][item].amount \in Nat
            /\ PriceList[kind][item].currency \in Currencies
  /\ \A members \in Matches : members \subseteq Users /\ IsFiniteSet(members)

\* The rows of a new account.
NewAccount(nickname) == [nickname |-> nickname]
NewProfile == [level |-> 1, exp |-> 0, money |-> [currency \in Currencies |-> 0],
               emo |-> [slot \in Slots |-> slot], balloon |-> 0, icon |-> 0]
NewStats   == [win |-> 0, lose |-> 0]
NewGoods   == [char |-> {0}, balloon |-> {0}, emote |-> 0 .. 3, icon |-> {0}]

NewRow(file, nickname) ==
  CASE file = "UsersAccount"     -> NewAccount(nickname)
    [] file = "UserProfile"      -> NewProfile
    [] file = "UserWinLossStats" -> NewStats
    [] OTHER -> [items |-> NewGoods[CHOOSE kind \in Kinds : GoodsFile[kind] = file]]

\* The data the server is installed with: new accounts that have earned money.
StartRow(file, user) ==
  IF user \notin DOMAIN Accounts THEN NoRow
  ELSE IF file = "UserProfile" THEN [NewProfile EXCEPT !.money = StartMoney]
  ELSE NewRow(file, Accounts[user])

UserInit ==
  /\ disk = [file \in CsvFiles |-> [user \in Users |-> StartRow(file, user)]]
  /\ Init

-----------------------------------------------------------------------------
(* Rows in memory and in the images of the transaction *)

HasRow(file, user) == mem[file][user] # NoRow

Profile(user)      == mem["UserProfile"][user]
Stats(user)        == mem["UserWinLossStats"][user]
Goods(kind, user)  == mem[GoodsFile[kind]][user].items

\* ReadCsv sees the images written earlier in the transaction.
ReadDisk(images, file) == disk[file]
ReadCsv(images, file)  == IF file \in DOMAIN images THEN images[file] ELSE disk[file]

\* Save* rewrites the row of the user, if the file has one, from memory.
Save(images, rows, file, user) ==
  LET old == ReadCsv(images, file)
      new == IF old[user] = NoRow THEN old ELSE [old EXCEPT ![user] = rows[file][user]]
  IN  [f \in DOMAIN images \union {file} |-> IF f = file THEN new ELSE images[f]]

\* One file after another, for one user after another.
SaveFiles(images, rows, files, user) ==
  FoldSet(LAMBDA file, acc : Save(acc, rows, file, user), images, files)

SaveAll(rows, files, users) ==
  FoldSet(LAMBDA user, images : SaveFiles(images, rows, files, user), Nothing, users)

\* A handler that changes the rows of memory to rows and saves these files for
\* these users.
Rewrite(rows, files, users) ==
  /\ mem' = rows
  /\ pending' = SaveAll(rows, files, users)
  /\ stage' = "saved"
  /\ UNCHANGED <<disk, journal, applied, holder, snapshot, reply>>

WithProfile(user, profile) == [mem EXCEPT !["UserProfile"][user] = profile]

-----------------------------------------------------------------------------
(* Registration *)

FreshId(user, nickname) ==
  \A other \in Users : HasRow("UsersAccount", other) => other # user

Fresh(user, nickname) ==
  \A other \in Users : HasRow("UsersAccount", other) =>
    /\ other # user
    /\ mem["UsersAccount"][other].nickname # nickname

\* The row is appended to every file and to every vector.
Register(user, nickname) ==
  /\ Fresh(user, nickname)
  /\ pending' = [file \in CsvFiles |->
                   [disk[file] EXCEPT ![user] = NewRow(file, nickname)]]
  /\ mem' = [file \in CsvFiles |->
               [mem[file] EXCEPT ![user] = NewRow(file, nickname)]]
  /\ stage' = "saved"
  /\ UNCHANGED <<disk, journal, applied, holder, snapshot, reply>>

-----------------------------------------------------------------------------
(* Shop and equipment *)

Sold(user, kind, item) == item \in DOMAIN PriceList[kind]
Owns(user, kind, item) == item \in Goods(kind, user)

AnyCurrency(user, price) == \E cur \in Currencies : Profile(user).money[cur] >= price.amount
CanPay(user, price) == Profile(user).money[price.currency] >= price.amount

\* The files a purchase saves.
GoodsOnly(kind)   == {GoodsFile[kind]}
BoughtFiles(kind) == {"UserProfile", GoodsFile[kind]}

Buy(user, kind, item) ==
  LET price == PriceList[kind][item]
      rows  == [mem EXCEPT
                  !["UserProfile"][user].money[price.currency] = @ - price.amount,
                  ![GoodsFile[kind]][user].items = @ \union {item}]
  IN  /\ HasRow("UserProfile", user)
      /\ ~Owns(user, kind, item)
      /\ CanPay(user, price)
      /\ Rewrite(rows, BoughtFiles(kind), {user})

\* Emote b replaces a, or they change places; the last slot found counts.
SlotsOf(user, emote) == {slot \in Slots : Profile(user).emo[slot] = emote}

ChangeEmote(user, a, b) ==
  LET at  == Max(SlotsOf(user, a))
      emo == Profile(user).emo
      new == IF SlotsOf(user, b) = {} THEN [emo EXCEPT ![at] = b]
             ELSE [emo EXCEPT ![at] = b, ![Max(SlotsOf(user, b))] = a]
  IN  /\ a # b
      /\ HasRow("UserProfile", user)
      /\ Owns(user, "emote", b)
      /\ SlotsOf(user, a) # {}
      /\ Rewrite(WithProfile(user, [Profile(user) EXCEPT !.emo = new]),
                 {"UserProfile"}, {user})

ChangeBalloon(user, to) ==
  /\ HasRow("UserProfile", user)
  /\ Profile(user).balloon # to
  /\ Owns(user, "balloon", to)
  /\ Rewrite(WithProfile(user, [Profile(user) EXCEPT !.balloon = to]),
             {"UserProfile"}, {user})

ChangeIcon(user, to) ==
  /\ HasRow("UserProfile", user)
  /\ Profile(user).icon # to
  /\ Owns(user, "icon", to)
  /\ Rewrite(WithProfile(user, [Profile(user) EXCEPT !.icon = to]),
             {"UserProfile"}, {user})

-----------------------------------------------------------------------------
(* Match rewards *)

\* Each level takes a hundred points more than the one before.
BeyondNext(level, exp) == exp > level * 100
Suffices(level, exp)   == exp >= level * 100

Progress == [level : Nat, exp : Nat]

LevelUp(at) == [level |-> at.level + 1, exp |-> at.exp - at.level * 100]

Climb[at \in Progress] ==
  IF Suffices(at.level, at.exp) THEN Climb[LevelUp(at)] ELSE at

Rewarded(profile, won) ==
  LET climbed == Climb[[level |-> profile.level,
                        exp   |-> profile.exp + (IF won THEN 50 ELSE 30)]]
  IN  [profile EXCEPT !.level = climbed.level,
                      !.exp = climbed.exp,
                      !.money["COIN"] = @ + (IF won THEN 500 ELSE 200),
                      !.money["CASH"] = @ + (IF won THEN 5 ELSE 0)]

UpdateWinLoss(stats, won) ==
  IF won THEN [stats EXCEPT !.win = @ + 1] ELSE [stats EXCEPT !.lose = @ + 1]

\* The files the reward of a match saves for each member.
RewardFiles == {"UserWinLossStats", "UserProfile"}

Reward(members, winners) ==
  LET Row(file, user) ==
        IF user \notin members THEN mem[file][user]
        ELSE IF file = "UserProfile" THEN Rewarded(Profile(user), user \in winners)
        ELSE UpdateWinLoss(Stats(user), user \in winners)
      rows == [file \in DOMAIN mem |->
                 IF file \in RewardFiles THEN [user \in Users |-> Row(file, user)]
                                         ELSE mem[file]]
  IN  /\ \A user \in members :
           /\ HasRow("UserProfile", user)
           /\ Stats(user).win + Stats(user).lose < MaxMatches
      /\ Rewrite(rows, RewardFiles, members)

-----------------------------------------------------------------------------
Items(kind) == DOMAIN PriceList[kind]

\* The body of the transaction of c: a user joins or a match is paid, or a user
\* shops and changes what he shows.
Account(c) ==
  /\ stage = "work" /\ holder = c
  /\ \/ \E user \in Users, nickname \in Nicknames : Register(user, nickname)
     \/ \E members \in Matches : \E winners \in SUBSET members : Reward(members, winners)

Shop(c, user, kind) ==
  /\ stage = "work" /\ holder = c
  /\ \E item \in Items(kind) :
       \/ Buy(user, kind, item)
       \/ kind = "emote" /\ \E a \in Items(kind) : ChangeEmote(user, a, item)
       \/ kind = "balloon" /\ ChangeBalloon(user, item)
       \/ kind = "icon" /\ ChangeIcon(user, item)

Handler(c) == Account(c) \/ \E user \in Users, kind \in Kinds : Shop(c, user, kind)

\* No handler commits without having written, and no file nears the limit of
\* Decode.
Frame(c) == Begin(c) \/ Refuse(c) \/ Publish(c) \/ Succeed(c)

Process == Replay \/ Die \/ Restart \/ Load

UserNext == (\E c \in Conns : Frame(c) \/ Handler(c)) \/ Process

UserSpec == UserInit /\ [][UserNext]_vars

-----------------------------------------------------------------------------
(* Properties, of the rows T; all of them are about Durable, what a restart at *)
(* this moment would serve.                                                    *)

\* Whatever the handlers do is a transaction of CsvStore: the images they save
\* are the rows they changed in memory, no more and no fewer.
CsvStoreSpec == Spec

Registered(T) == {user \in Users : T["UsersAccount"][user] # NoRow}

Complete(T) ==
  \A user \in Users, file \in CsvFiles :
    T[file][user] # NoRow <=> user \in Registered(T)

NicknamesDiffer(T) ==
  \A user, other \in Registered(T) :
    T["UsersAccount"][user].nickname = T["UsersAccount"][other].nickname
      => user = other

\* An account has its row in all seven files or in none, and no two accounts
\* share a nickname.
AccountsComplete == Complete(Durable) /\ NicknamesDiffer(Durable)

\* The goods of a user beyond those of a new account.
Bought(T, user) ==
  UNION {{kind} \X (T[GoodsFile[kind]][user].items \ NewGoods[kind]) : kind \in Kinds}

\* What they cost.
Cost(good, currency) ==
  LET price == PriceList[good[1]][good[2]]
  IN  IF price.currency = currency THEN price.amount ELSE 0

Spent(T, user, currency) ==
  MapThenSumSet(LAMBDA good : Cost(good, currency), Bought(T, user))

Earned(T, user, currency) ==
  LET stats == T["UserWinLossStats"][user]
      start == IF user \in DOMAIN Accounts THEN StartMoney[currency] ELSE 0
  IN  start + (IF currency = "COIN" THEN 500 * stats.win + 200 * stats.lose
                                    ELSE 5 * stats.win)

Balanced(T) ==
  \A user \in Registered(T), currency \in Currencies :
    LET money == T["UserProfile"][user].money[currency]
    IN  money >= 0 /\ money + Spent(T, user, currency) = Earned(T, user, currency)

\* Money, goods and statistics, kept in six different files, always add up:
\* nothing is owned unpaid, paid for and not owned, won and not rewarded.
BooksBalance == Balanced(Durable)

Climbed(T) ==
  \A user \in Registered(T) :
    LET profile == T["UserProfile"][user]
        stats   == T["UserWinLossStats"][user]
    IN  /\ profile.exp < 100 * profile.level
        /\ 50 * profile.level * (profile.level - 1) + profile.exp
             = 50 * stats.win + 30 * stats.lose

\* Levels and points are those of all matches together.
ExperienceAddsUp == Climbed(Durable)

Equipped(T) ==
  \A user \in Registered(T) :
    LET profile == T["UserProfile"][user]
    IN  /\ \A slot \in Slots : profile.emo[slot] \in T["UserEmotes"][user].items
        /\ IsInjective(profile.emo)
        /\ profile.balloon \in T["UserBalloon"][user].items
        /\ profile.icon \in T["UserIcon"][user].items

\* What a user shows in a match is his, and no emote takes two slots.
EquippedAreOwned == Equipped(Durable)

Played(T, user) == T["UserWinLossStats"][user].win + T["UserWinLossStats"][user].lose

PlayTogether(user, other) ==
  \A members \in Matches : user \in members <=> other \in members

\* A match is rewarded to all its members or to none: users who only play
\* together have played equally often.
PaidTogether ==
  \A user, other \in Registered(Durable) :
    PlayTogether(user, other) => Played(Durable, user) = Played(Durable, other)
=============================================================================
