---------------------------- MODULE UserStoreMC ----------------------------
(* Instances of UserStore for TLC. *)
EXTENDS UserStore, TLC

CONSTANTS u1, u2, u3, n1, n2, n3

Price(amount, currency) == [amount |-> amount, currency |-> currency]

\* One item of each kind beyond those a new account has, and money for some of
\* them; the character only after a match.
Prices ==
  [char    |-> 0 :> Price(0, "COIN") @@ 1 :> Price(500, "COIN"),
   balloon |-> 0 :> Price(0, "COIN") @@ 1 :> Price(300, "COIN"),
   emote   |-> [item \in 0 .. 3 |-> Price(0, "CASH")] @@ 4 :> Price(5, "CASH"),
   icon    |-> 0 :> Price(0, "CASH") @@ 1 :> Price(5, "CASH")]
Installed == u1 :> n1 @@ u2 :> n2
Money     == [COIN |-> 400, CASH |-> 5]
Pair      == {{u1, u2}}

VARIABLE scene  \* the instance: what the handlers are used for

\* A user who shops for everything; or two players of the same matches who may
\* buy a character, and a third who registers.
SceneInit == UserInit /\ scene \in {"shop", "matches"}

SceneNext ==
  /\ \/ \E c \in Conns :
          \/ Frame(c)
          \/ scene = "matches" /\ (Account(c) \/ \E user \in Users : Shop(c, user, "char"))
          \/ scene = "shop" /\ \E kind \in Kinds : Shop(c, u1, kind)
     \/ Process
  /\ UNCHANGED scene

SceneSpec == SceneInit /\ [][SceneNext]_<<vars, scene>>
=============================================================================
