------------------------------ MODULE MCChatTurn ------------------------------
(* ChatTurn on a small instance: one ticker in lower case, replies of up to two *)
(* items against a cap of one trade and one change, prompts of one exchange     *)
(* after a conversation of one, which bought a share and sold it again.         *)
EXTENDS ChatTurn, TLC

CONSTANTS AAPL, aapl

MCCanonical == aapl :> AAPL

Done(what) == [what |-> what, ticker |-> AAPL, why |-> "ok"]
MCEarlier == <<Row(0, "user", <<>>), Row(0, "assistant", <<Done("buy"), Done("sell")>>)>>

Items(kinds) == {Trade(what, aapl) : what \in kinds} \cup {Junk}
Lists(kinds, n) == SeqOf(Items(kinds), n)

MCReplies ==
    UNION {[trades : Lists({"buy", "sell"}, n), changes : Lists({"add", "remove"}, 2 - n)]
           : n \in 0..2}
=============================================================================
