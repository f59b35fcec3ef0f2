----------------------------- MODULE MCTelegram -----------------------------
(* Small instances of Telegram for TLC.                                    *)
EXTENDS Telegram, TLC

Symmetry == Permutations(Users) \cup Permutations(Chats)
              \cup Permutations(Codes) \cup Permutations(Msgs)
=============================================================================
