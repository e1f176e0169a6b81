----------------------------- MODULE MCBankLine -----------------------------
EXTENDS BankLine, TLC

\* Lines 1 and 3 are on account "A", 2 on "B"; entry 7 is a transfer posted by hand.
Accounts == <<"A", "B", "A">>
Both == {"A", "B"}

\* The line, seat, kind, legs and target of each key; the last leg set is the hand entry's.
KeyLine == <<1, 1, 2, 3, 2, 3>>
KeySeat == <<"s", "s", "t", "t", "t", "t">>
KeyKind == <<"accounts", "ignore", "accounts", "match", "match", "match">>
EntryLegs == <<Both, {}, Both, {}, {}, {}, Both>>
Named == <<7, 7, 7, 7, 1, 1>>

Symmetries == Permutations(Proc)
=============================================================================
