---------------------------- MODULE MCRecipients ----------------------------
(* Small instances of Recipients: a key that is rotated away and two others, *)
(* two files that may be there in any layout an earlier release wrote.       *)
EXTENDS Recipients

CONSTANTS old, new, other, p1, p2

ThreeKeys == {old, new, other}
TwoCommands == {p1, p2}
TwoFiles == {1, 2}

\* Of a kind of its own, so that no other slot is mistaken for it.
OldApart == [k \in ThreeKeys |-> IF k = old THEN "768" ELSE "1024"]
\* The default of keygen.
AllAlike == [k \in ThreeKeys |-> "768"]

Version(c) == [pqf |-> c, named |-> {c.slots[i].to : i \in DOMAIN c.slots}]

OldSingle == Version(Sealed("v3", FALSE, Slots(<<old>>), "default", "none"))
OldChunk == Version(Sealed("v5", FALSE, Slots(<<old>>), "custom", "none"))
OldWhole == Version(Sealed("v2", FALSE, Slots(<<old>>), "default", "none"))
OtherSingle == Version(Sealed("v3", TRUE, Slots(<<other>>), "default", "none"))
OldAnonymous == Version(Sealed("v7", FALSE, Slots(<<other, old>>), "default", "none"))

Full == Version(Sealed("v4", TRUE, Slots(<<other, new, other, other>>), "default",
                       "none"))

Before == {<<OldSingle, OldSingle>>, <<OldAnonymous, OldWhole>>,
           <<OldChunk, Full>>, <<OtherSingle, Absent>>}
Mixed == {<<OtherSingle, OldSingle>>, <<OldSingle, Absent>>}

SomeLists == {<<old>>, <<other, old, other>>}
=============================================================================
