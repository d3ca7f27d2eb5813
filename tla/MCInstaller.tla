---------------------------- MODULE MCInstaller ----------------------------
EXTENDS Installer, TLC

\* Identities: a good chip, another maker, no chip, high and low chip differ.
Good == <<<<1, 1>>, <<2, 2>>, <<3, 3>>, <<4, 4>>, <<5, 5>>>>
Other == <<<<9, 9>>, <<2, 2>>, <<3, 3>>, <<4, 4>>, <<5, 5>>>>
Void == <<<<7, 7>>, <<7, 7>>, <<7, 7>>, <<7, 7>>, <<7, 7>>>>
Split == <<<<1, 1>>, <<2, 2>>, <<3, 6>>, <<4, 4>>, <<5, 5>>>>

MCSpecId == (2 :> 2) @@ (4 :> 4)
MCIdReads == {<<Good, Void, Good>>, <<Good, Good, Good>>, <<Good, Other, Split>>}
MCIds == {[b \in AllBanks |-> r[b + 1]] : r \in MCIdReads}
MCNumFwPages == [i \in Images |-> 2]
MCBadPatterns == {{<<0, 1, "H">>, <<2, 1, "H">>, <<2, 1, "L">>}, {<<2, 1, "L">>}}
=============================================================================
