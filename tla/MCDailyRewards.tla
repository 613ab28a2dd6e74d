---------------------------- MODULE MCDailyRewards ----------------------------
EXTENDS DailyRewards, TLC
CONSTANTS u1, u2, m1, m2, m3, s1, s2
MCDifficulty == [q \in Question |-> IF q = "known" THEN "easy" ELSE "hard"]
MCLimit == [source \in {"bot", "pvp"} |-> IF source = "bot" THEN 1 ELSE 2]
Interchangeable ==
    Permutations(User) \cup Permutations(Match) \cup Permutations(Server)
===============================================================================
