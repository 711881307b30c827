----------------------------- MODULE MCSaveFile -----------------------------
EXTENDS SaveFile, TLC
PlayersValue ==
    {{"link", "autosave"}, {"mode", "borders", "reset"}, {"reset", "state", "suspend"}}
ResettingPlayers == {{"reset"}}
Symmetry == Permutations(Gbs)
\* Without a link nobody looks at the file of slot 2.
MCInit == Init /\ ("link" \in commands \/ file[2][Clock] = Missing)
MCSpec == MCInit /\ [][Next]_vars
=============================================================================
