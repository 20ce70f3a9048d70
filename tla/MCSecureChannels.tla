-------------------------- MODULE MCSecureChannels --------------------------
(* Small instances of SecureChannels for TLC.                              *)
EXTENDS SecureChannels, TLC

CONSTANTS c1, c2, h1, h2, h3, s1, s2

TwoConns    == {c1, c2}
TwoChannels == {h1, h2}
ThreeChannels == {h1, h2, h3}
OneSession  == {s1}
TwoSessions == {s1, s2}

Symmetry ==
    Permutations(Conns) \cup Permutations(Channels) \cup Permutations(Sessions)
=============================================================================
