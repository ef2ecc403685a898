--------------------------- MODULE MCAthanorTable ---------------------------
\* Four rows in pages of three and batches of two; the second is a boss.
EXTENDS AthanorTable

CONSTANTS k1, k2, k3, k4, k5

MCBoss == <<2, 0, 2, 1>>
MCParentOf == <<1, 2, 4>>

\* Keys kept apart; two rows given one key; and drawn at random.
Apart == <<{k1}, {k2}, {k3}, {k4}>>
Colliding == <<{k1}, {k1}, {k3}, {k4}>>
Drawn == <<{k1, k5}, {k2}, {k3}, {k4}>>
MCTransforms == {Apart, Colliding, Drawn}

\* Nothing left out, or by one foreign key after the other.
MCMissing == {<<>>, <<{1}, {1, 2}>>, <<{}, {1}>>}
=============================================================================
