-------------------------- MODULE MCRandomPrimitives --------------------------
EXTENDS RandomPrimitives

\* Up to three outcomes, some of weight zero, but not all.
MCThetas == {t \in UNION {[1..k -> 0..2] : k \in 1..3} : \E j \in DOMAIN t : t[j] > 0}
MCPoints == 0..4
MCBell == <<5, 2, 1>>
===============================================================================
