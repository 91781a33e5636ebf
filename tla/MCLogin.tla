-------------------------------- MODULE MCLogin --------------------------------
(***************************************************************************)
(* Login for TLC: a browser with two tabs and one with a single tab.       *)
(***************************************************************************)
EXTENDS Login

CONSTANTS left, right, other, home, library, alice

MCBrowserOf == [t \in Tabs |-> IF t = other THEN library ELSE home]
\* Two attempts with providers in one browser and a second browser, three visitors,
\* or one of each.
MCBudgets ==
    {[nonces |-> 2, visits |-> 0, ticks |-> 0, tabs |-> Tabs, from |-> {left, right}],
     [nonces |-> 0, visits |-> 3, ticks |-> 4,
      tabs |-> {left, other}, from |-> {left, other}],
     [nonces |-> 1, visits |-> 1, ticks |-> 1,
      tabs |-> {left, right}, from |-> {left, right}]}
MCBlacklist == {<<"github", alice>>}
================================================================================
