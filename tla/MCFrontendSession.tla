------------------------- MODULE MCFrontendSession -------------------------
(***************************************************************************)
(* Instances of FrontendSession for TLC.  A tab is <<browser, number>>.    *)
(***************************************************************************)
EXTENDS FrontendSession

CONSTANTS b1, h1

TabBrowser(t) == t[1]
OneBrowser    == {b1}
OneTab        == {<<b1, 1>>}
TwoTabs       == {<<b1, 1>>, <<b1, 2>>}

\* One handler may be any, a second one of those whose order matters most.
Mixed(h) == IF h = h1 THEN Kinds ELSE {"login", "logout", "call"}
=============================================================================
