---------------------------- MODULE HelpedMachineMC ----------------------------
(***************************************************************************)
(* The input and the window of the helped machine, for TLC.  The display   *)
(* is shown in the page at a quarter of its size, from the middle of a     *)
(* pixel on, or as it is.  The two have no state in common (that nothing   *)
(* is injected without control is RemoteControl's): each is explored with  *)
(* the other at rest.                                                      *)
(***************************************************************************)
EXTENDS InputPath, StatusWindow

MCViewport == <<4, 2>>

MCSizes == {<<12, 8>>, <<4, 2>>}

Corners == {<<0, 0>>, <<3, 1>>}

Notches == {<<0, -100>>, <<100, 0>>}

VARIABLE part  \* the one that moves

InputMoves == part = "input" /\ Next /\ UNCHANGED <<allWindowVars, part>>

\* The window moves by one of its actions.
WindowMoves(A) == part = "window" /\ A /\ UNCHANGED <<vars, part>>

MCInit == part \in {"input", "window"} /\ Init /\ WindowInit

\* With the fairness of the window.
MCSpec ==
    /\ MCInit
    /\ [][InputMoves \/ WindowMoves(WindowNext)]_<<vars, allWindowVars, part>>
    /\ WF_allWindowVars(WindowMoves(EntersRun \/ Opens \/ Paints))
    /\ WF_allWindowVars(WindowMoves(Minimises))
    /\ WF_allWindowVars(WindowMoves(ControlEnds \/ Disconnected))

================================================================================
