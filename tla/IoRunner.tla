------------------------------ MODULE IoRunner ------------------------------
(***************************************************************************)
(* main, IoRunner and ViewCurses::init on a terminal: the terminal is      *)
(* opened and closed before the first frame, which opens it again; what is *)
(* collected is a step that may write to standard error, which is the same *)
(* terminal.                                                               *)
(***************************************************************************)
EXTENDS Terminal

VARIABLE pc

vars == <<pc, terminalVars>>

Init == TerminalInit /\ pc = "monitor_init"

(* io_monitor_.init(); main returns if it fails.                           *)
InitMonitor ==
  /\ pc = "monitor_init"
  /\ pc' \in {"initscr", "ended"}
  /\ UNCHANGED terminalVars

(* ViewCurses::init.  initscr itself exits if it fails.                    *)
OpenTerminal ==
  /\ pc = "initscr"
  /\ \/ pc' = "set_visibility" /\ Initscr
     \/ pc' = "ended" /\ UNCHANGED terminalVars

(* An exception leaves the constructor: nobody calls endwin, nobody catches*)
(* it.                                                                     *)
ErrorCheck(ok, next) == pc' = IF ok THEN next ELSE "aborted"

SetVisibility ==
  /\ pc = "set_visibility"
  /\ ErrorCheck(caps.civis, "colors")
  /\ UNCHANGED terminalVars

SetColors ==
  /\ pc = "colors"
  /\ \/ pc' = "pairs" /\ StartColor
     \/ pc' = "close" /\ PrintMessage

(* init_color_pairs, one pair after the other.                             *)
SetPairs ==
  /\ pc = "pairs"
  /\ InitColorPair
  /\ pc' = IF Len(initialized_pairs') = Len(Foregrounds) THEN "close" ELSE "pairs"

CloseTerminal ==
  /\ pc = "close"
  /\ pc' = "collect"
  /\ DestroyTerminal

(* Variant: a result of 0 is taken for a failure, too.                     *)
Collect_RepeatsOnZero ==
  /\ pc = "collect"
  /\ pc' = "collect"
  /\ StrayText \/ UNCHANGED terminalVars

(* collect_timed, which always returns 0.                                  *)
Collect ==
  /\ pc = "collect"
  /\ pc' = "print"
  /\ StrayText \/ UNCHANGED terminalVars

PrintData == pc = "print" /\ pc' = "draw" /\ PrintFrame

Draw == pc = "draw" /\ pc' = "clear" /\ Wrefresh

Clear == pc = "clear" /\ pc' = "sleep" /\ WindowClear

Sleep ==
  /\ pc = "sleep"
  /\ pc' = "collect"
  /\ UNCHANGED terminalVars

Stopped == pc \in {"ended", "aborted"}

(* SIGINT or SIGTERM; curses has a handler, which leaves curses mode.      *)
Interrupt ==
  /\ ~Stopped
  /\ pc' = "ended"
  /\ mode' = "shell"
  /\ UNCHANGED <<caps, started, initialized_pairs, pairs, stdscr, clearok, shown>>

Main ==
  \/ InitMonitor
  \/ OpenTerminal
  \/ SetVisibility
  \/ SetColors
  \/ SetPairs
  \/ CloseTerminal
  \/ Collect
  \/ PrintData
  \/ Draw
  \/ Clear
  \/ Sleep

Next == Main \/ Interrupt

Spec == Init /\ [][Next]_vars

(* The program runs; nobody need interrupt it.                             *)
FairSpec == Spec /\ WF_vars(Main)

-----------------------------------------------------------------------------
(* Properties *)

(* Types; and however often a colour is asked for, the registry has it     *)
(* once, so it cannot outgrow what the terminal has (color_pair.hpp:26-47).*)
TypeOK ==
  /\ pc \in {"monitor_init", "initscr", "set_visibility", "colors", "pairs", "close",
             "collect", "print", "draw", "clear", "sleep", "ended", "aborted"}
  /\ caps \in Caps
  /\ mode \in {"shell", "curses"}
  /\ started \in BOOLEAN /\ clearok \in BOOLEAN
  /\ Range(initialized_pairs) \subseteq Range(Foregrounds)
  /\ IsInjective(initialized_pairs)
  /\ DOMAIN pairs = DOMAIN initialized_pairs
  /\ stdscr \in [text : {"none", "frame"}, message : BOOLEAN]
  /\ shown \in [text : {"shell", "frame"}, message : BOOLEAN, stray : BOOLEAN]

(* A frame that has just been drawn is all there is on the screen, neither *)
(* what the shell left there nor what was written to standard error since  *)
(* the last one; without colours the end of the constructor's message may  *)
(* be left (view.cpp:33-34, terminal.hpp:29-32, 46-51).                    *)
FrameIsClean ==
  pc = "clear" =>
    /\ mode = "curses"
    /\ shown.text = "frame" /\ ~shown.stray
    /\ shown.message => ~caps.colors

(* Once something is printed, the pair it is printed with is the one the   *)
(* registry means, if the terminal can have it: the registry never says    *)
(* that a pair is initialised which curses does not have                   *)
(* (terminal.hpp:35-37, color_pair.hpp:26-47).                             *)
RegistryInStep ==
  caps.default_colors => pairs = initialized_pairs

(* Frames are drawn again and again unless the program ends, which it does *)
(* of itself only during its initialisation; an exception ends it only if  *)
(* the cursor cannot be hidden (iotop.cpp:22-31, cursor.hpp:24-29).        *)
FramesKeepComing ==
  caps.civis => ([]<>(pc = "clear") \/ <>(pc = "ended"))
=============================================================================
