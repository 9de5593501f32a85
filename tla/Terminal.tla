------------------------------ MODULE Terminal ------------------------------
(***************************************************************************)
(* cxxcurses::terminal, the window main_win and the registry of colour     *)
(* pairs, over curses and a terminal, which are external: what the program *)
(* has printed into stdscr and what the terminal shows are two things, and *)
(* refresh sends the difference between what curses wants there and what   *)
(* it believes is there.                                                   *)
(***************************************************************************)
EXTENDS Integers, Sequences, Functions

CONSTANTS
  Width,         \* of the terminal
  HeaderLengths  \* how long the first line of a frame may be

ASSUME TerminalAssumption ==
  Width \in Nat \ {0} /\ HeaderLengths \subseteq Nat \ {0}

VARIABLES
  caps,               \* what the terminal can do
  mode,               \* of the tty: "shell" or "curses"
  started,            \* start_color was called
  initialized_pairs,  \* the registry: foregrounds, in order
  pairs,              \* curses' pairs of these numbers
  stdscr,
  clearok,            \* the next refresh repaints everything
  shown               \* what the terminal shows

terminalVars ==
  <<caps, mode, started, initialized_pairs, pairs, stdscr, clearok, shown>>

Caps == [civis : BOOLEAN, colors : BOOLEAN, default_colors : BOOLEAN]

(* text is whose lines these are, message and stray are what else is there.*)
Nothing == [text |-> "none", message |-> FALSE]

TerminalInit ==
  /\ caps \in Caps
  /\ caps.default_colors => caps.colors
  /\ mode = "shell"
  /\ started = FALSE
  /\ initialized_pairs = <<>> /\ pairs = <<>>
  /\ stdscr = Nothing
  /\ clearok = FALSE
  /\ shown = [text |-> "shell", message |-> FALSE, stray |-> FALSE]

-----------------------------------------------------------------------------
(* color_pair.hpp.  All backgrounds are color::none. *)

Registered(registry, fg) ==
  IF fg \in Range(registry) THEN registry ELSE Append(registry, fg)

(* One construction of a color_pair.  init_pair fails without colours, and *)
(* for color::none on a terminal that has no default colours; the registry *)
(* does not notice.                                                        *)
ColorPair(fg) ==
  /\ initialized_pairs' = Registered(initialized_pairs, fg)
  /\ pairs' = IF fg \in Range(initialized_pairs) THEN pairs
              ELSE Append(pairs, IF started /\ caps.default_colors THEN fg ELSE "unset")
  /\ UNCHANGED started

-----------------------------------------------------------------------------
(* The constructor *)

Initscr ==
  /\ mode' = "curses"
  /\ UNCHANGED <<caps, started, initialized_pairs, pairs, stdscr, clearok, shown>>

Foregrounds == <<"red", "green", "yellow", "blue", "magenta", "cyan", "white">>

(* Variant: the pairs are made before start_color.                         *)
StartColor_AfterPairs ==
  /\ caps.colors
  /\ UNCHANGED terminalVars

StartColor ==
  /\ caps.colors
  /\ started' = TRUE
  /\ UNCHANGED <<caps, mode, initialized_pairs, pairs, stdscr, clearok, shown>>

(* The next one; there is one terminal object, and no pair before it.      *)
InitColorPair ==
  /\ ColorPair(Foregrounds[Len(initialized_pairs) + 1])
  /\ UNCHANGED <<caps, mode, stdscr, clearok, shown>>

MessageLength == 35

(* Printed, but not refreshed.                                             *)
PrintMessage ==
  /\ ~caps.colors
  /\ stdscr' = [stdscr EXCEPT !.message = TRUE]
  /\ ColorPair("white")
  /\ UNCHANGED <<caps, mode, clearok, shown>>

(* The destructor: endwin.                                                 *)
DestroyTerminal ==
  /\ mode' = "shell"
  /\ UNCHANGED <<caps, started, initialized_pairs, pairs, stdscr, clearok, shown>>

-----------------------------------------------------------------------------
(* main_win *)

(* The end of the message: it is centred, or at the cursor if too long.    *)
MessageEnd ==
  MessageLength + IF Width < MessageLength THEN 0 ELSE (Width - MessageLength) \div 2

(* A frame is printed over what is in stdscr: the first line is short, the *)
(* others cover what the message may have there.                           *)
PrintFrame ==
  /\ \E length \in HeaderLengths :
       stdscr' = [text |-> "frame",
                  message |-> stdscr.message /\ length < MessageEnd]
  /\ ColorPair("white")
  /\ UNCHANGED <<caps, mode, clearok, shown>>

(* Someone else prints, standard error for one.                            *)
StrayText ==
  /\ shown' = [shown EXCEPT !.stray = TRUE]
  /\ UNCHANGED <<caps, mode, started, initialized_pairs, pairs, stdscr, clearok>>

(* wrefresh returns to curses mode, if need be, and then repaints all.     *)
Wrefresh ==
  /\ mode' = "curses"
  /\ shown' = [text |-> stdscr.text, message |-> stdscr.message,
               stray |-> shown.stray /\ mode = "curses" /\ ~clearok]
  /\ clearok' = FALSE
  /\ UNCHANGED <<caps, started, initialized_pairs, pairs, stdscr>>

(* Variant: erase in place of clear.                                       *)
WindowClear_Erases ==
  /\ stdscr' = Nothing
  /\ UNCHANGED <<caps, mode, started, initialized_pairs, pairs, clearok, shown>>

WindowClear ==
  /\ stdscr' = Nothing
  /\ clearok' = TRUE
  /\ UNCHANGED <<caps, mode, started, initialized_pairs, pairs, shown>>
=============================================================================
