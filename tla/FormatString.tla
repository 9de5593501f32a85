---------------------------- MODULE FormatString ----------------------------
(***************************************************************************)
(* How cxxcurses prints: window << format(where)(text, arguments...).  The *)
(* text is parsed into glyphs, "{letters}" standing for the next argument  *)
(* in the colour and with the attributes of the letters; the cursor is     *)
(* moved, by default to where the text is centred; the glyphs are printed  *)
(* one by one, each switching its attributes on and all of them off.       *)
(*                                                                         *)
(* The program passes lines with command lines in them as the text, and no *)
(* arguments.  Curses is external.                                         *)
(***************************************************************************)
EXTENDS Integers, Sequences, SequencesExt

CONSTANTS
  Pieces,     \* what a text is put together from: sequences of characters,
              \* either a field from its "{" on or without any "{"
  Arguments,  \* what may be passed for a field: sequences of characters
  MaxPieces, MaxArguments,  \* bounds on a call
  MaxLength,  \* bound on a piece and an argument
  Windows,    \* the sizes a window may have: [height, width]
  Ints        \* how many values an int has; a size_t has as many as two ints

OpenBrace == "{"
CloseBrace == "}"

IsField(piece) == piece # <<>> /\ Head(piece) = OpenBrace

ASSUME FormatAssumption ==
  /\ Pieces \subseteq Seq(STRING) /\ Arguments \subseteq Seq(STRING)
  /\ \A piece \in Pieces :
       IF IsField(piece)
       THEN \A i \in 1 .. Len(piece) - 1 : piece[i] # CloseBrace
       ELSE \A i \in 1 .. Len(piece) : piece[i] # OpenBrace
  /\ MaxPieces \in Nat /\ MaxArguments \in Nat /\ MaxLength \in Nat
  /\ \A text \in Pieces \cup Arguments : Len(text) <= MaxLength
  /\ Ints \in Nat \ {0} /\ Ints % 2 = 0
  /\ (MaxPieces + MaxArguments) * MaxLength <= Ints  \* a text can be counted
  /\ \A w \in Windows : {w.height, w.width} \subseteq 1 .. Ints \div 2 - 1

VARIABLES
  pc,
  pieces,      \* history: what the text was put together from
  arguments,   \* history: the arguments of the call
  to_parse,
  args,        \* arguments that are left
  coords,      \* std::optional: <<>> or <<value>>, for y and x
  format_str,
  window,      \* size and cursor
  attrs,       \* the window's attributes
  cells        \* what has been put on the screen: characters as they look

input == <<pieces, arguments, coords>>
vars == <<pc, input, to_parse, args, format_str, window, attrs, cells>>

char_to_color ==
  [r |-> "red", g |-> "green", y |-> "yellow", b |-> "blue", m |-> "magenta",
   c |-> "cyan", w |-> "white"]

char_to_attribute ==
  [N |-> "normal", S |-> "standout", U |-> "underline", R |-> "reverse",
   X |-> "blink", D |-> "dim", B |-> "bold", P |-> "protect", I |-> "invisible"]

Normal == [color |-> "default", attributes |-> {}]

Glyph(ch, color, attributes) ==
  [char |-> ch, color |-> color, attributes |-> attributes]

Glyphs(text, color, attributes) ==
  [i \in DOMAIN text |-> Glyph(text[i], color, attributes)]

(* The position of the first ch, 0 if there is none.                       *)
Find(ch, text) == SelectInSeq(text, LAMBDA c : c = ch)

-----------------------------------------------------------------------------
(* Curses *)

(* A byte from 128 on is a negative char; widened to a chtype it has every *)
(* attribute and a colour of its own.                                      *)
Waddch(ch, on) ==
  IF ch = "\\xe4" THEN Glyph(ch, "pair 255", {"all"})
  ELSE Glyph(ch, on.color, on.attributes \ {"normal"})

(* wmove fails outside the window and leaves the cursor where it is.       *)
move_cursor(y, x) ==
  IF y \in 0 .. window.height - 1 /\ x \in 0 .. window.width - 1
  THEN [window EXCEPT !.y = y, !.x = x]
  ELSE window

max_yx == [y |-> window.height, x |-> window.width]
current_yx == [y |-> window.y, x |-> window.x]

-----------------------------------------------------------------------------
(* printer::operator() *)

Init ==
  /\ pc = "idle"
  /\ pieces = <<>> /\ arguments = <<>>
  /\ coords = [y |-> <<>>, x |-> <<>>]
  /\ to_parse = <<>> /\ args = <<>> /\ format_str = <<>> /\ cells = <<>>
  /\ \E w \in Windows :
       window = [height |-> w.height, width |-> w.width, y |-> 0, x |-> 0]
  /\ attrs = Normal

(* format(y, x), format(y) or format(), wherever the cursor is.            *)
Format(ps, as, where, y, x) ==
  /\ pc = "idle"
  /\ pc' = "parse"
  /\ pieces' = ps /\ arguments' = as /\ coords' = where
  /\ to_parse' = FlattenSeq(ps)
  /\ args' = as
  /\ window' = [window EXCEPT !.y = y, !.x = x]
  /\ UNCHANGED <<format_str, attrs, cells>>

(* Text up to the next brace, or to the end.                               *)
Parse ==
  LET brace == Find(OpenBrace, to_parse)
      end == IF brace = 0 THEN Len(to_parse) ELSE brace - 1
  IN /\ pc = "parse"
     /\ pc' = IF brace = 0 THEN "place" ELSE "parse_arg"
     /\ format_str' = format_str \o Glyphs(SubSeq(to_parse, 1, end), "white", {})
     /\ to_parse' = SubSeq(to_parse, end + 1, Len(to_parse))
     /\ UNCHANGED <<input, args, window, attrs, cells>>

(* Letter by letter, each one of a colour replaces the colour, and each    *)
(* one of an attribute adds it.                                            *)
ColorOf(letters) ==
  LET color[i \in 0 .. Len(letters)] ==
        IF i = 0 THEN "white"
        ELSE IF letters[i] \in DOMAIN char_to_color THEN char_to_color[letters[i]]
        ELSE color[i - 1]
  IN color[Len(letters)]

AttributesOf(letters) ==
  {char_to_attribute[c] : c \in ToSet(letters) \cap DOMAIN char_to_attribute}

Styled(letters, arg) == Glyphs(arg, ColorOf(letters), AttributesOf(letters))

(* Variant: the closing brace is left in the text.                         *)
ParseArg_KeepsBrace ==
  LET brace == Find(CloseBrace, to_parse)
  IN /\ pc = "parse_arg"
     /\ args # <<>> /\ brace # 0
     /\ pc' = "parse"
     /\ format_str' = format_str \o Styled(SubSeq(to_parse, 1, brace), Head(args))
     /\ to_parse' = SubSeq(to_parse, brace, Len(to_parse))
     /\ args' = Tail(args)
     /\ UNCHANGED <<input, window, attrs, cells>>

ParseArg ==
  LET brace == Find(CloseBrace, to_parse)
  IN /\ pc = "parse_arg"
     /\ args # <<>> /\ brace # 0
     /\ pc' = "parse"
     /\ format_str' = format_str \o Styled(SubSeq(to_parse, 1, brace), Head(args))
     /\ to_parse' = SubSeq(to_parse, brace + 1, Len(to_parse))
     /\ args' = Tail(args)
     /\ UNCHANGED <<input, window, attrs, cells>>

(* parse_arg without an argument: the rest of the text is forgotten.       *)
ParseNoArg ==
  /\ pc = "parse_arg"
  /\ args = <<>>
  /\ pc' = "place"
  /\ UNCHANGED <<input, to_parse, args, format_str, window, attrs, cells>>

(* Without a closing brace parse_arg reads on behind the text.             *)
ParseRunsAway ==
  /\ pc = "parse_arg"
  /\ args # <<>> /\ Find(CloseBrace, to_parse) = 0
  /\ pc' = "undefined"
  /\ UNCHANGED <<input, to_parse, args, format_str, window, attrs, cells>>

-----------------------------------------------------------------------------
(* operator<< *)

SizeT(n) == n % (Ints * Ints)

(* A size_t passed as an int.                                              *)
ToInt(n) ==
  LET low == n % Ints
  IN IF low < Ints \div 2 THEN low ELSE low - Ints

(* Variant: half of the width less half of the text.                       *)
Centre_Halves(width, size) == width \div 2 - size \div 2

Centre(width, size) == ToInt(SizeT(width - size) \div 2)

Place ==
  /\ pc = "place"
  /\ pc' = "print"
  /\ window' =
       move_cursor(IF coords.y # <<>> THEN coords.y[1] ELSE current_yx.y,
                   IF coords.x # <<>> THEN coords.x[1]
                   ELSE Centre(max_yx.x, Len(format_str)))
  /\ UNCHANGED <<input, to_parse, args, format_str, attrs, cells>>

(* wattron: a colour replaces the colour, attributes add up.               *)
Wattron(on, glyph) ==
  [color |-> glyph.color, attributes |-> on.attributes \cup glyph.attributes]

(* Variant: the attributes are not switched off again.                     *)
PrintGlyph_StaysOn ==
  LET glyph == format_str[Len(cells) + 1]
  IN /\ pc = "print"
     /\ Len(cells) < Len(format_str)
     /\ attrs' = Wattron(attrs, glyph)
     /\ cells' = Append(cells, Waddch(glyph.char, Wattron(attrs, glyph)))
     /\ UNCHANGED <<pc, input, to_parse, args, format_str, window>>

PrintGlyph ==
  LET glyph == format_str[Len(cells) + 1]
  IN /\ pc = "print"
     /\ Len(cells) < Len(format_str)
     /\ attrs' = Normal
     /\ cells' = Append(cells, Waddch(glyph.char, Wattron(attrs, glyph)))
     /\ UNCHANGED <<pc, input, to_parse, args, format_str, window>>

EndPrint ==
  /\ pc = "print"
  /\ Len(cells) = Len(format_str)
  /\ pc' = "printed"
  /\ UNCHANGED <<input, to_parse, args, format_str, window, attrs, cells>>

(* The end of the statement, and of the printer.                           *)
Destroy ==
  /\ pc = "printed"
  /\ pc' = "idle"
  /\ pieces' = <<>> /\ arguments' = <<>> /\ coords' = [y |-> <<>>, x |-> <<>>]
  /\ to_parse' = <<>> /\ args' = <<>> /\ format_str' = <<>> /\ cells' = <<>>
  /\ UNCHANGED <<window, attrs>>

Next ==
  \/ \E ps \in BoundedSeq(Pieces, MaxPieces),
        as \in BoundedSeq(Arguments, MaxArguments),
        where \in {[y |-> <<0>>, x |-> <<0>>], [y |-> <<1>>, x |-> <<>>],
                    [y |-> <<>>, x |-> <<>>]},
        cursor \in {<<0, 0>>, <<window.height - 1, window.width - 1>>} :
       Format(ps, as, where, cursor[1], cursor[2])
  \/ Parse
  \/ ParseArg
  \/ ParseNoArg
  \/ ParseRunsAway
  \/ Place
  \/ PrintGlyph
  \/ EndPrint
  \/ Destroy

Spec == Init /\ [][Next]_vars

-----------------------------------------------------------------------------
(* Properties *)

(* Types; and no attribute stays switched on when a character is printed.  *)
TypeOK ==
  /\ pc \in {"idle", "parse", "parse_arg", "place", "print", "printed", "undefined"}
  /\ Len(cells) <= Len(format_str)
  /\ Len(args) <= Len(arguments)
  /\ window.y \in 0 .. window.height - 1
  /\ window.x \in 0 .. window.width - 1
  /\ attrs = Normal

IsClosed(piece) == piece # <<>> /\ Last(piece) = CloseBrace

(* How many fields there are before piece i.                               *)
FieldsBefore(i) == Cardinality({j \in 1 .. i - 1 : IsField(pieces[j])})

(* The pieces that take part: those before the first brace that there is   *)
(* no argument for.                                                        *)
TakesPart(i) ==
  \A j \in 1 .. i : IsField(pieces[j]) => FieldsBefore(j) < Len(arguments)

Parts == {i \in DOMAIN pieces : TakesPart(i)}

ClosesItsFields == \A i \in Parts : IsField(pieces[i]) => IsClosed(pieces[i])

Looks(text, color, attributes) ==
  [i \in DOMAIN text |-> Waddch(text[i], [color |-> color, attributes |-> attributes])]

LooksOfField(field, argument) ==
  LET colored == {i \in DOMAIN field : field[i] \in DOMAIN char_to_color}
  IN Looks(argument,
           IF colored = {} THEN "white" ELSE char_to_color[field[Max(colored)]],
           {char_to_attribute[c] : c \in ToSet(field) \cap DOMAIN char_to_attribute})

LooksOfPiece(i) ==
  IF IsField(pieces[i])
  THEN LooksOfField(pieces[i], arguments[FieldsBefore(i) + 1])
  ELSE Looks(pieces[i], "white", {})

(* What a text looks like does not depend on what was printed before it,   *)
(* nor one part of it on the others: text is plain, a field is replaced by *)
(* its argument in its own style, and all ends at the first brace that has *)
(* no argument, which for a text without arguments is the first of all     *)
(* (glyph_string.hpp:51-118, glyph.hpp:35-41).                             *)
LooksAsFormatted ==
  ClosesItsFields =>
    /\ pc # "undefined"
    /\ pc = "printed" =>
         cells = FlattenSeq([i \in 1 .. Cardinality(Parts) |-> LooksOfPiece(i)])

(* A text without x that fits is in the middle, or half a cell left of it. *)
(* For one that is too wide the difference of sizes wraps around, but ends *)
(* up as a column that curses refuses, never as one within the window      *)
(* (print.hpp:42-71).                                                      *)
CentredOrRefused ==
  [][(pc = "place" /\ pc' = "print" /\ coords.x = <<>>) =>
       LET right == window.width - window'.x - Len(format_str)
           fits == /\ Len(format_str) <= window.width
                   /\ coords.y = <<>> \/ coords.y[1] < window.height
       IN IF fits THEN right - window'.x \in {0, 1} ELSE window' = window]_vars
=============================================================================
