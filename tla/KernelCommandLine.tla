--------------------------- MODULE KernelCommandLine ---------------------------
(***************************************************************************)
(* domain::KernelCommandLine: a kernel command line as a list of arguments *)
(* that is parsed from text, looked up, changed and rendered.              *)
(*                                                                         *)
(* A text and an argument are sequences of characters.  A word in which    *)
(* nothing is told apart is one character: root=UUID=x is the argument     *)
(* <<"root", "=", "UUID", "=", "x">>.                                      *)
(***************************************************************************)
EXTENDS Integers, Sequences, SequencesExt, Scanning

Space == " "
Single == "'"
Double == "\""
Backslash == "\\"
Unquoted == "none"

Malformed == <<<<"malformed">>>>   \* the exceptions of parse

-----------------------------------------------------------------------------
(* parse, one character at a time. *)
Flush(s) ==
  IF s.current = <<>> THEN s
  ELSE [s EXCEPT !.arguments = Append(@, s.current), !.current = <<>>]

ParseCharacter(s, ch) ==
  LET keep == [s EXCEPT !.current = Append(@, ch)] IN
  IF s.escaped THEN [keep EXCEPT !.escaped = FALSE]
  ELSE IF ch = Backslash THEN [s EXCEPT !.escaped = TRUE]
  ELSE IF s.quote # Unquoted THEN IF ch = s.quote THEN [s EXCEPT !.quote = Unquoted] ELSE keep
  ELSE IF ch \in {Single, Double} THEN [s EXCEPT !.quote = ch]
  ELSE IF ch = Space THEN Flush(s)
  ELSE keep

ParseStart == [arguments |-> <<>>, current |-> <<>>, escaped |-> FALSE, quote |-> Unquoted]

ParseText(text) ==
  LET end == Scan(ParseCharacter, ParseStart, text)
  IN  IF end.escaped \/ end.quote # Unquoted THEN Malformed ELSE Flush(end).arguments

(* Faulty: A backslash in an argument is not escaped. *)
QuoteArgument_NoEscape(argument) ==
  IF ToSet(argument) \cap {Space, Double, Backslash} = {} THEN argument
  ELSE <<Double>> \o argument \o <<Double>>

(* Quotes and backslashes are escaped. *)
EscapeCharacter(text, ch) ==
  (IF ch \in {Double, Backslash} THEN text \o <<Backslash>> ELSE text) \o <<ch>>

(* An argument is quoted for a space, a double quote or a backslash in it, *)
(* not for a single quote.                                                  *)
QuoteArgument(argument) ==
  IF ToSet(argument) \cap {Space, Double, Backslash} = {} THEN argument
  ELSE <<Double>> \o Scan(EscapeCharacter, <<>>, argument) \o <<Double>>

(* render: the arguments, separated by spaces. *)
RenderArgument(text, argument) ==
  (IF text = <<>> THEN <<>> ELSE text \o <<Space>>) \o QuoteArgument(argument)

RenderArguments(arguments) == Scan(RenderArgument, <<>>, arguments)

-----------------------------------------------------------------------------
(* value, values, contains and set look at the key of an argument; only     *)
(* contains and set know one that has no value.                             *)
HasValue(argument, key) == Len(argument) > 1 /\ argument[1] = key /\ argument[2] = "="

IsKey(argument, key) == argument = <<key>> \/ HasValue(argument, key)

NoValue == <<>>

(* The places of the arguments that have that key, and a value. *)
PlacesOf(arguments, key) == {i \in DOMAIN arguments : HasValue(arguments[i], key)}

ValueOf(argument) == SubSeq(argument, 3, Len(argument))

(* values: nobody asks for their order. *)
Values(arguments, key) == {ValueOf(arguments[i]) : i \in PlacesOf(arguments, key)}

(* value: the first of them.  One that is empty is told from none by        *)
(* nobody who asks.                                                         *)
Value(arguments, key) ==
  LET places == PlacesOf(arguments, key)
  IN  IF places = {} THEN NoValue ELSE ValueOf(arguments[Min(places)])

(* set: the first argument of that key is replaced, or one is added. *)
SetValue(arguments, key, value) ==
  LET replacement == <<key, "=">> \o value
      places == {i \in DOMAIN arguments : IsKey(arguments[i], key)}
  IN  IF places = {} THEN Append(arguments, replacement)
      ELSE [arguments EXCEPT ![Min(places)] = replacement]

-----------------------------------------------------------------------------
(* The kernel (next_arg in lib/cmdline.c): a space outside double quotes     *)
(* ends an argument, double quotes are dropped, and no other character is    *)
(* special.  The last of two values of a key is the one in force.            *)
KernelCharacter(s, ch) ==
  IF ch = Double THEN [s EXCEPT !.quoted = ~@]
  ELSE IF ch # Space \/ s.quoted THEN [s EXCEPT !.current = Append(@, ch)]
  ELSE [s EXCEPT !.arguments = IF s.current = <<>> THEN @ ELSE Append(@, s.current),
                 !.current = <<>>]

KernelStart == [arguments |-> <<>>, current |-> <<>>, quoted |-> FALSE]

KernelReads(text) == Scan(KernelCharacter, KernelStart, Append(text, Space)).arguments

InForce(arguments, key) ==
  LET places == PlacesOf(arguments, key)
  IN  IF places = {} THEN NoValue ELSE ValueOf(arguments[Max(places)])

=============================================================================
