-------------------------------- MODULE Include --------------------------------
(***************************************************************************)
(* The binding file lexer over nested #include directives: a stack of      *)
(* buffers kept by flex and, apart from it, a stack of locations kept by   *)
(* the lexer, which give every token the file and line the C compiler is   *)
(* told of in #line directives.                                            *)
(*                                                                         *)
(* No file is ever closed, so that the files a process may have open bound *)
(* the directives of a run; this is also all that ends a circular include. *)
(***************************************************************************)
EXTENDS Integers, SequencesExt

CONSTANTS
  Files,     \* file names; genbindopen finds those that exist
  Root,      \* the binding file named on the command line
  MaxLines,  \* bound on the lines of a file
  MaxOpen    \* files the process may have open at once

ASSUME RootAssumption == Root \in Files
ASSUME LinesAssumption == MaxLines \in Nat
ASSUME OpenAssumption == MaxOpen \in Nat \ {0}

VARIABLES
  text,       \* contents of the files that exist
  buffers,    \* flex buffers, the one being read last: file and next line
  locations,  \* location stack, head first
  filename, yylineno,  \* location of the next token
  start,      \* start condition "INITIAL" or "incl"
  opened,     \* files opened
  tokens,     \* what the parser was given, in order
  pc          \* "lex", "eof" or "exit"

vars == <<text, buffers, locations, filename, yylineno, start, opened, tokens, pc>>

-----------------------------------------------------------------------------
(* A line holds a token or a directive; more may follow a directive. *)
Line == [kind : {"token"}] \cup [kind : {"include"}, file : Files, trailing : BOOLEAN]

Top == Last(buffers)
AtEnd == Top.next > Len(text[Top.file])
Here == text[Top.file][Top.next]

Texts == UNION {[S -> BoundedSeq(Line, MaxLines)] : S \in {T \in SUBSET Files : Root \in T}}

(* the root file is open *)
Start == /\ buffers = <<[file |-> Root, next |-> 1]>>
         /\ locations = <<>>
         /\ filename = Root /\ yylineno = 1
         /\ start = "INITIAL"
         /\ opened = 1
         /\ tokens = <<>>
         /\ pc = "lex"

Init == text \in Texts /\ Start

(* the rest of the buffer from the next line on *)
NextLine == /\ buffers' = [buffers EXCEPT ![Len(buffers)].next = @ + 1]
            /\ yylineno' = yylineno + 1

Token == /\ pc = "lex" /\ start = "INITIAL" /\ ~AtEnd
         /\ Here.kind = "token"
         /\ tokens' = Append(tokens, [file |-> filename, line |-> yylineno])
         /\ NextLine
         /\ UNCHANGED <<text, locations, filename, start, opened, pc>>

(* the named file cannot be opened *)
Unopenable(f) == f \notin DOMAIN text \/ opened = MaxOpen

(* mistake: the line to come back to is not kept *)
PushLocationOnly(f) ==
  /\ locations' = <<[filename |-> filename, start_line |-> 1]>> \o locations
  /\ filename' = f /\ yylineno' = 1

PushLocation(f) ==
  /\ locations' = <<[filename |-> filename, start_line |-> yylineno]>> \o locations
  /\ filename' = f /\ yylineno' = 1

(* mistake: the buffer is switched instead of pushed *)
IncludeSwitching ==
  /\ pc = "lex" /\ start = "INITIAL" /\ ~AtEnd
  /\ Here.kind = "include" /\ ~Unopenable(Here.file)
  /\ PushLocation(Here.file)
  /\ buffers' = Append(Front(buffers), [file |-> Here.file, next |-> 1])
  /\ opened' = opened + 1
  /\ UNCHANGED <<text, start, tokens, pc>>

Include ==
  /\ pc = "lex" /\ start = "INITIAL" /\ ~AtEnd
  /\ Here.kind = "include" /\ ~Unopenable(Here.file)
  /\ PushLocation(Here.file)
  /\ buffers' = Append(buffers, [file |-> Here.file, next |-> 1])
  /\ opened' = opened + 1
  /\ UNCHANGED <<text, start, tokens, pc>>

(* mistake: the failure is not noticed *)
IncludeRetried == /\ pc = "lex" /\ start = "INITIAL" /\ ~AtEnd
                  /\ Here.kind = "include" /\ Unopenable(Here.file)
                  /\ UNCHANGED vars

IncludeFails == /\ pc = "lex" /\ start = "INITIAL" /\ ~AtEnd
                /\ Here.kind = "include" /\ Unopenable(Here.file)
                /\ pc' = "exit"
                /\ UNCHANGED <<text, buffers, locations, filename, yylineno, start, opened, tokens>>

(* the rest of the directive is read in the state incl: the closing quote is
   eaten, anything more is the name of a file that does not exist *)
RestOfLine == /\ pc = "lex" /\ start = "incl"
              /\ ~Here.trailing
              /\ start' = "INITIAL"
              /\ NextLine
              /\ UNCHANGED <<text, locations, filename, opened, tokens, pc>>

TrailingText == /\ pc = "lex" /\ start = "incl"
                /\ Here.trailing
                /\ pc' = "exit"
                /\ UNCHANGED <<text, buffers, locations, filename, yylineno, start, opened, tokens>>

(* pop_location *)
PopLocation == /\ filename' = Head(locations).filename
               /\ yylineno' = Head(locations).start_line
               /\ locations' = Tail(locations)

EndOfInclude == /\ pc = "lex" /\ start = "INITIAL" /\ AtEnd
                /\ Len(buffers) > 1
                /\ buffers' = Front(buffers)
                /\ PopLocation
                /\ start' = "incl"
                /\ UNCHANGED <<text, opened, tokens, pc>>

EndOfFile == /\ pc = "lex" /\ start = "INITIAL" /\ AtEnd
             /\ Len(buffers) = 1
             /\ pc' = "eof"
             /\ UNCHANGED <<text, buffers, locations, filename, yylineno, start, opened, tokens>>

(* what the lexer does without the parser noticing *)
Directive == \/ Include \/ IncludeFails \/ RestOfLine \/ TrailingText
             \/ EndOfInclude \/ EndOfFile

Next == Token \/ Directive

Spec == Init /\ [][Next]_vars

-----------------------------------------------------------------------------
(* The location stack mirrors the buffer stack at every depth: each buffer's
   file and line is the location kept for it, so that the #line directives
   of the generated source point at the author's code. *)
LocationsFollowBuffers ==
  /\ Len(locations) = Len(buffers) - 1
  /\ filename = Top.file /\ yylineno = Top.next
  /\ \A k \in DOMAIN locations :
       LET b == buffers[Len(buffers) - k]
       IN  locations[k] = [filename |-> b.file, start_line |-> b.next]

(* The tokens of each file with the directives replaced by the files they
   name, of which depth can be open within one another *)
Expanded[depth \in 0 .. MaxOpen] ==
  [file \in DOMAIN text |->
     FlattenSeq([line \in DOMAIN text[file] |->
       LET l == text[file][line]
       IN  IF l.kind = "token" THEN <<[file |-> file, line |-> line]>>
           ELSE IF depth > 0 /\ l.file \in DOMAIN text THEN Expanded[depth - 1][l.file]
           ELSE <<>>])]
=============================================================================
